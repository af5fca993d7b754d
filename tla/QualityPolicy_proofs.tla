------------------------- MODULE QualityPolicy_proofs -------------------------
(***************************************************************************)
(* Facts about the quality policy, for every source configuration and      *)
(* every candidate: its scores stay in their range, and more material does *)
(* not turn an accepted candidate away, but for one step of the ladder.    *)
(***************************************************************************)
EXTENDS QualityPolicy, TLAPS

\* The ladders and the other points, all in range.
LEMMA PointsRange ==
  ASSUME NEW s \in SourceConfig, NEW c \in Candidate
  PROVE  /\ BaseScore(s.tier) \in 5..30
         /\ EvidenceScore(c) \in 0..35
         /\ RepositoryScore(c) \in 0..53
<1>1. BaseScore(s.tier) \in 5..30
  BY DEF BaseScore, ByTier
<1>2. EvidenceScore(c) \in 0..35
  <2>1. BodyScore(c.content) \in 0..35
    BY DEF BodyScore, Step
  <2>2. SummaryScore(c.summary) \in 0..35
    BY DEF SummaryScore, Step
  <2>3. QED
    BY <2>1, <2>2 DEF EvidenceScore
<1>3. RepositoryScore(c) \in 0..53
  <2>1. StarScore(c.stars) \in 0..22
    BY DEF StarScore, Step
  <2>2. ForkScore(c.forks) \in 0..8
    BY DEF ForkScore, Step
  <2>3. DescriptionScore(c.description) \in 0..5
    BY DEF DescriptionScore, Step
  <2>4. DocumentationScore(c.documentation) \in 0..10
    BY DEF DocumentationScore, Step
  <2>5. Bonus(c.license, 6) \in 0..6 /\ Bonus(c.topics, 2) \in 0..2
    BY DEF Bonus
  <2>6. QED
    BY <2>1, <2>2, <2>3, <2>4, <2>5 DEF RepositoryScore
<1>4. QED
  BY <1>1, <1>2, <1>3

\* "from 0 to 100" (README.md): the score of quality.py never leaves its range,
\* and the lower clamp of the code never acts.
THEOREM ScoreRange ==
  ASSUME NEW s \in SourceConfig, NEW c \in Candidate
  PROVE  Score(s, c) \in 0..100 /\ RawScore(s, c) >= 5
<1>1. RawScore(s, c) \in Int /\ RawScore(s, c) >= 5
  BY PointsRange DEF RawScore, Bonus
<1>2. QED
  BY <1>1 DEF Score

-----------------------------------------------------------------------------
\* Candidate b has all that candidate a has, and no worse a title.
AtLeast(b, a) ==
  /\ b.content >= a.content /\ b.summary >= a.summary /\ b.title >= a.title
  /\ b.stars >= a.stars /\ b.forks >= a.forks
  /\ b.description >= a.description /\ b.documentation >= a.documentation
  /\ a.published => b.published
  /\ a.concrete => b.concrete
  /\ a.license => b.license
  /\ a.topics => b.topics
  /\ b.promotional => a.promotional

\* No ladder of points has a step down.
LEMMA LaddersRise ==
  ASSUME NEW m \in Nat, NEW n \in Nat, m >= n
  PROVE  /\ BodyScore(m) >= BodyScore(n) /\ SummaryScore(m) >= SummaryScore(n)
         /\ StarScore(m) >= StarScore(n) /\ ForkScore(m) >= ForkScore(n)
         /\ DescriptionScore(m) >= DescriptionScore(n)
         /\ DocumentationScore(m) >= DocumentationScore(n)
<1>1. BodyScore(m) >= BodyScore(n)
  BY DEF BodyScore, Step
<1>2. SummaryScore(m) >= SummaryScore(n)
  BY DEF SummaryScore, Step
<1>3. StarScore(m) >= StarScore(n)
  BY DEF StarScore, Step
<1>4. ForkScore(m) >= ForkScore(n)
  BY DEF ForkScore, Step
<1>5. DescriptionScore(m) >= DescriptionScore(n)
  BY DEF DescriptionScore, Step
<1>6. DocumentationScore(m) >= DocumentationScore(n)
  BY DEF DocumentationScore, Step
<1>7. QED
  BY <1>1, <1>2, <1>3, <1>4, <1>5, <1>6

LEMMA ScoreRises ==
  ASSUME NEW s \in SourceConfig, NEW a \in Candidate, NEW b \in Candidate,
         AtLeast(b, a), b.content < 120 \/ a.content >= 120
  PROVE  Score(s, b) >= Score(s, a)
<1>1. EvidenceScore(b) >= EvidenceScore(a)
  <2>1. b.content \in Nat /\ a.content \in Nat /\ b.summary \in Nat /\ a.summary \in Nat
        /\ b.content >= a.content /\ b.summary >= a.summary
    BY DEF Candidate, AtLeast
  <2>2. QED
    BY <2>1, LaddersRise DEF EvidenceScore
<1>2. RepositoryScore(b) >= RepositoryScore(a)
  <2>1. /\ StarScore(b.stars) >= StarScore(a.stars)
        /\ ForkScore(b.forks) >= ForkScore(a.forks)
        /\ DescriptionScore(b.description) >= DescriptionScore(a.description)
        /\ DocumentationScore(b.documentation) >= DocumentationScore(a.documentation)
    BY LaddersRise DEF Candidate, AtLeast
  <2>2. Bonus(b.license, 6) >= Bonus(a.license, 6) /\ Bonus(b.topics, 2) >= Bonus(a.topics, 2)
    BY DEF Bonus, AtLeast
  <2>3. \A c \in {a, b} : /\ StarScore(c.stars) \in Int /\ ForkScore(c.forks) \in Int
                         /\ DescriptionScore(c.description) \in Int
                         /\ DocumentationScore(c.documentation) \in Int
                         /\ Bonus(c.license, 6) \in Int /\ Bonus(c.topics, 2) \in Int
    BY DEF StarScore, ForkScore, DescriptionScore, DocumentationScore, Bonus, Step
  <2>4. QED
    BY <2>1, <2>2, <2>3 DEF RepositoryScore
<1>3. /\ Bonus(b.title >= 12, 5) >= Bonus(a.title >= 12, 5)
      /\ Bonus(b.published, 5) >= Bonus(a.published, 5)
      /\ Bonus(b.concrete, 5) >= Bonus(a.concrete, 5)
  BY DEF Bonus, AtLeast, Candidate
<1>4. \A c \in {a, b} : /\ Bonus(c.title >= 12, 5) \in Int /\ Bonus(c.published, 5) \in Int
                       /\ Bonus(c.concrete, 5) \in Int
  BY DEF Bonus
<1>5. \A c \in {a, b} : BaseScore(s.tier) \in Int /\ EvidenceScore(c) \in Int
                       /\ RepositoryScore(c) \in Int
  BY PointsRange
<1>6. RawScore(s, b) >= RawScore(s, a) /\ RawScore(s, a) \in Int /\ RawScore(s, b) \in Int
  BY <1>1, <1>2, <1>3, <1>4, <1>5 DEF RawScore
<1>7. QED
  BY <1>6 DEF Score

\* A candidate with more material is accepted where one with less is: more
\* text, more stars, a licence never turn it away.  The one exception is named:
\* a body that grows past 120 characters takes the place of the summary, and
\* 8 points the place of up to 30 (quality.py:109-112).
THEOREM MoreNeverHurts ==
  ASSUME NEW s \in SourceConfig, NEW a \in Candidate, NEW b \in Candidate,
         AtLeast(b, a), b.content < 120 \/ a.content >= 120, assess_candidate(s, a)
  PROVE  assess_candidate(s, b)
<1>1. CASE s.kind = "fixture"
  BY <1>1 DEF assess_candidate
<1>2. CASE s.kind # "fixture"
  <2>1. MeetsMinimums(s, b)
    BY <1>2 DEF assess_candidate, MeetsMinimums, AtLeast, Candidate, SourceConfig
  <2>2. s.kind = "github" => RepositoryMeetsMinimums(s, b)
    BY <1>2 DEF assess_candidate, RepositoryMeetsMinimums, AtLeast, Candidate, SourceConfig
  <2>3. Score(s, b) >= source_min_score(s)
    <3>1. Score(s, a) >= source_min_score(s) /\ Score(s, b) >= Score(s, a)
      BY <1>2, ScoreRises DEF assess_candidate
    <3>2. Score(s, a) \in Int /\ Score(s, b) \in Int
      BY ScoreRange
    <3>3. source_min_score(s) \in Int
      BY DEF source_min_score, SourceConfig, ByTier, Unset
    <3>4. QED
      BY <3>1, <3>2, <3>3
  <2>4. QED
    BY <2>1, <2>2, <2>3 DEF assess_candidate
<1>3. QED
  BY <1>1, <1>2
=============================================================================
