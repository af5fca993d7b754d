---------------------------- MODULE QualityPolicy ----------------------------
(***************************************************************************)
(* quality.py and the two event gates of pipeline.py: the score of a       *)
(* candidate, its threshold and its failures; the importance an event      *)
(* needs; and the importance that dedup.fallback_event gives an item.      *)
(* Texts stand for what the policy measures in them: lengths in            *)
(* characters, counts, and whether a pattern matches.                      *)
(***************************************************************************)
EXTENDS Integers

Tier == {"official", "paper", "community", "media"}
Kind == {"rss", "atom", "sitemap", "github", "fixture"}

\* A setting of SourceQualityConfig that is None.
Unset == -1

\* SourceConfig with its quality settings; 0 switches a minimum off.
SourceConfig ==
  [kind : Kind, tier : Tier,
   min_score : {Unset} \cup 0..100, min_event_importance : {Unset} \cup 0..100,
   min_content_chars : Nat, min_summary_chars : Nat, reject_promotional : BOOLEAN,
   min_stars : Nat, min_forks : Nat, min_description_chars : Nat,
   min_documentation_signals : Nat, require_license : BOOLEAN]

\* CandidateItem: the last seven fields are the repository's.
Candidate ==
  [content : Nat, summary : Nat, title : Nat,
   published : BOOLEAN, concrete : BOOLEAN, promotional : BOOLEAN,
   stars : Nat, forks : Nat, license : BOOLEAN, description : Nat,
   documentation : Nat, topics : BOOLEAN]

-----------------------------------------------------------------------------
(* The score. *)

\* One step of a ladder of points; points for a property that is there.
Step(n, bound, points, below) == IF n >= bound THEN points ELSE below
Bonus(holds, points) == IF holds THEN points ELSE 0

\* A value for each tier.
ByTier(tier, official, paper, community, media) ==
  IF tier = "official" THEN official
  ELSE IF tier = "paper" THEN paper
  ELSE IF tier = "community" THEN community
  ELSE media

BaseScore(tier) == ByTier(tier, 25, 30, 10, 5)

BodyScore(n) ==
  Step(n, 4000, 35, Step(n, 1500, 30, Step(n, 700, 24, Step(n, 300, 16, Step(n, 120, 8, 0)))))
SummaryScore(n) ==
  Step(n, 1000, 30, Step(n, 500, 25, Step(n, 250, 20, Step(n, 120, 15, Step(n, 60, 8, 0)))))

\* _evidence_score: the summary counts only without a body of 120 characters.
EvidenceScore(c) ==
  IF c.content >= 120 THEN BodyScore(c.content) ELSE SummaryScore(c.summary)

StarScore(n) ==
  Step(n, 1000, 22, Step(n, 100, 18, Step(n, 30, 15, Step(n, 10, 12, Step(n, 5, 7, Step(n, 1, 3, 0))))))
ForkScore(n) == Step(n, 10, 8, Step(n, 3, 5, Step(n, 1, 2, 0)))
DescriptionScore(n) == Step(n, 80, 5, Step(n, 40, 3, 0))
DocumentationScore(n) == Step(n, 4, 10, Step(n, 3, 8, Step(n, 2, 5, Step(n, 1, 2, 0))))

RepositoryScore(c) ==
  StarScore(c.stars) + ForkScore(c.forks) + Bonus(c.license, 6)
  + DescriptionScore(c.description) + DocumentationScore(c.documentation) + Bonus(c.topics, 2)

RawScore(s, c) ==
  BaseScore(s.tier) + EvidenceScore(c) + Bonus(c.title >= 12, 5)
  + Bonus(c.published, 5) + Bonus(c.concrete, 5)
  + (IF s.kind = "github" THEN RepositoryScore(c) ELSE 0)

Score(s, c) == IF RawScore(s, c) > 100 THEN 100 ELSE RawScore(s, c)

-----------------------------------------------------------------------------
(* The verdict. *)

source_min_score(s) ==
  IF s.min_score # Unset THEN s.min_score ELSE ByTier(s.tier, 50, 60, 70, 75)

MeetsMinimums(s, c) ==
  /\ c.content >= s.min_content_chars
  /\ c.summary >= s.min_summary_chars
  /\ ~(s.reject_promotional /\ c.promotional)

RepositoryMeetsMinimums(s, c) ==
  /\ c.stars >= s.min_stars
  /\ c.forks >= s.min_forks
  /\ c.description >= s.min_description_chars
  /\ c.documentation >= s.min_documentation_signals
  /\ s.require_license => c.license

\* assess_candidate: accepted means no failures.
assess_candidate(s, c) ==
  \/ s.kind = "fixture"
  \/ /\ MeetsMinimums(s, c)
     /\ s.kind = "github" => RepositoryMeetsMinimums(s, c)
     /\ Score(s, c) >= source_min_score(s)

-----------------------------------------------------------------------------
(* Events. *)

source_min_event_importance(s) ==
  IF s.min_event_importance # Unset THEN s.min_event_importance
  ELSE ByTier(s.tier, 65, 65, 75, 80)

\* importance >= min(source_min_event_importance(source) for source in S); an
\* event without a known source is rejected.
MeetsThreshold(importance, S) ==
  \E s \in S : importance >= source_min_event_importance(s)

\* fallback_event: releases, safety and research weigh a little more.
fallback_importance(tier, weighty) ==
  (IF tier \in {"official", "paper"} THEN 70 ELSE 50) + Bonus(weighty, 8)

\* _event_meets_quality_policy, for one profile of the event: an item that
\* the current policy has rejected does not vouch for the event, and one that
\* an earlier policy has assessed only if its source is official or a paper.
Vouches(s, assessment) ==
  \/ assessment = "accepted"
  \/ assessment = "outdated" /\ s.tier \notin {"community", "media"}
=============================================================================
