------------------------- MODULE DailySchedule_proofs -------------------------
(* Proofs about DailySchedule, for every length of the day, catch-up window, *)
(* number of request threads and of requests: the settings are in force when *)
(* no requests overlap, and a quiet day gets its run.                        *)
EXTENDS DailySchedule, TLAPS

-----------------------------------------------------------------------------
(* Days and hours. *)

\* A positive multiple is not smaller than the number itself.
LEMMA MultipleAbove ==
  ASSUME NEW b \in Nat \ {0}, NEW k \in Nat \ {0}
  PROVE  b * k >= b
OBVIOUS

\* Multiples of one number lie at least that number apart.
LEMMA MultiplesApart ==
  ASSUME NEW b \in Nat \ {0}, NEW k \in Nat, NEW l \in Nat, k < l
  PROVE  b * l >= b * k + b
<1>1. l - k \in Nat \ {0} /\ b * (l - k) = b * l - b * k
  OBVIOUS
<1>2. QED
  BY <1>1, MultipleAbove

\* A moment is an hour of a day.
LEMMA MomentSplit ==
  ASSUME NEW t \in Nat
  PROVE  /\ DayOf(t) \in Nat /\ HourOf(t) \in Hour
         /\ HoursPerDay * DayOf(t) \in Nat
         /\ t = HoursPerDay * DayOf(t) + HourOf(t)
<1>1. DayOf(t) \in Nat /\ HourOf(t) \in 0..(HoursPerDay - 1)
  BY ScheduleAssumption DEF DayOf, HourOf
<1>2. t = HoursPerDay * DayOf(t) + HourOf(t)
  BY ScheduleAssumption DEF DayOf, HourOf
<1>3. HoursPerDay * DayOf(t) \in Nat
  BY <1>1, ScheduleAssumption
<1>4. QED
  BY <1>1, <1>2, <1>3 DEF Hour

\* Hour h of day d is the moment of that day and hour.
LEMMA MomentOf ==
  ASSUME NEW d \in Nat, NEW h \in Hour
  PROVE  /\ HoursPerDay * d + h \in Nat
         /\ DayOf(HoursPerDay * d + h) = d
         /\ HourOf(HoursPerDay * d + h) = h
<1> DEFINE t == HoursPerDay * d + h
<1>1. HoursPerDay * d \in Nat /\ h \in 0..(HoursPerDay - 1) /\ t \in Nat
  BY ScheduleAssumption DEF Hour
<1>2. /\ t = HoursPerDay * DayOf(t) + HourOf(t)
      /\ DayOf(t) \in Nat /\ HoursPerDay * DayOf(t) \in Nat
      /\ HourOf(t) \in 0..(HoursPerDay - 1)
  BY <1>1, MomentSplit DEF Hour
<1>3. ~ d < DayOf(t)
  BY <1>1, <1>2, MultiplesApart, ScheduleAssumption
<1>4. ~ DayOf(t) < d
  BY <1>1, <1>2, MultiplesApart, ScheduleAssumption
<1>5. DayOf(t) = d
  BY <1>2, <1>3, <1>4
<1>6. QED
  BY <1>1, <1>2, <1>5

\* The same hour comes again a day later, and not before.
LEMMA SameHourApart ==
  ASSUME NEW s \in Nat, NEW t \in Nat, HourOf(s) = HourOf(t), s < t
  PROVE  s + HoursPerDay <= t
<1>1. /\ s = HoursPerDay * DayOf(s) + HourOf(s) /\ t = HoursPerDay * DayOf(t) + HourOf(t)
      /\ DayOf(s) \in Nat /\ DayOf(t) \in Nat /\ HourOf(s) \in 0..(HoursPerDay - 1)
      /\ HoursPerDay * DayOf(s) \in Nat /\ HoursPerDay * DayOf(t) \in Nat
  BY MomentSplit DEF Hour
<1>2. DayOf(s) < DayOf(t)
  <2>1. ~ DayOf(t) < DayOf(s)
    BY <1>1, MultiplesApart, ScheduleAssumption
  <2>2. DayOf(s) # DayOf(t)
    BY <1>1
  <2>3. QED
    BY <1>1, <2>1, <2>2
<1>3. HoursPerDay * DayOf(t) >= HoursPerDay * DayOf(s) + HoursPerDay
  BY <1>1, <1>2, MultiplesApart, ScheduleAssumption
<1>4. QED
  BY <1>1, <1>3, ScheduleAssumption

\* Days follow each other in the order of their moments.
LEMMA LaterDay ==
  ASSUME NEW s \in Nat, NEW t \in Nat, s < t, DayOf(s) # DayOf(t)
  PROVE  s < HoursPerDay * DayOf(t)
<1>1. /\ s = HoursPerDay * DayOf(s) + HourOf(s) /\ t = HoursPerDay * DayOf(t) + HourOf(t)
      /\ DayOf(s) \in Nat /\ DayOf(t) \in Nat
      /\ HourOf(s) \in 0..(HoursPerDay - 1) /\ HourOf(t) \in 0..(HoursPerDay - 1)
      /\ HoursPerDay * DayOf(s) \in Nat /\ HoursPerDay * DayOf(t) \in Nat
  BY MomentSplit DEF Hour
<1>2. DayOf(s) < DayOf(t)
  BY <1>1, MultiplesApart, ScheduleAssumption
<1>3. HoursPerDay * DayOf(t) >= HoursPerDay * DayOf(s) + HoursPerDay
  BY <1>1, <1>2, MultiplesApart, ScheduleAssumption
<1>4. QED
  BY <1>1, <1>3, ScheduleAssumption

\* CronTrigger: the next occurrence of an hour is the only one within a day.
LEMMA NextFireExists ==
  ASSUME NEW h \in Hour, NEW t \in Nat
  PROVE  /\ NextFireTime(h, t) \in (t + 1)..(t + HoursPerDay)
         /\ HourOf(NextFireTime(h, t)) = h
<1> DEFINE today == HoursPerDay * DayOf(t) + h
           tomorrow == HoursPerDay * (DayOf(t) + 1) + h
<1>1. /\ t = HoursPerDay * DayOf(t) + HourOf(t) /\ DayOf(t) \in Nat
      /\ HourOf(t) \in 0..(HoursPerDay - 1) /\ HoursPerDay * DayOf(t) \in Nat
      /\ h \in 0..(HoursPerDay - 1)
  BY MomentSplit DEF Hour
<1>2. HourOf(today) = h /\ HourOf(tomorrow) = h
  BY <1>1, MomentOf
<1>3. tomorrow = today + HoursPerDay
  BY <1>1, ScheduleAssumption
<1>4. \E u \in (t + 1)..(t + HoursPerDay) : HourOf(u) = h
  <2>1. CASE HourOf(t) < h
    <3>1. today \in (t + 1)..(t + HoursPerDay)
      BY <1>1, <2>1, ScheduleAssumption
    <3>2. QED
      BY <1>2, <3>1
  <2>2. CASE ~ HourOf(t) < h
    <3>1. tomorrow \in (t + 1)..(t + HoursPerDay)
      BY <1>1, <1>3, <2>2, ScheduleAssumption
    <3>2. QED
      BY <1>2, <3>1
  <2>3. QED
    BY <2>1, <2>2
<1>5. QED
  BY <1>4 DEF NextFireTime

\* Before the hour of the current day, that hour is the next occurrence.
LEMMA NextFireToday ==
  ASSUME NEW h \in Hour, NEW t \in Nat, HourOf(t) < h
  PROVE  NextFireTime(h, t) = HoursPerDay * DayOf(t) + h
<1> DEFINE today == HoursPerDay * DayOf(t) + h
           u == NextFireTime(h, t)
<1>1. /\ t = HoursPerDay * DayOf(t) + HourOf(t) /\ DayOf(t) \in Nat
      /\ HourOf(t) \in 0..(HoursPerDay - 1) /\ HoursPerDay * DayOf(t) \in Nat
      /\ h \in 0..(HoursPerDay - 1)
  BY MomentSplit DEF Hour
<1>2. today \in (t + 1)..(t + HoursPerDay) /\ today \in Nat
  BY <1>1, ScheduleAssumption
<1>3. u \in (t + 1)..(t + HoursPerDay) /\ u \in Nat /\ HourOf(u) = HourOf(today)
  <2>1. u \in (t + 1)..(t + HoursPerDay) /\ HourOf(u) = h
    BY NextFireExists
  <2>2. HourOf(today) = h
    BY <1>1, MomentOf
  <2>3. QED
    BY <2>1, <2>2, ScheduleAssumption
<1> HIDE DEF today, u
<1>4. ~ u < today
  BY <1>2, <1>3, SameHourApart, ScheduleAssumption
<1>5. ~ today < u
  BY <1>2, <1>3, SameHourApart, ScheduleAssumption
<1>6. u = today
  BY <1>2, <1>3, <1>4, <1>5
<1>7. QED
  BY <1>6 DEF today, u

\* coalesce: the last occurrence up to a moment is the last one of that hour.
LEMMA LastOccurrenceHour ==
  ASSUME NEW s \in Nat, NEW t \in Nat, s <= t
  PROVE  /\ (t - s) % HoursPerDay \in 0..(HoursPerDay - 1)
         /\ t - ((t - s) % HoursPerDay) \in Nat
         /\ HourOf(t - ((t - s) % HoursPerDay)) = HourOf(s)
<1> DEFINE d == (t - s) \div HoursPerDay
           r == (t - s) % HoursPerDay
<1>1. t - s \in Nat
  OBVIOUS
<1>2. r \in 0..(HoursPerDay - 1) /\ d \in Nat /\ HoursPerDay * d \in Nat
  BY <1>1, MomentSplit DEF DayOf, HourOf, Hour
<1>3. t - s = HoursPerDay * d + r
  BY <1>1, MomentSplit DEF DayOf, HourOf
<1>4. /\ s = HoursPerDay * DayOf(s) + HourOf(s) /\ DayOf(s) \in Nat /\ HourOf(s) \in Hour
      /\ HoursPerDay * DayOf(s) \in Nat
  BY MomentSplit
<1>5. t - r = s + HoursPerDay * d
  BY <1>2, <1>3
<1>6. HoursPerDay * (DayOf(s) + d) = HoursPerDay * DayOf(s) + HoursPerDay * d
  BY <1>2, <1>4, ScheduleAssumption
<1> HIDE DEF d, r
<1>7. t - r = HoursPerDay * (DayOf(s) + d) + HourOf(s)
  BY <1>2, <1>4, <1>5, <1>6 DEF Hour
<1>8. DayOf(s) + d \in Nat
  BY <1>2, <1>4
<1>9. HourOf(t - r) = HourOf(s) /\ t - r \in Nat
  BY <1>4, <1>7, <1>8, MomentOf
<1>10. QED
  BY <1>2, <1>9 DEF r
-----------------------------------------------------------------------------
(* Types. *)

\* A request that moves on stays at a place of its code.
LEMMA GotoType ==
  ASSUME ScheduleTypeOK, NEW t \in Thread, NEW ask \in Ask,
         NEW pc \in {"save", "flag", "apply", "read", "reschedule"},
         Goto(t, ask, pc) \/ Return(t)
  PROVE  request' \in [Thread -> Working \cup {Resting}]
BY DEF ScheduleTypeOK, Goto, Return, Working

\* What a client asks for is what a request may carry.
LEMMA AskedType == Asked \subseteq Ask
<1>1. 0 \in Hour
  BY ScheduleAssumption DEF Hour
<1>2. [op |-> "pause", paused |-> TRUE, hour |-> 0] \in Ask
  BY <1>1 DEF Ask
<1>3. [op |-> "resume", paused |-> FALSE, hour |-> 0] \in Ask
  BY <1>1 DEF Ask
<1>4. [op : {"settings"}, paused : BOOLEAN, hour : Hour] \subseteq Ask
  BY DEF Ask
<1>5. QED
  BY <1>2, <1>3, <1>4 DEF Asked

\* The next occurrence of an hour keeps the type of next_run.
LEMMA NextRunType ==
  ASSUME ScheduleTypeOK, NEW h \in Hour
  PROVE  /\ NextFireTime(h, now) \in 0..(LastHour + HoursPerDay)
         /\ NextFireTime(h, now) <= now + HoursPerDay
<1>1. now \in Nat /\ now <= LastHour
  BY ScheduleAssumption DEF ScheduleTypeOK
<1>2. NextFireTime(h, now) \in (now + 1)..(now + HoursPerDay)
  BY <1>1, NextFireExists
<1>3. QED
  BY <1>1, <1>2, ScheduleAssumption

\* Every step of a request keeps the types.
LEMMA ServeType ==
  ASSUME ScheduleTypeOK, NEW t \in Thread, NEW ask \in Ask,
         \/ SaveSchedule(t, ask) \/ SetPaused(t, ask) \/ Apply(t, ask)
         \/ ReadSchedule(t, ask) \/ Reschedule(t, ask)
  PROVE  ScheduleTypeOK'
<1>1. ask.hour \in Hour /\ ask.paused \in BOOLEAN
  BY DEF Ask
<1>2. CASE SaveSchedule(t, ask)
  BY <1>1, <1>2, GotoType DEF SaveSchedule, ScheduleTypeOK, dayVars
<1>3. CASE SetPaused(t, ask)
  BY <1>1, <1>3, GotoType DEF SetPaused, ScheduleTypeOK, dayVars
<1>4. CASE Apply(t, ask)
  BY <1>4, GotoType DEF Apply, ScheduleTypeOK, dayVars, settingVars
<1>5. CASE ReadSchedule(t, ask)
  <2>1. [ask EXCEPT !.hour = schedule] \in Ask
    BY DEF Ask, ScheduleTypeOK
  <2>2. QED
    BY <1>5, <2>1, GotoType DEF ReadSchedule, ScheduleTypeOK, dayVars, settingVars
<1>6. CASE Reschedule(t, ask)
  BY <1>1, <1>6, GotoType, NextRunType DEF Reschedule, ScheduleTypeOK, dayVars, settingVars
<1>7. QED
  BY <1>2, <1>3, <1>4, <1>5, <1>6

LEMMA ScheduleTypesInit == Init => ScheduleTypeOK
<1> SUFFICES ASSUME Init PROVE ScheduleTypeOK
  OBVIOUS
<1>1. now \in 0..LastHour /\ next_run \in 0..(LastHour + HoursPerDay) /\ requests \in 0..MaxRequests
  BY ScheduleAssumption DEF Init
<1>2. request \in [Thread -> Working \cup {Resting}]
  BY DEF Init
<1>3. QED
  BY <1>1, <1>2 DEF Init, ScheduleTypeOK

LEMMA ScheduleTypesStep == ScheduleTypeOK /\ [Next]_vars => ScheduleTypeOK'
<1> SUFFICES ASSUME ScheduleTypeOK, [Next]_vars PROVE ScheduleTypeOK'
  OBVIOUS
<1>1. CASE Start
  <2>1. schedule \in Hour
    BY DEF ScheduleTypeOK
  <2>2. QED
    BY <1>1, <2>1, NextRunType DEF Start, ScheduleTypeOK, settingVars, MaybeCatchUp
<1>2. CASE Stop
  BY <1>2 DEF Stop, ScheduleTypeOK, settingVars, dayVars
<1>3. CASE Fire
  <2>1. HourOf(next_run) \in Hour
    BY MomentSplit, ScheduleAssumption DEF ScheduleTypeOK
  <2>2. QED
    BY <1>3, <2>1, NextRunType DEF Fire, ScheduleTypeOK, settingVars
<1>4. ASSUME NEW t \in Thread, NEW ask \in Asked, BeginRequest(t, ask) PROVE ScheduleTypeOK'
  <2>1. requests' \in 0..MaxRequests
    BY <1>4, ScheduleAssumption DEF BeginRequest, ScheduleTypeOK
  <2>2. request' \in [Thread -> Working \cup {Resting}]
    BY <1>4, GotoType, AskedType DEF BeginRequest
  <2>3. QED
    BY <1>4, <2>1, <2>2 DEF BeginRequest, ScheduleTypeOK, settingVars
<1>5. ASSUME NEW t \in Thread, Serve(t) PROVE ScheduleTypeOK'
  BY <1>5, ServeType DEF Serve
<1>6. ASSUME NEW s \in {"ready", "failed"}, EditionChanges(s) PROVE ScheduleTypeOK'
  BY <1>6 DEF EditionChanges, ScheduleTypeOK, settingVars
<1>7. ASSUME NEW t \in 0..LastHour, PassTime(t) PROVE ScheduleTypeOK'
  BY <1>7 DEF PassTime, ScheduleTypeOK, settingVars, dayVars, Idle
<1>8. CASE UNCHANGED vars
  BY <1>8 DEF ScheduleTypeOK, vars, settingVars, dayVars
<1>9. QED
  BY <1>1, <1>2, <1>3, <1>4, <1>5, <1>6, <1>7, <1>8 DEF Next
-----------------------------------------------------------------------------
(* The settings in force. *)

\* A request at a place of its code is under way.
LEMMA AtWork ==
  ASSUME NEW t \in Thread, NEW ask, NEW pc \in {"save", "flag", "apply", "read", "reschedule"},
         request[t] = [pc |-> pc, ask |-> ask]
  PROVE  /\ request[t] # Resting /\ ~Idle
         /\ request[t].pc = pc /\ request[t].ask = ask
<1>1. request[t].pc = pc /\ request[t].ask = ask
  OBVIOUS
<1>2. Resting.pc = "idle"
  BY DEF Resting
<1>3. QED
  BY <1>1, <1>2 DEF Idle

\* A request that is alone stays alone, and what it leaves must hold at its place.
LEMMA AloneGoto ==
  ASSUME ScheduleTypeOK, NEW t \in Thread, NEW ask \in Ask,
         NEW pc \in {"save", "flag", "apply", "read", "reschedule"},
         Goto(t, ask, pc), \A u \in Thread \ {t} : request[u] = Resting,
         InForceAt(pc, ask)'
  PROVE  ~Idle' /\ Alone' /\ RequestInv'
<1>1. request' = [request EXCEPT ![t] = [pc |-> pc, ask |-> ask]] /\ t \in DOMAIN request
  BY DEF Goto, ScheduleTypeOK
<1>2. request'[t] = [pc |-> pc, ask |-> ask] /\ \A u \in Thread \ {t} : request'[u] = Resting
  BY <1>1 DEF ScheduleTypeOK
<1>3. request'[t].pc = pc /\ request'[t].ask = ask
  BY <1>2
<1>4. request'[t] # Resting
  <2>1. Resting.pc = "idle"
    BY DEF Resting
  <2>2. QED
    BY <1>3, <2>1
<1>5. ~Idle' /\ Alone'
  BY <1>2, <1>4 DEF Idle, Alone
<1>6. ASSUME NEW u \in Thread, request'[u] # Resting
      PROVE  InForceAt(request[u].pc, request[u].ask)'
  <2>1. u = t
    BY <1>2, <1>6
  <2>2. QED
    BY <1>3, <2>1 DEF InForceAt, PauseInForce, HourInForce
<1>7. QED
  BY <1>5, <1>6 DEF RequestInv

\* A request that is alone and returns leaves none.
LEMMA AloneReturn ==
  ASSUME ScheduleTypeOK, NEW t \in Thread, Return(t),
         \A u \in Thread \ {t} : request[u] = Resting
  PROVE  Idle' /\ Alone' /\ RequestInv'
BY DEF Return, Idle, Alone, RequestInv, ScheduleTypeOK

\* The steps of a request.
LEMMA SettingsServe ==
  ASSUME ScheduleTypeOK, SettingsInv, NEW t \in Thread, Serve(t)
  PROVE  SettingsInv'
<1>1. PICK ask \in Ask :
        \/ SaveSchedule(t, ask) \/ SetPaused(t, ask) \/ Apply(t, ask)
        \/ ReadSchedule(t, ask) \/ Reschedule(t, ask)
  BY DEF Serve
<1>2. PICK pc \in {"save", "flag", "apply", "read", "reschedule"} :
        request[t] = [pc |-> pc, ask |-> ask]
  BY <1>1 DEF SaveSchedule, SetPaused, Apply, ReadSchedule, Reschedule
<1>3. request[t] # Resting /\ ~Idle /\ request[t].pc = pc /\ request[t].ask = ask
  <2>1. request[t] # Resting /\ ~Idle
    BY <1>2, AtWork
  <2>2. QED
    BY <1>2, <2>1
<1>4. scheduler # "stopped"
  BY <1>3 DEF SettingsInv
<1>5. scheduler' # "stopped" /\ tangled' = tangled
  BY <1>1, <1>4 DEF SaveSchedule, SetPaused, Apply, ReadSchedule, Reschedule
<1> SUFFICES ASSUME ~tangled
             PROVE  (Idle' => PauseInForce' /\ HourInForce') /\ Alone' /\ RequestInv'
  BY <1>5 DEF SettingsInv
<1>6. InForceAt(pc, ask) /\ \A u \in Thread \ {t} : request[u] = Resting
  BY <1>3, <1>4 DEF SettingsInv, Alone, RequestInv
<1>7. CASE SaveSchedule(t, ask)
  <2>1. pc = "save"
    BY <1>3, <1>7 DEF SaveSchedule
  <2>2. InForceAt("flag", ask)'
    BY <1>6, <1>7, <2>1 DEF SaveSchedule, InForceAt, PauseInForce
  <2>3. QED
    BY <1>6, <1>7, <2>2, AloneGoto DEF SaveSchedule
<1>8. CASE SetPaused(t, ask)
  <2>1. pc = "flag"
    BY <1>3, <1>8 DEF SetPaused
  <2>2. InForceAt("apply", ask)'
    BY <1>6, <1>8, <2>1 DEF SetPaused, InForceAt, HourInForce
  <2>3. QED
    BY <1>6, <1>8, <2>2, AloneGoto DEF SetPaused
<1>9. CASE Apply(t, ask)
  <2>1. pc = "apply"
    BY <1>3, <1>9 DEF Apply
  <2>2. PauseInForce'
    BY <1>6, <1>9, <2>1 DEF Apply, InForceAt, PauseInForce, settingVars, ScheduleTypeOK
  <2>3. CASE ask.op = "pause"
    <3>1. HourInForce'
      BY <1>6, <1>9, <2>1, <2>3 DEF Apply, InForceAt, HourInForce, settingVars
    <3>2. QED
      BY <1>6, <1>9, <2>2, <2>3, <3>1, AloneReturn DEF Apply
  <2>4. CASE ask.op # "pause"
    <3>1. InForceAt("read", ask)'
      BY <2>2 DEF InForceAt
    <3>2. QED
      BY <1>6, <1>9, <2>4, <3>1, AloneGoto DEF Apply
  <2>5. QED
    BY <2>3, <2>4
<1>10. CASE ReadSchedule(t, ask)
  <2>1. pc = "read"
    BY <1>3, <1>10 DEF ReadSchedule
  <2>2. PICK read \in Ask : read = [ask EXCEPT !.hour = schedule]
    BY DEF Ask, ScheduleTypeOK
  <2>3. Goto(t, read, "reschedule") /\ read.hour = schedule
    BY <1>10, <2>2 DEF ReadSchedule, Ask
  <2>4. InForceAt("reschedule", read)'
    BY <1>6, <1>10, <2>1, <2>3 DEF ReadSchedule, InForceAt, PauseInForce, settingVars
  <2>5. QED
    BY <1>6, <2>3, <2>4, AloneGoto
<1>11. CASE Reschedule(t, ask)
  <2>1. pc = "reschedule"
    BY <1>3, <1>11 DEF Reschedule
  <2>2. PauseInForce' /\ ask.hour = schedule
    BY <1>6, <1>11, <2>1 DEF Reschedule, InForceAt, PauseInForce, settingVars
  <2>3. HourInForce'
    <3>1. HourOf(NextFireTime(ask.hour, now)) = ask.hour
      BY NextFireExists, ScheduleAssumption DEF ScheduleTypeOK, Ask
    <3>2. QED
      BY <1>11, <2>2, <3>1 DEF Reschedule, HourInForce, settingVars
  <2>4. QED
    BY <1>6, <1>11, <2>2, <2>3, AloneReturn DEF Reschedule
<1>12. QED
  BY <1>1, <1>7, <1>8, <1>9, <1>10, <1>11

\* While no request moves and the settings stay, what they say stays in force.
LEMMA SettingsStay ==
  ASSUME SettingsInv, UNCHANGED <<settingVars, request, scheduler, tangled>>,
         HourOf(next_run') = HourOf(next_run)
  PROVE  SettingsInv'
BY DEF SettingsInv, Idle, Alone, RequestInv, InForceAt, PauseInForce, HourInForce, settingVars

LEMMA SettingsStep == ScheduleTypeOK /\ SettingsInv /\ [Next]_vars => SettingsInv'
<1> SUFFICES ASSUME ScheduleTypeOK, SettingsInv, [Next]_vars PROVE SettingsInv'
  OBVIOUS
<1>1. CASE Start
  <2>1. Idle' /\ Alone' /\ RequestInv'
    BY <1>1 DEF Start, SettingsInv, Idle, Alone, RequestInv
  <2>2. PauseInForce'
    BY <1>1 DEF Start, PauseInForce, ScheduleTypeOK, settingVars
  <2>3. HourInForce'
    <3>1. HourOf(NextFireTime(schedule, now)) = schedule
      BY NextFireExists, ScheduleAssumption DEF ScheduleTypeOK
    <3>2. QED
      BY <1>1, <3>1 DEF Start, HourInForce, settingVars
  <2>4. scheduler' # "stopped"
    BY <1>1 DEF Start
  <2>5. QED
    BY <2>1, <2>2, <2>3, <2>4 DEF SettingsInv
<1>2. CASE Stop
  BY <1>2 DEF Stop, SettingsInv, Idle
<1>3. CASE Fire
  <2>1. HourOf(next_run) \in Hour
    BY MomentSplit, ScheduleAssumption DEF ScheduleTypeOK
  <2>2. HourOf(NextFireTime(HourOf(next_run), now)) = HourOf(next_run)
    BY <2>1, NextFireExists, ScheduleAssumption DEF ScheduleTypeOK
  <2>3. QED
    BY <1>3, <2>2, SettingsStay DEF Fire
<1>4. ASSUME NEW t \in Thread, NEW ask \in Asked, BeginRequest(t, ask) PROVE SettingsInv'
  <2>1. scheduler' = scheduler /\ scheduler # "stopped"
    BY <1>4 DEF BeginRequest
  <2> SUFFICES ASSUME ~tangled'
               PROVE  ~Idle' /\ Alone' /\ RequestInv'
    BY <2>1 DEF SettingsInv
  <2>2. Idle /\ ~tangled
    BY <1>4 DEF BeginRequest
  <2>3. PauseInForce /\ HourInForce
    BY <2>1, <2>2 DEF SettingsInv
  <2>4. UNCHANGED <<settingVars, scheduler, next_run>> /\ ask \in Ask
    BY <1>4, AskedType DEF BeginRequest
  <2>5. CASE ask.op = "settings"
    <3>1. InForceAt("save", ask)'
      BY <2>3, <2>4, <2>5 DEF InForceAt, PauseInForce, HourInForce, settingVars
    <3>2. QED
      BY <1>4, <2>2, <2>4, <2>5, <3>1, AloneGoto DEF BeginRequest, Idle
  <2>6. CASE ask.op # "settings"
    <3>1. InForceAt("flag", ask)'
      BY <2>3, <2>4 DEF InForceAt, PauseInForce, HourInForce, settingVars
    <3>2. QED
      BY <1>4, <2>2, <2>4, <2>6, <3>1, AloneGoto DEF BeginRequest, Idle
  <2>7. QED
    BY <2>5, <2>6
<1>5. ASSUME NEW t \in Thread, Serve(t) PROVE SettingsInv'
  BY <1>5, SettingsServe
<1>6. ASSUME NEW s \in {"ready", "failed"}, EditionChanges(s) PROVE SettingsInv'
  BY <1>6, SettingsStay DEF EditionChanges
<1>7. ASSUME NEW t \in 0..LastHour, PassTime(t) PROVE SettingsInv'
  BY <1>7, SettingsStay DEF PassTime
<1>8. CASE UNCHANGED vars
  BY <1>8, SettingsStay DEF vars
<1>9. QED
  BY <1>1, <1>2, <1>3, <1>4, <1>5, <1>6, <1>7, <1>8 DEF Next

-----------------------------------------------------------------------------
(* The run of a quiet day. *)

\* What the moment of the day's run has to do with the clock.
LEMMA TodayFacts ==
  ASSUME ScheduleTypeOK
  PROVE  /\ now \in Nat /\ next_run \in Nat /\ Today \in Nat /\ schedule \in Nat
         /\ HourOf(now) \in Nat
         /\ HourOf(Today) = schedule
         /\ now = HoursPerDay * DayOf(now) + HourOf(now)
         /\ Today = HoursPerDay * DayOf(now) + schedule
         /\ now < Today + HoursPerDay /\ Today < now + HoursPerDay
         /\ now - Today = HourOf(now) - schedule
<1>1. now \in Nat /\ next_run \in Nat /\ schedule \in 0..(HoursPerDay - 1) /\ schedule \in Hour
  BY ScheduleAssumption DEF ScheduleTypeOK, Hour
<1>2. /\ now = HoursPerDay * DayOf(now) + HourOf(now)
      /\ DayOf(now) \in Nat /\ HourOf(now) \in 0..(HoursPerDay - 1)
      /\ HoursPerDay * DayOf(now) \in Nat
  BY <1>1, MomentSplit DEF Hour
<1>3. HourOf(Today) = schedule /\ Today \in Nat
  BY <1>1, <1>2, MomentOf DEF Today
<1>4. QED
  BY <1>1, <1>2, <1>3, ScheduleAssumption DEF Today

\* A start of the service on a quiet day.
LEMMA DayStart ==
  ASSUME ScheduleInv, Start
  PROVE  DayInv'
<1> USE DEF ScheduleInv
<1>1. schedule \in Hour /\ now \in Nat
  BY TodayFacts DEF ScheduleTypeOK
<1>2. next_run' = NextFireTime(schedule, now) /\ next_run' <= now + HoursPerDay
  BY <1>1, NextRunType DEF Start
<1>3. (edition = "ready" => covered) /\ (covered => covered')
      /\ UNCHANGED <<now, settingVars, request, edition, quiet>>
  BY DEF Start, DayInv
<1>4. Today' = Today /\ (quiet => Idle /\ ~scheduler_paused) /\ Idle' = Idle
  BY <1>3 DEF Today, settingVars, DayInv, Idle
<1>5. ASSUME quiet PROVE covered' \/ next_run' <= Today \/ Today + CatchUp < now
  <2>1. CASE HourOf(now) < schedule
    BY <1>1, <1>2, <2>1, NextFireToday, TodayFacts
  <2>2. CASE ~ HourOf(now) < schedule /\ HourOf(now) - schedule <= CatchUp
    <3>1. InCatchUpWindow
      BY <2>2, TodayFacts DEF InCatchUpWindow
    <3>2. QED
      BY <1>3, <1>4, <1>5, <3>1 DEF Start, MaybeCatchUp
  <2>3. CASE ~ HourOf(now) < schedule /\ ~ HourOf(now) - schedule <= CatchUp
    BY <2>3, TodayFacts, ScheduleAssumption
  <2>4. QED
    BY <2>1, <2>2, <2>3
<1>6. QED
  BY <1>2, <1>3, <1>4, <1>5 DEF DayInv, settingVars

\* The job fires: in time on the day itself, or it goes to the day's hour.
LEMMA DayFire ==
  ASSUME ScheduleInv, Fire
  PROVE  DayInv'
<1> USE DEF ScheduleInv
<1>1. HourOf(next_run) \in Hour
  BY MomentSplit, TodayFacts
<1>2. next_run' = NextFireTime(HourOf(next_run), now) /\ next_run' <= now + HoursPerDay
  BY <1>1, NextRunType DEF Fire
<1>3. (covered => covered')
      /\ UNCHANGED <<now, settingVars, scheduler, request, edition, quiet, tangled>>
  BY DEF Fire
<1>4. Today' = Today /\ Idle' = Idle
  BY <1>3 DEF Today, settingVars, Idle
<1>5. scheduler # "stopped" /\ next_run <= now
  BY DEF Fire, Due
<1>6. ASSUME quiet, ~tangled
      PROVE  covered' \/ next_run' <= Today \/ Today + CatchUp < now
  <2>1. ~scheduler_paused /\ HourOf(next_run) = schedule
    BY <1>5, <1>6 DEF DayInv, SettingsInv, HourInForce
  <2>2. CASE now < Today
    <3>1. HourOf(now) < schedule
      BY <2>2, TodayFacts
    <3>2. next_run' = Today
      BY <1>1, <1>2, <2>1, <3>1, NextFireToday, TodayFacts
    <3>3. QED
      BY <3>2, TodayFacts
  <2>3. CASE Today <= now /\ now <= Today + CatchUp
    <3>1. /\ LastOccurrence \in Nat /\ LastOccurrence <= now
          /\ HourOf(LastOccurrence) = schedule /\ now < LastOccurrence + HoursPerDay
      <4> DEFINE r == (now - next_run) % HoursPerDay
      <4>1. r \in 0..(HoursPerDay - 1) /\ now - r \in Nat /\ HourOf(now - r) = HourOf(next_run)
        BY <1>5, LastOccurrenceHour, TodayFacts
      <4>2. LastOccurrence = now - r
        BY DEF LastOccurrence
      <4> HIDE DEF r
      <4>3. QED
        BY <2>1, <4>1, <4>2, TodayFacts, ScheduleAssumption
    <3>2. ~ LastOccurrence < Today
      BY <3>1, <2>3, SameHourApart, TodayFacts, ScheduleAssumption
    <3>3. InGrace
      BY <2>3, <3>1, <3>2, TodayFacts, ScheduleAssumption DEF InGrace
    <3>4. QED
      BY <2>1, <3>3 DEF Fire
  <2>4. QED
    BY <2>2, <2>3, TodayFacts, ScheduleAssumption
<1>7. QED
  BY <1>2, <1>3, <1>4, <1>6 DEF DayInv, settingVars

\* Time passes: the run of the new day cannot lie beyond its hour.
LEMMA DayPasses ==
  ASSUME ScheduleInv, NEW t \in 0..LastHour, PassTime(t)
  PROVE  DayInv'
<1> USE DEF ScheduleInv
<1>1. /\ now' = t /\ now < t /\ t \in Nat
      /\ UNCHANGED <<settingVars, scheduler, next_run, request, tangled>>
  BY ScheduleAssumption DEF PassTime
<1>2. next_run' <= now' + HoursPerDay
  BY <1>1, TodayFacts, ScheduleAssumption DEF DayInv
<1>3. CASE DayOf(t) = DayOf(now)
  <2>1. UNCHANGED dayVars /\ Today' = Today /\ Idle' = Idle
    BY <1>1, <1>3 DEF PassTime, Today, settingVars, Idle
  <2>2. Today + CatchUp < now => Today' + CatchUp < now'
    BY <1>1, <2>1, TodayFacts, ScheduleAssumption
  <2>3. QED
    BY <1>1, <1>2, <2>1, <2>2 DEF DayInv, dayVars, settingVars
<1>4. CASE DayOf(t) # DayOf(now)
  <2>1. /\ edition' = "none" /\ ~covered'
        /\ quiet' = (~scheduler_paused /\ Idle)
        /\ Idle' = Idle /\ scheduler_paused' = scheduler_paused /\ schedule' = schedule
    BY <1>1, <1>4 DEF PassTime, settingVars, Idle
  <2>2. ASSUME quiet', ~tangled', scheduler' # "stopped" PROVE next_run' <= Today'
    <3>1. HourOf(next_run) = schedule
      BY <1>1, <2>1, <2>2 DEF SettingsInv, HourInForce
    <3>2. ScheduleTypeOK'
      BY ScheduleTypesStep DEF Next
    <3>3. /\ Today' \in Nat /\ HourOf(Today') = schedule
          /\ Today' = HoursPerDay * DayOf(t) + schedule
          /\ schedule \in Nat
      <4>1. schedule' \in Hour /\ DayOf(t) \in Nat /\ schedule' \in Nat
        BY <1>1, <3>2, MomentSplit, ScheduleAssumption DEF ScheduleTypeOK, Hour
      <4>2. Today' = HoursPerDay * DayOf(t) + schedule
        BY <1>1, <2>1 DEF Today
      <4>3. QED
        BY <2>1, <4>1, <4>2, MomentOf
    <3>4. now < HoursPerDay * DayOf(t) /\ HoursPerDay * DayOf(t) \in Nat
      BY <1>1, <1>4, LaterDay, MomentSplit, TodayFacts
    <3>5. next_run < Today' + HoursPerDay
      BY <3>3, <3>4, TodayFacts, ScheduleAssumption DEF DayInv
    <3>6. ~ Today' < next_run
      BY <3>1, <3>3, <3>5, SameHourApart, TodayFacts, ScheduleAssumption
    <3>7. QED
      BY <1>1, <3>3, <3>6, TodayFacts
  <2>3. QED
    BY <1>2, <2>1, <2>2 DEF DayInv
<1>5. QED
  BY <1>3, <1>4

LEMMA DayStep == ScheduleInv /\ [Next]_vars => DayInv'
<1> SUFFICES ASSUME ScheduleInv, [Next]_vars PROVE DayInv'
  OBVIOUS
<1>1. CASE Start
  BY <1>1, DayStart
<1>2. CASE Stop
  BY <1>2 DEF Stop, ScheduleInv, DayInv, Idle, Today, settingVars, dayVars
<1>3. CASE Fire
  BY <1>3, DayFire
<1>4. ASSUME NEW t \in Thread, NEW ask \in Asked, BeginRequest(t, ask) PROVE DayInv'
  BY <1>4 DEF BeginRequest, ScheduleInv, DayInv
<1>5. ASSUME NEW t \in Thread, Serve(t) PROVE DayInv'
  <2>1. PICK ask \in Ask :
          \/ SaveSchedule(t, ask) \/ SetPaused(t, ask) \/ Apply(t, ask)
          \/ ReadSchedule(t, ask) \/ Reschedule(t, ask)
    BY <1>5 DEF Serve
  <2>2. PICK pc \in {"save", "flag", "apply", "read", "reschedule"} :
          request[t] = [pc |-> pc, ask |-> ask]
    BY <2>1 DEF SaveSchedule, SetPaused, Apply, ReadSchedule, Reschedule
  <2>3. ~quiet
    BY <2>2, AtWork DEF ScheduleInv, DayInv
  <2>4. UNCHANGED <<now, dayVars>>
    BY <2>1 DEF SaveSchedule, SetPaused, Apply, ReadSchedule, Reschedule
  <2>5. next_run' <= now + HoursPerDay
    <3>1. CASE Reschedule(t, ask)
      <4>1. ask.hour \in Hour
        BY DEF Ask
      <4>2. QED
        BY <3>1, <4>1, NextRunType DEF Reschedule, ScheduleInv
    <3>2. CASE UNCHANGED next_run
      BY <3>2 DEF ScheduleInv, DayInv
    <3>3. QED
      BY <2>1, <3>1, <3>2 DEF SaveSchedule, SetPaused, Apply, ReadSchedule
  <2>6. QED
    BY <2>3, <2>4, <2>5 DEF ScheduleInv, DayInv, dayVars
<1>6. ASSUME NEW s \in {"ready", "failed"}, EditionChanges(s) PROVE DayInv'
  BY <1>6 DEF EditionChanges, ScheduleInv, DayInv, Idle, Today, settingVars
<1>7. ASSUME NEW t \in 0..LastHour, PassTime(t) PROVE DayInv'
  BY <1>7, DayPasses
<1>8. CASE UNCHANGED vars
  BY <1>8 DEF ScheduleInv, DayInv, Idle, Today, vars, settingVars, dayVars
<1>9. QED
  BY <1>1, <1>2, <1>3, <1>4, <1>5, <1>6, <1>7, <1>8 DEF Next

-----------------------------------------------------------------------------
(* Theorems. *)

\* The types, what is in force and where the run of the day is, of every
\* reachable state.
THEOREM ScheduleInvariant == Spec => []ScheduleInv
<1>1. Init => ScheduleInv
  <2> SUFFICES ASSUME Init PROVE ScheduleInv
    OBVIOUS
  <2>1. ScheduleTypeOK
    BY ScheduleTypesInit
  <2>2. SettingsInv
    BY DEF Init, SettingsInv, Idle
  <2>3. DayInv
    BY ScheduleAssumption DEF Init, DayInv, Idle
  <2>4. QED
    BY <2>1, <2>2, <2>3 DEF ScheduleInv
<1>2. ScheduleInv /\ [Next]_vars => ScheduleInv'
  BY ScheduleTypesStep, SettingsStep, DayStep DEF ScheduleInv
<1>3. QED
  BY <1>1, <1>2, PTL DEF Spec

\* The variables of the scheduler keep their types: no request and no restart
\* stores an hour that is none, or a next run that is too far ahead.
THEOREM ScheduleTypesHold == Spec => []ScheduleTypeOK
BY ScheduleInvariant, PTL DEF ScheduleInv

\* For any threads and requests: once no request is under way and none have
\* overlapped since the start, APScheduler does what the settings say.
THEOREM SettingsInForceHolds == Spec => []SettingsInForce
<1>1. ScheduleInv => SettingsInForce
  BY DEF ScheduleInv, SettingsInv, SettingsInForce, PauseInForce, HourInForce
<1>2. QED
  BY <1>1, ScheduleInvariant, PTL

\* For any length of the day and of the catch-up window: a quiet day gets its
\* run from the misfire grace and the catch-up together.
THEOREM DayCoveredHolds == Spec => []DayCovered
<1>1. ScheduleInv => DayCovered
  <2> SUFFICES ASSUME ScheduleInv, scheduler # "stopped", quiet, ~tangled, ~Due, InCatchUpWindow
               PROVE  covered
    BY DEF DayCovered
  <2> USE DEF ScheduleInv
  <2>1. scheduler = "running"
    BY DEF SettingsInv, DayInv, PauseInForce, ScheduleTypeOK
  <2>2. now < next_run
    BY <2>1, TodayFacts DEF Due
  <2>3. Today <= now /\ now <= Today + CatchUp
    BY TodayFacts, ScheduleAssumption DEF InCatchUpWindow
  <2>4. QED
    BY <2>2, <2>3, TodayFacts, ScheduleAssumption DEF DayInv
<1>2. QED
  BY <1>1, ScheduleInvariant, PTL
=============================================================================
