---------------------------- MODULE DailySchedule ----------------------------
(***************************************************************************)
(* SchedulerService of scheduler.py: the daily job of APScheduler, the     *)
(* settings it is built from, and the threads of the control API that      *)
(* pause, resume and reschedule it, over restarts of the service and a     *)
(* host that may be asleep.  What a started run does is RunLifecycle.      *)
(***************************************************************************)
EXTENDS Naturals, FiniteSets

CONSTANTS
  Thread,       \* request threads of the control API
  HoursPerDay,  \* bound: moments of a day that are told apart
  CatchUp,      \* config.catchup_hours
  LastHour,     \* bound: the clock stops here
  MaxRequests   \* bound: control requests ever made

ASSUME ScheduleAssumption ==
  /\ HoursPerDay \in Nat \ {0}
  /\ CatchUp \in Nat
  /\ LastHour \in Nat
  /\ MaxRequests \in Nat

VARIABLES
  now,               \* the clock, in hours since the first midnight
  schedule,          \* setting: hour of the daily run
  scheduler_paused,  \* setting
  scheduler,         \* state of APScheduler: "stopped", "running", "paused"
  next_run,          \* next_run_time of the job
  request,           \* what each request thread does next
  requests,          \* control requests made so far
  edition,           \* status of today's edition: "none", "ready", "failed"
  covered,           \* history: today had an automatic start or a ready edition
  quiet,             \* history: today began unpaused, and nobody intervened
  tangled            \* history: requests have overlapped since the service started

settingVars == <<schedule, scheduler_paused>>
dayVars == <<edition, covered, quiet>>
vars == <<now, settingVars, scheduler, next_run, request, requests, dayVars, tangled>>

Hour == 0..(HoursPerDay - 1)
HourOf(t) == t % HoursPerDay
DayOf(t) == t \div HoursPerDay
\* CronTrigger: the first occurrence of hour h after t.
NextFireTime(h, t) ==
  CHOOSE u \in (t + 1)..(t + HoursPerDay) : HourOf(u) = h

\* What a request asks for; the hour is the one to store, or the one read.
Ask == [op : {"pause", "resume", "settings"}, paused : BOOLEAN, hour : Hour]
Working == [pc : {"save", "flag", "apply", "read", "reschedule"}, ask : Ask]
Resting == [pc |-> "idle"]
Idle == \A t \in Thread : request[t] = Resting

ScheduleTypeOK ==
  /\ now \in 0..LastHour
  /\ schedule \in Hour
  /\ scheduler_paused \in BOOLEAN
  /\ scheduler \in {"stopped", "running", "paused"}
  /\ next_run \in 0..(LastHour + HoursPerDay)
  /\ request \in [Thread -> Working \cup {Resting}]
  /\ requests \in 0..MaxRequests
  /\ edition \in {"none", "ready", "failed"}
  /\ covered \in BOOLEAN
  /\ quiet \in BOOLEAN
  /\ tangled \in BOOLEAN

Init ==
  /\ now = 0
  /\ schedule \in Hour
  /\ scheduler_paused = FALSE
  /\ scheduler = "stopped"
  /\ next_run = 0
  /\ request = [t \in Thread |-> Resting]
  /\ requests = 0
  /\ edition = "none"
  /\ covered = FALSE /\ quiet = TRUE /\ tangled = FALSE

-----------------------------------------------------------------------------
(* The service. *)

InCatchUpWindow ==
  /\ HourOf(now) >= schedule
  /\ HourOf(now) - schedule <= CatchUp

\* Faulty variant: any edition of the day will do.
MaybeCatchUpUnlessAny == ~scheduler_paused /\ InCatchUpWindow /\ edition = "none"

\* _maybe_catch_up: whether the start of the service starts a run.
MaybeCatchUp == ~scheduler_paused /\ InCatchUpWindow /\ edition # "ready"

\* Faulty variant: the service forgets that it was paused.
StartUnpaused ==
  /\ scheduler = "stopped"
  /\ scheduler' = "running"
  /\ next_run' = NextFireTime(schedule, now)
  /\ covered' = (covered \/ MaybeCatchUp)
  /\ tangled' = FALSE
  /\ UNCHANGED <<now, settingVars, request, requests, edition, quiet>>

\* start, before the first request is served.
Start ==
  /\ scheduler = "stopped"
  /\ scheduler' = IF scheduler_paused THEN "paused" ELSE "running"
  /\ next_run' = NextFireTime(schedule, now)
  /\ covered' = (covered \/ MaybeCatchUp)
  /\ tangled' = FALSE
  /\ UNCHANGED <<now, settingVars, request, requests, edition, quiet>>

\* The service stops or is killed, its threads wherever they are.
Stop ==
  /\ scheduler # "stopped"
  /\ scheduler' = "stopped"
  /\ request' = [t \in Thread |-> Resting]
  /\ UNCHANGED <<now, settingVars, next_run, requests, dayVars, tangled>>

Due == scheduler = "running" /\ next_run <= now

\* Of the missed occurrences only the last counts (coalesce), and only if it
\* is not older than misfire_grace_time.
LastOccurrence == now - ((now - next_run) % HoursPerDay)
InGrace == now - LastOccurrence <= (IF CatchUp > 1 THEN CatchUp ELSE 1)

\* APScheduler calls _scheduled_run, which looks at the setting again; the
\* occurrence that was missed by too much is dropped.
Fire ==
  /\ Due
  /\ covered' = (covered \/ (InGrace /\ ~scheduler_paused))
  /\ next_run' = NextFireTime(HourOf(next_run), now)
  /\ UNCHANGED <<now, settingVars, scheduler, request, requests, edition, quiet, tangled>>

-----------------------------------------------------------------------------
(* The control API: each request runs in a thread of its own. *)

Goto(t, ask, pc) == request' = [request EXCEPT ![t] = [pc |-> pc, ask |-> ask]]
Return(t) == request' = [request EXCEPT ![t] = Resting]

BeginRequest(t, ask) ==
  /\ scheduler # "stopped"
  /\ request[t] = Resting
  /\ requests < MaxRequests
  /\ requests' = requests + 1
  /\ Goto(t, ask, IF ask.op = "settings" THEN "save" ELSE "flag")
  /\ quiet' = FALSE
  /\ tangled' = (tangled \/ ~Idle)
  /\ UNCHANGED <<now, settingVars, scheduler, next_run, edition, covered>>

\* update_settings stores the schedule before it pauses or resumes.
SaveSchedule(t, ask) ==
  /\ request[t] = [pc |-> "save", ask |-> ask]
  /\ schedule' = ask.hour
  /\ Goto(t, ask, "flag")
  /\ UNCHANGED <<now, scheduler_paused, scheduler, next_run, requests, dayVars, tangled>>

\* pause and resume store the setting first ...
SetPaused(t, ask) ==
  /\ request[t] = [pc |-> "flag", ask |-> ask]
  /\ scheduler_paused' = ask.paused
  /\ Goto(t, ask, "apply")
  /\ UNCHANGED <<now, schedule, scheduler, next_run, requests, dayVars, tangled>>

\* ... and turn to APScheduler then.
Apply(t, ask) ==
  /\ request[t] = [pc |-> "apply", ask |-> ask]
  /\ scheduler' = IF ask.paused THEN "paused" ELSE "running"
  /\ IF ask.op = "pause" THEN Return(t) ELSE Goto(t, ask, "read")
  /\ UNCHANGED <<now, settingVars, next_run, requests, dayVars, tangled>>

\* reschedule reads the setting ...
ReadSchedule(t, ask) ==
  /\ request[t] = [pc |-> "read", ask |-> ask]
  /\ Goto(t, [ask EXCEPT !.hour = schedule], "reschedule")
  /\ UNCHANGED <<now, settingVars, scheduler, next_run, requests, dayVars, tangled>>

\* ... and replaces the trigger: an occurrence that is due is forgotten.
Reschedule(t, ask) ==
  /\ request[t] = [pc |-> "reschedule", ask |-> ask]
  /\ next_run' = NextFireTime(ask.hour, now)
  /\ Return(t)
  /\ UNCHANGED <<now, settingVars, scheduler, requests, dayVars, tangled>>

\* Faulty variant: the pattern of the schedule admits 24:00.
AskedWithMidnight ==
  {[op |-> "pause", paused |-> TRUE, hour |-> 0],
   [op |-> "resume", paused |-> FALSE, hour |-> 0]}
  \cup [op : {"settings"}, paused : BOOLEAN, hour : 0..HoursPerDay]

\* The requests a client can make: only settings carry an hour.
Asked ==
  {[op |-> "pause", paused |-> TRUE, hour |-> 0],
   [op |-> "resume", paused |-> FALSE, hour |-> 0]}
  \cup [op : {"settings"}, paused : BOOLEAN, hour : Hour]

Serve(t) ==
  \E ask \in Ask :
    \/ SaveSchedule(t, ask) \/ SetPaused(t, ask) \/ Apply(t, ask)
    \/ ReadSchedule(t, ask) \/ Reschedule(t, ask)

-----------------------------------------------------------------------------
(* The world. *)

\* A run of today, however it was started, leaves its mark on the edition.
EditionChanges(status) ==
  /\ edition' = status
  /\ covered' = (covered \/ status = "ready")
  /\ UNCHANGED <<now, settingVars, scheduler, next_run, request, requests, quiet, tangled>>

\* Time passes, by any amount: the host may sleep.  Midnight opens a new day.
PassTime(t) ==
  /\ now < t
  /\ now' = t
  /\ IF DayOf(t) = DayOf(now)
     THEN UNCHANGED dayVars
     ELSE /\ edition' = "none"
          /\ covered' = FALSE
          /\ quiet' = (~scheduler_paused /\ Idle)
  /\ UNCHANGED <<settingVars, scheduler, next_run, request, requests, tangled>>

Next ==
  \/ Start
  \/ Stop
  \/ Fire
  \/ \E t \in Thread, ask \in Asked : BeginRequest(t, ask)
  \/ \E t \in Thread : Serve(t)
  \/ \E status \in {"ready", "failed"} : EditionChanges(status)
  \/ \E t \in 0..LastHour : PassTime(t)

Spec == Init /\ [][Next]_vars

-----------------------------------------------------------------------------
(* Properties. *)

\* "SQLite is the single source of truth for state" (README.md): when requests
\* came one at a time and none is under way, APScheduler is paused if and only
\* if the setting says so, and its next run is at the stored hour, after any
\* restarts, also in the middle of a request.
SettingsInForce ==
  scheduler # "stopped" /\ Idle /\ ~tangled =>
    /\ scheduler = "paused" <=> scheduler_paused
    /\ HourOf(next_run) = schedule

\* "Same-day catch-up after sleep or service restart" (README.md): on a day
\* that nobody interferes with, from the scheduled hour to the end of the
\* catch-up window, a service that is up and awake has started a run, or has
\* found a ready edition, whatever stops, sleeps and failed runs came before.
\* Not while an occurrence is due that APScheduler has not processed yet: that
\* run is about to start, or to be dropped for good when it is too late for it.
DayCovered ==
  scheduler # "stopped" /\ quiet /\ ~tangled /\ ~Due /\ InCatchUpWindow => covered

\* Why they hold, as an inductive invariant.  The settings that APScheduler has
\* been given, and the time of the run of the current day.
PauseInForce == scheduler = "paused" <=> scheduler_paused
HourInForce == HourOf(next_run) = schedule
Today == HoursPerDay * DayOf(now) + schedule

\* A request that is alone has brought into force all but what lies ahead of it;
\* only the hour of a new schedule may wait for longer than the next step.
InForceAt(pc, ask) ==
  /\ pc = "save" => PauseInForce /\ HourInForce /\ ask.op = "settings"
  /\ pc = "flag" => PauseInForce /\ (HourInForce \/ ask.op # "pause")
  /\ pc = "apply" => scheduler_paused = ask.paused /\ (HourInForce \/ ask.op # "pause")
  /\ pc = "read" => PauseInForce
  /\ pc = "reschedule" => PauseInForce /\ ask.hour = schedule

RequestInv ==
  \A t \in Thread : request[t] # Resting => InForceAt(request[t].pc, request[t].ask)

Alone == \A t, u \in Thread : request[t] # Resting /\ request[u] # Resting => t = u

\* No thread outlives the service; requests that do not overlap are alone.
SettingsInv ==
  /\ scheduler = "stopped" => Idle
  /\ scheduler # "stopped" /\ ~tangled =>
       /\ Idle => PauseInForce /\ HourInForce
       /\ Alone
       /\ RequestInv

\* The run of a quiet day has been started, is ahead or due, or came too late.
DayInv ==
  /\ next_run <= now + HoursPerDay
  /\ edition = "ready" => covered
  /\ quiet => Idle /\ ~scheduler_paused
  /\ quiet /\ ~tangled /\ scheduler # "stopped" =>
       covered \/ next_run <= Today \/ Today + CatchUp < now

ScheduleInv == ScheduleTypeOK /\ SettingsInv /\ DayInv
=============================================================================
