---------------------------- MODULE MonitorCycle ----------------------------
(***************************************************************************)
(* One monitor's life in an OpenPing install: scheduler runs                *)
(* (scheduler.ts runScheduled) classify it, probe it, plan its writes from  *)
(* the rows they read and send them at the end of the run, while requests   *)
(* (a heartbeat, or the first check of a new monitor) plan and write the    *)
(* same rows without taking the run lease.                                  *)
(*                                                                         *)
(* A D1 batch is one transaction, so one action; everything an actor does   *)
(* between two of its round trips is local and part of the first action.    *)
(* Monitors share no rows, so one monitor and its writers are the system;   *)
(* what the other monitors of a run do to it is a failed batch.             *)
(***************************************************************************)
EXTENDS MonitorStore

CONSTANTS
    Kind,           \* "http" (any probed type), "cert" or "heartbeat"
    Runs,           \* scheduler runs that may be in flight
    Requests,       \* heartbeat requests, or first checks, in flight
    Confirm,        \* the monitor re-checks before it alerts (confirmFailures)
    FlapThreshold,  \* FLAP_THRESHOLD
    MayOverrun,     \* a run may outlive its lease
    Turns,          \* bound: which of "maintenance", "pause", "schedule" change
    MaxArrivals,    \* bound: requests (and heartbeat warm-ups) in a behaviour
    MaxFaults       \* bound: failed round trips and crashes in a behaviour

ASSUME CycleAssumption ==
    /\ Kind \in {"http", "cert", "heartbeat"}
    /\ Writers = Runs \cup Requests
    /\ Runs \cap Requests = {}
    /\ Turns \subseteq {"maintenance", "pause", "schedule"}
    /\ Confirm \in BOOLEAN /\ MayOverrun \in BOOLEAN
    /\ FlapThreshold \in Nat /\ MaxArrivals \in Nat /\ MaxFaults \in Nat

VARIABLES
    row, inc, alerts, line,          \* the monitor's rows (MonitorStore)
    lease, live,                     \* locks: the run lease's holder, TTL not passed
    enabled, maint, active, health,  \* the owner's and the world's side
    clock, stale,                    \* request times, and which beats are overdue
    faults,                          \* round trips that may still fail
    pc, work, snap, at, outcome, plan, repair   \* each actor's local state

db == <<row, inc, alerts, line>>
locks == <<lease, live>>
world == <<enabled, maint, active, health>>
time == <<clock, stale>>
local == <<pc, work, snap, at, outcome, plan, repair>>
vars == <<db, locks, world, time, faults, local>>

Works == {"none", "maintenance", "scheduled_off", "warm", "missed", "check", "beat"}
PCs == {"idle", "probe", "recheck", "read", "whole", "together", "alone", "core", "alert",
        "fallback", "extras", "repair", "finish"}
Healths == CASE Kind = "http" -> {"up", "down", "suspended"}
             [] Kind = "cert" -> {"up", "down", "cant_check"}
             [] OTHER         -> {"up", "down"}
NoRepair == [id |-> NoId, event |-> "none"]

TypeOK ==
    /\ row \in Row
    /\ inc \in [Ids -> Incident]
    /\ alerts \subseteq Events \X Ids
    /\ line \in States \cup {"none"}
    /\ lease \in Runs \cup {NoId} /\ live \in BOOLEAN
    /\ enabled \in BOOLEAN /\ maint \in BOOLEAN /\ active \in BOOLEAN
    /\ health \in {"up", "down", "suspended", "cant_check"}
    /\ clock \in Nat /\ stale \in Nat /\ faults \in Nat
    /\ pc \in [Writers -> PCs]
    /\ work \in [Writers -> Works]
    /\ snap \in [Writers -> Row]
    /\ at \in [Writers -> Nat]
    /\ outcome \in [Writers -> States]
    /\ plan \in [Writers -> Plan]
    /\ repair \in [Writers -> [id : Ids \cup {NoId}, event : OpeningEvents \cup {"none"}]]

Init ==
    /\ row = NewRow
    /\ inc = [i \in Ids |-> NoIncident]
    /\ alerts = {} /\ line = "none"
    /\ lease = NoId /\ live = FALSE
    /\ enabled = TRUE /\ maint = FALSE /\ active = TRUE /\ health = "up"
    /\ clock = 0 /\ stale = 0 /\ faults = MaxFaults
    /\ pc = [w \in Writers |-> "idle"]
    /\ work = [w \in Writers |-> "none"]
    /\ snap = [w \in Writers |-> NewRow]
    /\ at = [w \in Writers |-> 0]
    /\ outcome = [w \in Writers |-> "unknown"]
    /\ plan = [w \in Writers |-> NoPlan]
    /\ repair = [w \in Writers |-> NoRepair]

-----------------------------------------------------------------------------
(* What an actor decides on locally.                                        *)

\* newId("inc"): an id no stored incident and no plan in flight has.
FreshIds == {i \in Ids : inc[i].status = "none" /\ \A w \in Writers : plan[w].open # i}

Known == {i \in Ids : inc[i].status # "none"}

\* Every actor's local state is dropped when it ends.
Reset(w) ==
    /\ pc' = [pc EXCEPT ![w] = "idle"]
    /\ work' = [work EXCEPT ![w] = "none"]
    /\ snap' = [snap EXCEPT ![w] = NewRow]
    /\ at' = [at EXCEPT ![w] = 0]
    /\ outcome' = [outcome EXCEPT ![w] = "unknown"]
    /\ plan' = [plan EXCEPT ![w] = NoPlan]
    /\ repair' = [repair EXCEPT ![w] = NoRepair]

(* The scheduler's loop over the monitors: what a run may decide to do with *)
(* this one.  A polled monitor may not be due, a scheduled-off one may wait *)
(* for its next_check_at, and an outage already marked may wait its slice.  *)
Classified ==
    IF ~enabled THEN {"none"}
    ELSE IF maint THEN {IF row.state = "maintenance" THEN "none" ELSE "maintenance"}
    ELSE IF ~active THEN {"scheduled_off"} \cup {w \in {"none"} : row.state = "scheduled_off"}
    ELSE IF Kind # "heartbeat" THEN {"check", "none"}
    ELSE IF row.state \in {"scheduled_off", "unknown"} THEN {"warm"}
    ELSE IF row.beat < stale THEN {"missed"} \cup {w \in {"none"} : row.state = "down"}
    ELSE {"none"}

NoneUnnotified == NoRepair

(* unnotifiedIncidentsStatement and planAlertRepair's choice of event.      *)
Unnotified ==
    LET i == Active(inc) IN
    IF i = NoId \/ inc[i].notified THEN NoRepair
    ELSE [id |-> i, event |-> CASE inc[i].flapping -> "flapping"
                                [] inc[i].missed   -> "heartbeat_missed"
                                [] OTHER           -> "down"]

Suppressing == {"maintenance", "scheduled_off"}

-----------------------------------------------------------------------------
(* The environment.                                                         *)

\* The owner opens or ends a maintenance window, or pauses or resumes the monitor.
SetMaintenance ==
    /\ "maintenance" \in Turns /\ maint' = ~maint
    /\ UNCHANGED <<db, locks, enabled, active, health, time, faults, local>>

SetPaused ==
    /\ "pause" \in Turns /\ enabled' = ~enabled
    /\ UNCHANGED <<db, locks, maint, active, health, time, faults, local>>

\* The monitor's schedule window opens or closes.
ScheduleTurns ==
    /\ "schedule" \in Turns /\ active' = ~active
    /\ UNCHANGED <<db, locks, enabled, maint, health, time, faults, local>>

\* The target changes; with every id used it only gets better (bound: Ids).
HealthTurns ==
    /\ Kind # "heartbeat"
    /\ health' \in Healths \ {health}
    /\ health' \in {"up", "cant_check"} \/ FreshIds # {}
    /\ UNCHANGED <<db, locks, enabled, maint, active, time, faults, local>>

\* interval + grace passes: every beat so far is overdue from now on.
DeadlinePasses ==
    /\ Kind = "heartbeat" /\ stale # clock + 1 /\ FreshIds # {}
    /\ stale' = clock + 1
    /\ UNCHANGED <<db, locks, world, clock, faults, local>>

\* The lease's TTL passes: its holder crashed, or is still running.
LeaseExpires ==
    /\ lease # NoId /\ live
    /\ pc[lease] = "idle" \/ MayOverrun
    /\ live' = FALSE
    /\ UNCHANGED <<db, lease, world, time, faults, local>>

-----------------------------------------------------------------------------
(* The plans of state.ts: pure functions of the rows read.                  *)

Ok(out) == out \in {"up", "cant_check"}

(* What readWriteContext read: whether the incident row could be read, the  *)
(* alert channels ("unread", "none" wants the event, "some" do), whether    *)
(* the flap count and the cooldown speak against a plain alert, and the id  *)
(* a newly opened incident would get.                                       *)
(* With every id used, an incident that would open is not read (bound: Ids).*)
Exhausted == FreshIds = {} /\ Active(inc) = NoId

Broken(c) == c.notify = "unread" \/ (~c.read /\ ~Exhausted)

Contexts ==
    {c \in [read : BOOLEAN, notify : {"unread", "none", "some"}, flapping : BOOLEAN,
            cooling : BOOLEAN, id : FreshIds \cup {NoId}] :
        /\ c.flapping => Cardinality(Known) + 1 >= FlapThreshold
        /\ c.cooling => \E a \in alerts : a[1] \in OpeningEvents
        /\ Broken(c) => faults > 0
        /\ c.id = NoId => Active(inc) # NoId \/ ~c.read}

(* planIncidentTransition: complete `base` with the incident a failure      *)
(* opens or refreshes, or the one a success resolves.                       *)
Transition(base, ok, event, c) ==
    LET found   == Active(inc)
        opening == IF c.flapping THEN "flapping" ELSE event
        silent  == c.notify # "some" \/ (c.cooling /\ \E i \in Ids : <<opening, i>> \in alerts)
    IN  CASE ~c.read -> [base EXCEPT !.inc = FALSE]
          [] c.read /\ ~ok /\ found # NoId ->
                [base EXCEPT !.ptr = found, !.observe = found]
          [] c.read /\ ~ok /\ found = NoId ->
                [base EXCEPT !.ptr = c.id, !.open = c.id, !.flapping = c.flapping,
                             !.alert = IF silent THEN "none" ELSE opening,
                             !.settled = silent /\ c.notify # "unread"]
          [] c.read /\ ok /\ found = NoId -> base
          [] c.read /\ ok /\ found # NoId ->
                [base EXCEPT !.resolve = found,
                             !.alert = IF c.notify = "some" /\ ~inc[found].flapping
                                       THEN "recovered" ELSE "none"]

NeedsIncidentByState(out, cur, known) ==
    out \notin {"warming_up", "cant_check"} /\ ~(Ok(out) /\ known /\ cur.state \notin DowntimeStates)

\* checkNeedsIncident; `known` is false for a first check, which plans from no row.
NeedsIncident(out, cur, known) ==
    out \notin {"warming_up", "cant_check"} /\ ~(Ok(out) /\ known /\ cur.ptr = NoId)

planCheckResultIntervalOnChange(cur, known, out, c) ==
    LET base == [NoPlan EXCEPT !.kind = "check", !.state = out, !.inc = TRUE, !.line = out # cur.state]
    IN  IF NeedsIncident(out, cur, known) THEN Transition(base, Ok(out), "down", c)
        ELSE [base EXCEPT !.ptr = IF out = "warming_up" THEN cur.ptr ELSE NoId]

planCheckResult(cur, known, out, c) ==
    LET base == [NoPlan EXCEPT !.kind = "check", !.state = out, !.inc = TRUE, !.line = TRUE]
    IN  IF NeedsIncident(out, cur, known) THEN Transition(base, Ok(out), "down", c)
        ELSE CASE out = "cant_check" -> [base EXCEPT !.resolve = cur.ptr]
               [] out = "warming_up" -> [base EXCEPT !.ptr = cur.ptr]
               [] OTHER              -> base

planPausedState(cur, target) ==
    [NoPlan EXCEPT !.kind = "paused", !.state = target, !.inc = TRUE,
                   !.resolve = cur.ptr, !.line = TRUE]

planWarmHeartbeat(now) ==
    [NoPlan EXCEPT !.kind = "warm", !.state = "warming_up", !.inc = TRUE, !.beat = now]

\* `horizon` is the run's clock: beats below it were overdue when it started.
planHeartbeatMissed(cur, horizon, c) ==
    IF cur.beat # 0 /\ ~(cur.beat < horizon) THEN NoPlan
    ELSE Transition([NoPlan EXCEPT !.kind = "missed", !.state = "down", !.inc = TRUE,
                                   !.missed = TRUE, !.line = cur.state # "down"],
                    FALSE, "heartbeat_missed", c)

planHeartbeat(cur, out, now, suppressed, c) ==
    LET base == [NoPlan EXCEPT !.kind = "beat", !.state = out, !.beat = now,
                               !.inc = TRUE, !.line = TRUE]
    IN  IF suppressed THEN [base EXCEPT !.ptr = cur.ptr]
        ELSE Transition(base, Ok(out), "down", c)

-----------------------------------------------------------------------------
(* A scheduler run.                                                         *)

LeaseStolen == TRUE
LeaseFree == lease = NoId \/ ~live

(* Round trip 1: take the lease if it is free or its TTL passed, and read   *)
(* the rows.  A run that finds a live lease changes nothing.                *)
RunStart(r) ==
    /\ pc[r] = "idle"
    /\ LeaseFree
    /\ lease' = r /\ live' = TRUE
    /\ \E does \in Classified :
          /\ does = "warm" => clock < MaxArrivals
          /\ clock' = IF does = "warm" THEN clock + 1 ELSE clock
          /\ at' = [at EXCEPT ![r] = IF does = "warm" THEN clock' ELSE stale]
          /\ work' = [work EXCEPT ![r] = does]
          /\ pc' = [pc EXCEPT ![r] = IF does = "check" THEN "probe" ELSE "read"]
    /\ snap' = [snap EXCEPT ![r] = row]
    /\ repair' = [repair EXCEPT ![r] = Unnotified]
    /\ UNCHANGED <<db, world, stale, faults, outcome, plan>>

\* classifyCheck: the state a probe's result stands for.
Verdict(warmup) ==
    CASE health = "down" -> IF warmup THEN "warming_up" ELSE "down"
      [] OTHER           -> health

WarmUp(r) == snap[r].state \in {"unknown", "scheduled_off", "maintenance"}

\* A failure of this check is re-checked before it is written.
Confirms(r) == Confirm /\ snap[r].state \notin DowntimeStates /\ snap[r].ptr = NoId

(* The first probe of a run's check, or the only one of a first check.  An   *)
(* error a re-check cannot change is not re-checked.                        *)
Probe(w) ==
    /\ pc[w] = "probe"
    /\ LET out == Verdict(w \in Requests \/ WarmUp(w)) IN
       \/ /\ w \in Runs /\ ~Ok(out) /\ Confirms(w)
          /\ pc' = [pc EXCEPT ![w] = "recheck"]
          /\ UNCHANGED <<outcome, work, faults>>
       \/ /\ pc' = [pc EXCEPT ![w] = "read"]
          /\ outcome' = [outcome EXCEPT ![w] = out]
          /\ UNCHANGED <<work, faults>>
       \/ /\ faults > 0 /\ faults' = faults - 1     \* the check itself threw
          /\ pc' = [pc EXCEPT ![w] = "read"]
          /\ work' = [work EXCEPT ![w] = "none"]
          /\ UNCHANGED outcome
    /\ UNCHANGED <<db, locks, world, time, snap, at, plan, repair>>

\* The confirmation re-check decides; a run that cannot afford it writes nothing.
Recheck(r) ==
    /\ pc[r] = "recheck"
    /\ pc' = [pc EXCEPT ![r] = "read"]
    /\ \/ outcome' = [outcome EXCEPT ![r] = Verdict(WarmUp(r))] /\ UNCHANGED work
       \/ work' = [work EXCEPT ![r] = "none"] /\ UNCHANGED outcome
    /\ UNCHANGED <<db, locks, world, time, faults, snap, at, plan, repair>>

RepairedWhileRecovering(r, c) ==
    CASE c.notify = "unread" -> NoRepair
      [] c.notify = "none"   -> [repair[r] EXCEPT !.event = "none"]
      [] OTHER               -> repair[r]

(* planAlertRepair: nothing when the channels could not be read, only the   *)
(* mark when the monitor recovers in this run or no channel wants it.       *)
Repaired(r, c) ==
    CASE work[r] = "check" /\ Ok(outcome[r]) -> [repair[r] EXCEPT !.event = "none"]
      [] c.notify = "unread"                 -> NoRepair
      [] c.notify = "none"                   -> [repair[r] EXCEPT !.event = "none"]
      [] OTHER                               -> repair[r]

\* The clock and the probe's result are in the plan now.
Planned(w) ==
    /\ at' = [at EXCEPT ![w] = 0]
    /\ outcome' = [outcome EXCEPT ![w] = "unknown"]

(* readWriteContext, then every plan of the run.  Only an overdue heartbeat *)
(* is read again; the other plans use the rows of round trip 1.             *)
RunRead(r) ==
    /\ pc[r] = "read"
    /\ \E c \in Contexts :
          /\ plan' = [plan EXCEPT ![r] =
                CASE work[r] = "check"      -> planCheckResult(snap[r], TRUE, outcome[r], c)
                  [] work[r] = "missed"     -> planHeartbeatMissed(row, at[r], c)
                  [] work[r] = "warm"       -> planWarmHeartbeat(at[r])
                  [] work[r] \in Suppressing -> planPausedState(snap[r], work[r])
                  [] OTHER                  -> NoPlan]
          /\ repair' = [repair EXCEPT ![r] = IF @ = NoRepair THEN @ ELSE Repaired(r, c)]
          /\ faults' = IF Broken(c) THEN faults - 1 ELSE faults
    /\ snap' = [snap EXCEPT ![r] = IF work[r] = "missed" THEN row ELSE @]
    /\ pc' = [pc EXCEPT ![r] = "whole"]
    /\ Planned(r)
    /\ UNCHANGED <<db, locks, world, time, work>>

Released(r) == IF lease = r THEN NoId ELSE lease

\* Round trip 3: record the finish and release the lease, if it is still this run's.
RunFinish(r) ==
    /\ pc[r] = "finish"
    /\ \/ lease' = Released(r) /\ UNCHANGED faults
       \/ faults > 0 /\ faults' = faults - 1 /\ UNCHANGED lease
    /\ Reset(r)
    /\ UNCHANGED <<db, live, world, time>>

-----------------------------------------------------------------------------
(* Requests: they hold no lease.                                            *)

(* /hb/:token: the route reads whether a maintenance window or the schedule *)
(* suppresses the beat (a beat within 5 s of the last one is dropped).      *)
BeatArrives(b) ==
    /\ Kind = "heartbeat" /\ pc[b] = "idle" /\ clock < MaxArrivals
    /\ clock' = clock + 1
    /\ at' = [at EXCEPT ![b] = clock']
    /\ IF maint \/ ~active
       THEN /\ outcome' = [outcome EXCEPT ![b] = IF maint THEN "maintenance" ELSE "scheduled_off"]
       ELSE \E out \in {"up"} \cup {x \in {"down"} : FreshIds # {}} :
                outcome' = [outcome EXCEPT ![b] = out]
    /\ work' = [work EXCEPT ![b] = "beat"]
    /\ pc' = [pc EXCEPT ![b] = "read"]
    /\ UNCHANGED <<db, locks, world, stale, faults, snap, plan, repair>>

(* runFirstCheck: once, for a new monitor that is probed; the same choice   *)
(* the scheduler would make, from a row read now.                           *)
FirstCheck(q) ==
    /\ Kind # "heartbeat" /\ pc[q] = "idle" /\ clock = 0 /\ enabled
    /\ clock < MaxArrivals /\ clock' = clock + 1
    /\ work' = [work EXCEPT ![q] = CASE maint -> "maintenance"
                                     [] ~maint /\ ~active -> "scheduled_off"
                                     [] OTHER -> "check"]
    /\ pc' = [pc EXCEPT ![q] = IF work'[q] = "check" THEN "probe" ELSE "read"]
    /\ UNCHANGED <<db, locks, world, stale, faults, snap, at, outcome, plan, repair>>

\* recordHeartbeat, setMaintenanceState, setScheduledOff and applyCheckResult read.
RequestRead(q) ==
    /\ pc[q] = "read"
    /\ snap' = [snap EXCEPT ![q] = IF work[q] = "check" THEN NewRow ELSE row]
    /\ \E c \in Contexts :
          /\ plan' = [plan EXCEPT ![q] =
                CASE work[q] = "beat"       -> planHeartbeat(row, outcome[q], at[q],
                                                             outcome[q] \in Suppressing, c)
                  [] work[q] = "check"      -> planCheckResult(NewRow, FALSE, outcome[q], c)
                  [] work[q] \in Suppressing -> planPausedState(row, work[q])
                  [] OTHER                  -> NoPlan]
          /\ faults' = IF Broken(c) THEN faults - 1 ELSE faults
    /\ pc' = [pc EXCEPT ![q] = "whole"]
    /\ Planned(q)
    /\ UNCHANGED <<db, locks, world, time, work, repair>>

-----------------------------------------------------------------------------
(* runWritePlan, seen from one monitor's group: everything in one batch,    *)
(* again without the run's tail, then the group alone, then its core, alert *)
(* and interval each in a batch, or the fallback when the core cannot land.  A batch that reports an error   *)
(* may have landed.                                                         *)

\* A round trip fails; `lands` is what it would have written.
Fails(lands) == faults > 0 /\ faults' = faults - 1 /\ (lands \/ UNCHANGED db)

\* The group is done: the run goes on with the alert repair, a request ends.
GroupDone(w) ==
    IF w \in Requests THEN Reset(w)
    ELSE /\ pc' = [pc EXCEPT ![w] = IF repair[w] = NoRepair THEN "finish" ELSE "repair"]
         /\ UNCHANGED <<work, snap, at, outcome, plan, repair>>

Goes(w, next) == pc' = [pc EXCEPT ![w] = next] /\ UNCHANGED <<work, snap, at, outcome, plan, repair>>

WriteCore(w) ==
    /\ row' = RowAfter(row, snap[w], w, plan[w], TRUE)
    /\ inc' = IncAfter(inc, row, snap[w], plan[w])
    /\ UNCHANGED <<alerts, line>>

WriteFallback(w) ==
    /\ row' = RowAfter(row, snap[w], w, plan[w], FALSE)
    /\ UNCHANGED <<inc, alerts, line>>

WriteAlert(w) ==
    /\ alerts' = AlertsAfter(alerts, plan[w])
    /\ inc' = MarkedByAlert(inc, plan[w])
    /\ UNCHANGED <<row, line>>

WriteLine(w) == line' = LineAfter(line, row, w, plan[w]) /\ UNCHANGED <<row, inc, alerts>>

WithRepair(queued, rep) ==
    IF rep.event = "none" THEN queued ELSE queued \cup {<<rep.event, rep.id>>}

WriteRepair(w) ==
    /\ alerts' = WithRepair(alerts, repair[w])
    /\ inc' = Marked(inc, repair[w].id)
    /\ UNCHANGED <<row, line>>

WriteWhole(w) ==
    /\ row' = RowAfter(row, snap[w], w, plan[w], TRUE)
    /\ inc' = Marked(MarkedByAlert(IncAfter(inc, row, snap[w], plan[w]), plan[w]), repair[w].id)
    /\ alerts' = WithRepair(AlertsAfter(alerts, plan[w]), repair[w])
    /\ line' = LineAfter(line, row', w, plan[w])

WriteGroup(w) ==
    /\ row' = RowAfter(row, snap[w], w, plan[w], TRUE)
    /\ inc' = MarkedByAlert(IncAfter(inc, row, snap[w], plan[w]), plan[w])
    /\ alerts' = AlertsAfter(alerts, plan[w])
    /\ line' = LineAfter(line, row', w, plan[w])

\* The batch of everything; a failed one is followed by one of the `next` batches.
Everything(w, here, next) ==
    /\ pc[w] = here
    /\ \/ /\ ~Aborts(inc, plan[w])
          /\ WriteWhole(w) /\ UNCHANGED faults
          /\ IF w \in Runs THEN Goes(w, "finish") ELSE Reset(w)
       \/ /\ Aborts(inc, plan[w])
          /\ UNCHANGED <<db, faults>> /\ \E n \in next : Goes(w, n)
       \/ /\ ~Aborts(inc, plan[w])
          /\ Fails(WriteWhole(w)) /\ \E n \in next : Goes(w, n)
    /\ UNCHANGED <<locks, world, time>>

Whole(w) == Everything(w, "whole", {"alone"} \cup {n \in {"together"} : w \in Runs})
Together(r) == Everything(r, "together", {"alone"})

Alone(w) ==
    /\ pc[w] = "alone"
    /\ \/ /\ ~Aborts(inc, plan[w])
          /\ WriteGroup(w) /\ UNCHANGED faults /\ GroupDone(w)
       \/ /\ Aborts(inc, plan[w])
          /\ UNCHANGED <<db, faults>> /\ Goes(w, "core")
       \/ /\ ~Aborts(inc, plan[w])
          /\ Fails(WriteGroup(w)) /\ Goes(w, "core")
    /\ UNCHANGED <<locks, world, time>>

CoreFailedAlertAnyway(w) == Goes(w, "alert")
CoreFailed(w) ==
    \E retry \in HasFallback(snap[w], plan[w]) :
        IF retry THEN Goes(w, "fallback") ELSE GroupDone(w)

Core(w) ==
    /\ pc[w] = "core"
    /\ \/ /\ ~Aborts(inc, plan[w])
          /\ WriteCore(w) /\ UNCHANGED faults /\ Goes(w, "alert")
       \/ /\ Aborts(inc, plan[w])
          /\ UNCHANGED <<db, faults>> /\ CoreFailed(w)
       \/ /\ ~Aborts(inc, plan[w])
          /\ Fails(WriteCore(w)) /\ CoreFailed(w)
    /\ UNCHANGED <<locks, world, time>>

Alert(w) ==
    /\ pc[w] = "alert"
    /\ (WriteAlert(w) /\ UNCHANGED faults) \/ Fails(WriteAlert(w))
    /\ Goes(w, "extras")
    /\ UNCHANGED <<locks, world, time>>

Fallback(w) ==
    /\ pc[w] = "fallback"
    /\ \/ WriteFallback(w) /\ UNCHANGED faults /\ Goes(w, "extras")
       \/ Fails(WriteFallback(w)) /\ GroupDone(w)
    /\ UNCHANGED <<locks, world, time>>

Extras(w) ==
    /\ pc[w] = "extras"
    /\ (WriteLine(w) /\ UNCHANGED faults) \/ Fails(WriteLine(w))
    /\ GroupDone(w)
    /\ UNCHANGED <<locks, world, time>>

Repair(r) ==
    /\ pc[r] = "repair"
    /\ (WriteRepair(r) /\ UNCHANGED faults) \/ Fails(WriteRepair(r))
    /\ Goes(r, "finish")
    /\ UNCHANGED <<locks, world, time>>

\* canSpend says no before a retry: the rest of the run's writes are skipped.
OutOfBudget(r) ==
    /\ pc[r] \in {"together", "alone", "core", "alert", "fallback", "extras", "repair"}
    /\ Goes(r, "finish")
    /\ UNCHANGED <<db, locks, world, time, faults>>

(* The isolate is gone: nothing more of this actor happens, and a run's     *)
(* lease stays until its TTL.                                               *)
Crash(w) ==
    /\ pc[w] # "idle" /\ faults > 0
    /\ faults' = faults - 1
    /\ Reset(w)
    /\ UNCHANGED <<db, locks, world, time>>

Write(w) == Whole(w) \/ Together(w) \/ Alone(w) \/ Core(w) \/ Alert(w) \/ Fallback(w) \/ Extras(w)

RunStep(r) == Probe(r) \/ Recheck(r) \/ RunRead(r) \/ Write(r) \/ Repair(r) \/ OutOfBudget(r) \/ RunFinish(r)

RequestStep(q) == Probe(q) \/ RequestRead(q) \/ Write(q)

Environment == SetMaintenance \/ SetPaused \/ ScheduleTurns \/ HealthTurns \/ DeadlinePasses \/ LeaseExpires

Next ==
    \/ Environment
    \/ \E r \in Runs : RunStart(r) \/ RunStep(r)
    \/ \E q \in Requests : BeatArrives(q) \/ FirstCheck(q) \/ RequestStep(q)
    \/ \E w \in Writers : Crash(w)

Spec == Init /\ [][Next]_vars

-----------------------------------------------------------------------------
(* Properties.                                                              *)

(* The incident pointer never names an incident that does not exist: the    *)
(* core writes the pointer and the incident it opens in one transaction,    *)
(* and the fallbacks leave the pointer alone (assembleGroup).               *)
PointerIsKnown == row.ptr # NoId => inc[row.ptr].status # "none"

(* What batch.ts promises of `core`: "the state's incident pointer never    *)
(* disagrees with the incidents table".                                     *)
PointerAgrees == row.ptr = Active(inc)

(* A queued alert is about an incident that was really opened, and a        *)
(* recovery is announced only for one that was resolved (planIncident-      *)
(* Transition, batch.ts afterCore).                                         *)
AlertsAreTrue ==
    \A a \in alerts : /\ inc[a[2]].status # "none"
                      /\ a[1] = "recovered" => inc[a[2]].status = "resolved"

(* An incident whose opening alert is queued is marked notified: the alert  *)
(* unit writes both, so no later run alerts again.                          *)
AlertedIsNotified ==
    \A a \in alerts : a[1] \in OpeningEvents => inc[a[2]].notified

(* A beat recorded after a run read the monitor is not undone by what the   *)
(* run planned from its snapshot (planPausedState, planWarmHeartbeat): the  *)
(* state and the time the beat stored are still there after the run's write. *)
BeatsStand ==
    [][\A r \in Runs :
          /\ plan[r].kind \in {"paused", "warm"}
          /\ row'.by = r /\ row' # row
          /\ row.beat # snap[r].beat
          => row'.state = row.state /\ row'.beat = row.beat]_vars

(* An opening alert is queued only for an incident that is still open when   *)
(* the batch that queues it commits: a recovery is never followed by a late *)
(* down alert (the afterCore units, planAlertRepair's recovering monitors). *)
(* MaintenanceIsSilent is about the runs left out here.                     *)
NoLateAlert ==
    [][\A i \in Ids, e \in OpeningEvents :
          <<e, i>> \in alerts' \ alerts /\ (\A r \in Runs : work[r] \notin Suppressing)
          => inc'[i].status = "open"]_vars

(* Once a check or a beat is written with everything it carries, the open   *)
(* interval of the timeline is the stored state: a state change whose       *)
(* interval was lost is caught up by the next write (intervalStatements).   *)
CaughtUp(kinds) ==
    \A w \in Writers :
        /\ pc[w] = "whole" /\ plan[w].kind \in kinds
        /\ row'.by = w /\ pc'[w] \in {"finish", "idle"} /\ faults' = faults
        => line' = row'.state

TimelineCatchesUp == [][CaughtUp({"check", "beat"})]_vars

(* Unless runs outlive their leases, at most one is between taking the      *)
(* lease and its last round trip (acquireLeaseStatement).                   *)
OneRunAtATime == MayOverrun \/ \A r, s \in Runs : pc[r] # "idle" /\ pc[s] # "idle" => r = s

(* A run that outlived its lease never releases its successor's             *)
(* (releaseLeaseStatement deletes only the holder's own row).               *)
ReleaseIsOwn == [][lease # NoId /\ lease' = NoId => pc[lease] = "finish"]_vars

(* An open incident whose opening alert was lost is alerted or marked by a  *)
(* later run, or it ends (planAlertRepair).                                 *)
AlertCaughtUp ==
    \A i \in Ids : (inc[i].status = "open" /\ ~inc[i].notified)
                   ~> (inc[i].status = "resolved" \/ inc[i].notified)

(* Once the target stays up in a monitored window, its incident is resolved *)
(* and stays so: no lost write leaves it open for ever (checkNeedsIncident).*)
Monitored == health = "up" /\ enabled /\ active /\ ~maint
OutageEnds == <>[]Monitored => <>[](OpenOnes(inc) = {})

(* The scheduler is called again and again, D1 answers or refuses every     *)
(* round trip, and a monitor that keeps being due is checked: next_check_at *)
(* is one interval away at most.                                            *)
LiveSpec ==
    /\ Spec
    /\ \A r \in Runs : /\ WF_vars(RunStart(r)) /\ WF_vars(RunStep(r))
                       /\ SF_vars(RunStart(r) /\ work'[r] = "check")
    /\ WF_vars(LeaseExpires)

-----------------------------------------------------------------------------
(* Promises of the repository that the code does not keep; each is checked  *)
(* by a run that is expected to refute it.                                  *)

(* state.ts planHeartbeatMissed: the fresh read "closes the heartbeat-      *)
(* ingestion vs scheduler race": a beat stored after it is not overwritten. *)
MissedYieldsToBeat ==
    [][\A r \in Runs : row'.by = r /\ row' # row /\ plan[r].kind = "missed"
                       => row.beat = snap[r].beat]_vars

(* state.ts planMaintenanceState: a maintenance window "suppresses outages":*)
(* a run that found the monitor in one queues no outage alert for it.       *)
MaintenanceIsSilent ==
    [][\A r \in Runs : pc[r] = "whole" /\ pc'[r] = "finish" /\ work[r] = "maintenance"
                       => \A a \in alerts' \ alerts : a[1] \notin OpeningEvents]_vars
=============================================================================
