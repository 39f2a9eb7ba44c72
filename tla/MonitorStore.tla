---------------------------- MODULE MonitorStore ----------------------------
(***************************************************************************)
(* The database rows one monitor owns and the statements a write group     *)
(* sends for it: monitor_state, incidents, the alerts queued in            *)
(* notification_outbox and the open row of status_intervals.               *)
(*                                                                         *)
(* The actors (scheduler runs, heartbeat requests, a first check) are in   *)
(* MonitorCycle; here is only what a statement does to the rows it finds.  *)
(***************************************************************************)
EXTENDS Naturals, FiniteSets

CONSTANTS
    Ids,      \* incident ids newId("inc") can return
    NoId,     \* SQL NULL where an incident id is expected
    Writers   \* the actors that write groups

ASSUME NullAssumption == NoId \notin Ids /\ NoId \notin Writers

\* `degraded` is a passing state and is folded into "up"; `paused` is never stored.
States == {"unknown", "warming_up", "up", "down", "suspended",
           "scheduled_off", "maintenance", "cant_check"}

DowntimeStates == {"down", "suspended"}

OpeningEvents == {"down", "flapping", "heartbeat_missed"}
Events == OpeningEvents \cup {"recovered"}

(* `beat` is last_beat_at (0 for NULL), `ptr` active_incident_id, and `by`  *)
(* stands for updated_at: the write that stored the row last.              *)
Row == [state : States, beat : Nat, ptr : Ids \cup {NoId}, by : Writers \cup {NoId}]

\* The row createMonitor inserts.
NewRow == [state |-> "unknown", beat |-> 0, ptr |-> NoId, by |-> NoId]

(* `missed` is error = 'heartbeat_missed'; "none" is an id not inserted yet. *)
Incident == [status : {"none", "open", "resolved"}, notified : BOOLEAN,
             flapping : BOOLEAN, missed : BOOLEAN]

NoIncident == [status |-> "none", notified |-> FALSE, flapping |-> FALSE, missed |-> FALSE]

OpenOnes(inc) == {i \in Ids : inc[i].status = "open"}

\* activeIncidentStatement: the monitor's open incident, or NULL.
Active(inc) == IF OpenOnes(inc) = {} THEN NoId ELSE CHOOSE i \in OpenOnes(inc) : TRUE

-----------------------------------------------------------------------------
(* A planned write group.  `inc` says whether its monitor_state update has  *)
(* the incident columns, `open`/`resolve`/`observe` the incident it opens,  *)
(* resolves or refreshes, `settled` that the open row is stored notified,   *)
(* `alert` what its alert unit queues, `line` whether it sends an interval. *)
Plan == [kind : {"none", "check", "beat", "missed", "paused", "warm"},
         state : States, beat : Nat, inc : BOOLEAN, ptr : Ids \cup {NoId},
         open : Ids \cup {NoId}, resolve : Ids \cup {NoId}, observe : Ids \cup {NoId},
         flapping : BOOLEAN, missed : BOOLEAN, settled : BOOLEAN,
         alert : Events \cup {"none"}, line : BOOLEAN]

NoPlan == [kind |-> "none", state |-> "unknown", beat |-> 0, inc |-> FALSE, ptr |-> NoId,
           open |-> NoId, resolve |-> NoId, observe |-> NoId, flapping |-> FALSE,
           missed |-> FALSE, settled |-> FALSE, alert |-> "none", line |-> FALSE]

\* The incident the plan's alert is about (part of its event_key).
Subject(p) == IF p.open # NoId THEN p.open ELSE p.resolve

-----------------------------------------------------------------------------
\* snapshotGuard: the row still holds what the plan `s` was made from.
SnapshotGuard(row, s) == row.state = s.state /\ row.beat = s.beat /\ row.ptr = s.ptr

LandsUnguardedWarmUp(row, s, p) ==
    p.kind = "paused" => SnapshotGuard(row, s) \/ (row.state = p.state /\ row.ptr = s.ptr)

(* Whether the WHERE clauses of a group match the row it finds: a warm-up   *)
(* and a paused state carry a guard, a result or a beat does not.           *)
Lands(row, s, p) ==
    CASE p.kind = "warm"   -> SnapshotGuard(row, s)
      [] p.kind = "paused" -> \/ SnapshotGuard(row, s)
                              \/ row.state = p.state /\ row.ptr = s.ptr
      [] OTHER             -> TRUE

(* idx_incidents_one_open and the primary key: inserting an incident fails  *)
(* while another of the monitor is open, or when its id is already there.   *)
Aborts(inc, p) == p.open # NoId /\ (OpenOnes(inc) # {} \/ inc[p.open].status # "none")

\* The incident statements of a group's core, on the row the transaction found.
IncAfter(inc, row, s, p) ==
    [i \in Ids |->
        IF i = p.open
        THEN [status |-> "open", notified |-> p.settled,
              flapping |-> p.flapping, missed |-> p.missed]
        ELSE IF i = p.resolve /\ inc[i].status = "open" /\ Lands(row, s, p)
        THEN [inc[i] EXCEPT !.status = "resolved"]
        ELSE IF i = p.observe
        THEN [inc[i] EXCEPT !.missed = p.missed]
        ELSE inc[i]]

\* The monitor_state update, with (`withIncident`) or without the pointer columns.
RowAfter(row, s, w, p, withIncident) ==
    IF p.kind = "none" \/ ~Lands(row, s, p) THEN row
    ELSE IF p.kind = "paused" /\ s.state = p.state THEN [row EXCEPT !.by = w]
    ELSE [state |-> p.state,
          beat  |-> IF p.kind \in {"beat", "warm"} THEN p.beat ELSE row.beat,
          ptr   |-> IF withIncident /\ p.inc THEN p.ptr ELSE row.ptr,
          by    |-> w]

\* The alert unit: ON CONFLICT(event_key) DO NOTHING, and the incident marked with it.
AlertsAfter(alerts, p) ==
    IF p.alert = "none" THEN alerts ELSE alerts \cup {<<p.alert, Subject(p)>>}

Marked(inc, i) ==
    IF i \in Ids /\ inc[i].status # "none" THEN [inc EXCEPT ![i].notified = TRUE] ELSE inc

UnmarkedByAlert(inc, p) == inc

MarkedByAlert(inc, p) == IF p.alert = "none" THEN inc ELSE Marked(inc, p.open)

(* The interval unit: the open interval ends and one in the plan's state    *)
(* begins.  A paused state's interval follows only its own landed row.      *)
LineAfter(line, row, w, p) ==
    IF p.line /\ (p.kind = "paused" => row.state = p.state /\ row.by = w)
    THEN p.state ELSE line

Incidental(p) == {p.open, p.resolve, p.observe} # {NoId}

(* assembleGroup, planPausedState and planWarmHeartbeat: whether a group    *)
(* has a smaller set of statements to try when its core cannot land.  One   *)
(* without incident statements has if it carries a sample row: a change, a  *)
(* result that is not a plain pass, or a pass with details of its own.      *)
HasFallback(s, p) ==
    CASE p.kind \in {"none", "warm"}                -> {FALSE}
      [] p.kind = "paused"                          -> {p.resolve # NoId}
      [] p.kind = "missed"                          -> {Incidental(p) \/ p.state # s.state}
      [] p.kind \in {"check", "beat"} /\ (Incidental(p) \/ p.state # s.state \/ p.state # "up") -> {TRUE}
      [] OTHER                                      -> BOOLEAN
=============================================================================
