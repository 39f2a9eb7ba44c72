---------------------------- MODULE AlertDelivery ----------------------------
(***************************************************************************)
(* What the outbox promises for each alert, whatever runs, retries, crashes *)
(* and database errors are behind it: an alert is queued once, and a queued *)
(* one ends sent, dead or removed.  Only one that some provider took, or    *)
(* whose device is gone, is ever recorded as sent, and that stands.         *)
(***************************************************************************)
CONSTANT Keys
VARIABLES state, delivered, unreachable
alertVars == <<state, delivered, unreachable>>

AlertInit ==
    /\ state = [k \in Keys |-> "none"]
    /\ delivered = {} /\ unreachable = {}

Becomes(k, from, to) ==
    state[k] \in from /\ state' = [state EXCEPT ![k] = to] /\ UNCHANGED <<delivered, unreachable>>

Queue(k) == Becomes(k, {"none"}, "queued")

\* A run that read the alert before it was settled or removed may still send it.
Deliver(k) ==
    /\ state[k] # "none"
    /\ delivered' = delivered \cup {k} /\ UNCHANGED <<state, unreachable>>

Lose(k) ==
    /\ state[k] # "none"
    /\ unreachable' = unreachable \cup {k} /\ UNCHANGED <<state, delivered>>

RecordSent(k) == k \in delivered \cup unreachable /\ Becomes(k, {"queued", "dead"}, "sent")
GiveUp(k) == Becomes(k, {"queued"}, "dead")
Remove(k) == Becomes(k, {"queued", "sent", "dead"}, "removed")

AlertNext == \E k \in Keys : Queue(k) \/ Deliver(k) \/ Lose(k) \/ RecordSent(k) \/ GiveUp(k) \/ Remove(k)
AlertSpec == AlertInit /\ [][AlertNext]_alertVars
=============================================================================
