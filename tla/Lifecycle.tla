------------------------------- MODULE Lifecycle -------------------------------
(***************************************************************************)
(* When a tenant is deleted (lifecycle/jobs.ts, exports.ts): thirty days    *)
(* into a suspension, a week after its warning and behind an export of its  *)
(* data, or because its account is being deleted.  The jobs run every few   *)
(* minutes under a lock that a slow run outlives, while the customer pays,  *)
(* lapses again or leaves.                                                  *)
(*                                                                         *)
(* Suspensions are numbered: suspended_at is the number.  The lease on an   *)
(* export, and the mails that decide nothing, are left out.                 *)
(***************************************************************************)
EXTENDS Integers

CONSTANTS
    Ticks, NoTick,
    MaxCycles       \* bound: suspensions

ASSUME LifecycleAssumption == NoTick \notin Ticks /\ MaxCycles \in Nat \ {0}

VARIABLES
    customer,   \* the tenant: suspended by billing, in which suspension, provisioned, to be
                \* deleted; and whether its account is leaving
    days,       \* thirty since the suspension, seven since its warning
    warned,     \* the suspensions whose deletion_warning is sent
    dump,       \* the newest deletion export, and since when it counts
    bucket,     \* what it counts for, of the exports that read back whole
    tickLock, tick

lifeVars == <<customer, days, warned, dump, bucket, tickLock, tick>>

Cycles == 1 .. MaxCycles
Resting == [pc |-> "idle", cycle |-> 0, needs |-> FALSE]
NoDump == [state |-> "none", cycle |-> 0, leaving |-> FALSE, whole |-> FALSE]

LifeTypeOK ==
    /\ customer \in [suspended : BOOLEAN, cycle : 0 .. MaxCycles, ready : BOOLEAN, deleting : BOOLEAN, leaving : BOOLEAN]
    /\ days \in [month : BOOLEAN, week : BOOLEAN]
    /\ warned \subseteq Cycles
    /\ dump \in [state : {"none", "open", "done", "failed"}, cycle : 0 .. MaxCycles,
                leaving : BOOLEAN, whole : BOOLEAN]
    /\ bucket \in [cycles : SUBSET (0 .. MaxCycles), leaving : BOOLEAN]
    /\ tickLock \in [holder : Ticks \cup {NoTick}, over : BOOLEAN]
    /\ tick \in [Ticks -> [pc : {"idle", "warn", "due", "trust", "mark", "leave", "leaveTrust", "leaveMark", "over"},
                           cycle : 0 .. MaxCycles, needs : BOOLEAN]]

LifeInit ==
    /\ customer = [suspended |-> FALSE, cycle |-> 0, ready |-> FALSE, deleting |-> FALSE, leaving |-> FALSE]
    /\ days = [month |-> FALSE, week |-> FALSE]
    /\ warned = {}
    /\ dump = NoDump /\ bucket = [cycles |-> {}, leaving |-> FALSE]
    /\ tickLock = [holder |-> NoTick, over |-> FALSE]
    /\ tick = [t \in Ticks |-> Resting]

-----------------------------------------------------------------------------
(* The customer, billing and time.                                          *)

BecomesReady ==
    /\ ~customer.ready /\ ~customer.deleting /\ customer' = [customer EXCEPT !.ready = TRUE]
    /\ UNCHANGED <<days, warned, dump, bucket, tickLock, tick>>

Suspends ==
    /\ ~customer.suspended /\ customer.cycle < MaxCycles
    /\ customer' = [customer EXCEPT !.suspended = TRUE, !.cycle = @ + 1]
    /\ days' = [month |-> FALSE, week |-> FALSE]
    /\ UNCHANGED <<warned, dump, bucket, tickLock, tick>>

PaysAgain ==
    /\ customer.suspended /\ customer' = [customer EXCEPT !.suspended = FALSE]
    /\ UNCHANGED <<days, warned, dump, bucket, tickLock, tick>>

Leaves ==
    /\ ~customer.leaving /\ customer' = [customer EXCEPT !.leaving = TRUE]
    /\ UNCHANGED <<days, warned, dump, bucket, tickLock, tick>>

DaysPass ==
    /\ customer.suspended
    /\ \/ ~days.month /\ days' = [days EXCEPT !.month = TRUE]
       \/ ~days.week /\ customer.cycle \in warned /\ days' = [days EXCEPT !.week = TRUE]
    /\ UNCHANGED <<customer, warned, dump, bucket, tickLock, tick>>

\* advanceExport, to its end: what is stored may not read back as the dump.
Exports ==
    /\ dump.state = "open"
    /\ \/ /\ \E state \in {"done", "failed"} : dump' = [dump EXCEPT !.state = state]
          /\ UNCHANGED bucket
       \/ /\ dump' = [dump EXCEPT !.state = "done", !.whole = TRUE]
          /\ bucket' = [cycles |-> bucket.cycles \cup {dump.cycle}, leaving |-> bucket.leaving \/ dump.leaving]
    /\ UNCHANGED <<customer, days, warned, tickLock, tick>>

-----------------------------------------------------------------------------
(* A run of the jobs.                                                       *)

TickAt(t, pc) == tick[t].pc = pc
TickGoes(t, pc) == tick' = [tick EXCEPT ![t].pc = pc]

StartTick(t) ==
    /\ TickAt(t, "idle") /\ (tickLock.holder = NoTick \/ tickLock.over)
    /\ tickLock' = [holder |-> t, over |-> FALSE] /\ TickGoes(t, "warn")
    /\ UNCHANGED <<customer, days, warned, dump, bucket>>

\* The notice is claimed, sent and marked sent; it may fail before the end.
Warns(t) ==
    /\ TickAt(t, "warn") /\ TickGoes(t, "due")
    /\ \/ /\ customer.suspended /\ ~customer.deleting /\ ~customer.leaving
          /\ warned' = warned \cup {customer.cycle}
       \/ UNCHANGED warned
    /\ UNCHANGED <<customer, days, dump, bucket, tickLock>>

\* dueForDeletion.  (An export that failed a while ago does not hold it back.)
IsDue ==
    /\ customer.suspended /\ ~customer.deleting /\ ~customer.leaving
    /\ days.month /\ days.week /\ customer.cycle \in warned
    /\ dump.cycle = customer.cycle => dump.state # "open"

FindsDue(t) ==
    /\ TickAt(t, "due")
    /\ \/ IsDue /\ tick' = [tick EXCEPT ![t].pc = "trust", ![t].cycle = customer.cycle]
       \/ TickGoes(t, "leave")
    /\ UNCHANGED <<customer, days, warned, dump, bucket, tickLock>>

\* trustedExport: done, and read back; or a new one asked for.
StateIsDone == TRUE
ReadsBack == dump.whole
Trusts(t, counts, then, otherwise) ==
    IF counts /\ dump.state = "done" /\ ReadsBack
    THEN UNCHANGED dump /\ TickGoes(t, then)
    ELSE /\ TickGoes(t, otherwise)
         /\ dump' = IF counts /\ dump.state = "open" THEN dump
                    ELSE IF counts /\ dump.state = "done" THEN [dump EXCEPT !.state = "failed"]
                    ELSE [state |-> "open", cycle |-> customer.cycle, leaving |-> customer.leaving, whole |-> FALSE]

\* Since the suspension the run found, or a later one.
TrustsExport(t) ==
    /\ TickAt(t, "trust")
    /\ Trusts(t, dump.state # "none" /\ dump.cycle >= tick[t].cycle, "mark", "leave")
    /\ UNCHANGED <<customer, days, warned, bucket, tickLock>>

StillSuspended(t) == customer.suspended
SameSuspension(t) == customer.suspended /\ customer.cycle = tick[t].cycle

Condemns(t, still) ==
    customer' = IF still /\ ~customer.deleting THEN [customer EXCEPT !.deleting = TRUE] ELSE customer

MarksTenant(t) ==
    /\ TickAt(t, "mark") /\ Condemns(t, SameSuspension(t)) /\ TickGoes(t, "leave")
    /\ UNCHANGED <<days, warned, dump, bucket, tickLock>>

\* The accounts being deleted: what never got as far as a database has nothing to export.
LooksAtLeaver(t) ==
    /\ TickAt(t, "leave")
    /\ tick' = [tick EXCEPT ![t].needs = customer.ready,
                            ![t].pc = IF ~customer.leaving \/ customer.deleting THEN "over"
                                      ELSE IF customer.ready THEN "leaveTrust" ELSE "leaveMark"]
    /\ UNCHANGED <<customer, days, warned, dump, bucket, tickLock>>

TrustsLeavers(t) ==
    /\ TickAt(t, "leaveTrust")
    /\ Trusts(t, dump.leaving, "leaveMark", "over")
    /\ UNCHANGED <<customer, days, warned, bucket, tickLock>>

MarksLeaver(t) ==
    /\ TickAt(t, "leaveMark") /\ Condemns(t, TRUE) /\ TickGoes(t, "over")
    /\ UNCHANGED <<days, warned, dump, bucket, tickLock>>

\* At its end, or when it throws, a run lets its lock go; if it dies, the lock stays.
TickEnds(t) ==
    /\ ~TickAt(t, "idle") /\ tick' = [tick EXCEPT ![t] = Resting]
    /\ \/ tickLock' = IF tickLock.holder = t THEN [holder |-> NoTick, over |-> FALSE] ELSE tickLock
       \/ UNCHANGED tickLock
    /\ UNCHANGED <<customer, days, warned, dump, bucket>>

TickLockPasses ==
    /\ tickLock.holder # NoTick /\ ~tickLock.over /\ tickLock' = [tickLock EXCEPT !.over = TRUE]
    /\ UNCHANGED <<customer, days, warned, dump, bucket, tick>>

LifeNext ==
    \/ BecomesReady \/ Suspends \/ PaysAgain \/ Leaves \/ DaysPass \/ Exports \/ TickLockPasses
    \/ \E t \in Ticks :
         \/ StartTick(t) \/ Warns(t) \/ FindsDue(t) \/ TrustsExport(t) \/ MarksTenant(t)
         \/ LooksAtLeaver(t) \/ TrustsLeavers(t) \/ MarksLeaver(t) \/ TickEnds(t)

LifeSpec == LifeInit /\ [][LifeNext]_lifeVars

-----------------------------------------------------------------------------

DueAndSaved ==
    /\ customer.suspended /\ days.month /\ days.week /\ customer.cycle \in warned
    /\ \E c \in bucket.cycles : c >= customer.cycle
LeftAndSaved ==
    customer.leaving /\ (customer.ready => bucket.leaving \/ \E t \in Ticks : TickAt(t, "leaveMark") /\ ~tick[t].needs)

(* A tenant is only marked for deletion when it may be, by the state it is in *)
(* at that moment: thirty days into the very suspension it was warned of a    *)
(* week ago, or its account leaving, and behind an export that read back      *)
(* whole, whatever it paid in the meantime and however slow the run was.  A   *)
(* leaver's tenant goes without one if the run saw it before it was ready.    *)
NothingDeletedUnsaved ==
    [][customer'.deleting /\ ~customer.deleting => DueAndSaved \/ LeftAndSaved]_lifeVars
================================================================================
