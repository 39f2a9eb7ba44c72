------------------------- MODULE PlatformScheduling -------------------------
(***************************************************************************)
(* The hosted platform runs each tenant's scheduler                          *)
(* (platform/src/scheduling.ts): a cron claims the tenants that are due and *)
(* queues a message for each, a consumer starts the claimed run, calls the  *)
(* tenant and records the result with the next due time.                    *)
(*                                                                         *)
(* Crons overlap, consumers die, the database fails before or after it      *)
(* committed, messages are lost, late, or retried.  Tenants share no row,   *)
(* so one tenant is the system.  Times are what remains of them: `next` and *)
(* `lease` count down, and 0 is "now or earlier".                           *)
(***************************************************************************)
EXTENDS Naturals, Sequences

CONSTANTS
    RunIds,      \* run ids (runIdFor); one no longer named anywhere is reused
    None,        \* SQL NULL
    Crons,       \* crons that may overlap
    Consumers,   \* deliveries that may be handled at once
    QueueLease,  \* QUEUE_LEASE_MS
    CallTime,    \* the call's timeout
    RunLease,    \* the call's timeout plus RUN_LEASE_MARGIN_MS
    StartDelay,  \* the time the start's write may take
    MaxGap,      \* SCHEDULED_MAX_GAP_MS
    MaxTries,    \* 1 + max_retries of the queue
    Waits,       \* retries of the bookkeeping (BOOKKEEPING_WAITS_MS)
    AtLeastOnce, \* the queue may deliver a message twice, or take one it refused
    MaxFaults    \* bound: failed round trips, crashes and lost messages

ASSUME SchedulingAssumption ==
    /\ None \notin RunIds
    /\ QueueLease \in Nat /\ CallTime \in Nat /\ RunLease \in Nat /\ StartDelay \in Nat
    /\ CallTime + StartDelay < RunLease
    /\ MaxGap \in Nat \ {0} /\ MaxTries \in Nat \ {0} /\ Waits \in Nat /\ MaxFaults \in Nat
    /\ AtLeastOnce \in BOOLEAN

VARIABLES
    row,     \* the tenant's row: its schedule_ columns, and whether it is schedulable
    stats,   \* its scheduler_stats row
    queue,   \* SCHEDULE_QUEUE: the messages waiting
    cron,    \* each cron's local state
    task,    \* each consumer's local state
    faults

vars == <<row, stats, queue, cron, task, faults>>

Tries == 1 .. MaxTries

\* schedule_running: `${runId}:${attempts}`.
Tokens == RunIds \X Tries
Messages == [run : RunIds, tries : Tries]

Tenants == [ok : BOOLEAN, next : 0 .. MaxGap, claim : RunIds \cup {None},
            running : Tokens \cup {None}, lease : Nat]

Outcomes == {"ran", "lease_busy", "failed"}

\* `same`: schedule_next_at still is what the cron read.
IdleCron == [pc |-> "idle", run |-> None, same |-> FALSE]
IdleTask == [pc |-> "idle", run |-> None, tries |-> 1, left |-> 0, out |-> "ran", gap |-> 1, waits |-> 0]

TypeOK ==
    /\ row \in Tenants
    /\ stats \in [last : RunIds \cup {None}, streak : 0 .. MaxGap]
    /\ queue \subseteq Messages
    /\ cron \in [Crons -> [pc : {"idle", "claim", "send", "return"},
                           run : RunIds \cup {None}, same : BOOLEAN]]
    /\ task \in [Consumers -> [pc : {"idle", "load", "start", "call", "record", "finish"},
                               run : RunIds \cup {None}, tries : Tries, left : 0 .. CallTime,
                               out : Outcomes, gap : 1 .. MaxGap + 1, waits : 0 .. Waits]]
    /\ faults \in Nat

Init ==
    /\ row = [ok |-> TRUE, next |-> 0, claim |-> None, running |-> None, lease |-> 0]
    /\ stats = [last |-> None, streak |-> 0]
    /\ queue = {}
    /\ cron = [c \in Crons |-> IdleCron]
    /\ task = [d \in Consumers |-> IdleTask]
    /\ faults = MaxFaults

Named == {row.claim, stats.last} \cup {m.run : m \in queue}
         \cup {cron[c].run : c \in Crons} \cup {task[d].run : d \in Consumers}

\* A round trip fails or an invocation dies; a write that failed may have landed.
Fault == faults > 0 /\ faults' = faults - 1

-----------------------------------------------------------------------------
(* The cron: enqueueDue.                                                    *)

\* DUE_SQL: the tenant is due and nothing holds it.
Due == row.ok /\ row.next = 0 /\ row.lease = 0

CronRead(c) ==
    /\ cron[c].pc = "idle" /\ Due
    /\ \E r \in RunIds \ Named : cron' = [cron EXCEPT ![c] = [pc |-> "claim", run |-> r, same |-> TRUE]]
    /\ UNCHANGED <<row, stats, queue, task, faults>>

ClaimsUnclaimed(c) == cron[c].same /\ row.ok /\ row.lease = 0 /\ row.claim = None

\* CLAIM_SQL's WHERE: still due at the time it read, and still free.
Claims(c) == cron[c].same /\ row.ok /\ row.lease = 0

Claimed(c) == [row EXCEPT !.claim = cron[c].run, !.running = None, !.lease = QueueLease]

CronClaim(c) ==
    /\ cron[c].pc = "claim"
    /\ \/ /\ row' = IF Claims(c) THEN Claimed(c) ELSE row
          /\ cron' = [cron EXCEPT ![c] = IF Claims(c) THEN [@ EXCEPT !.pc = "send"] ELSE IdleCron]
          /\ UNCHANGED faults
       \/ /\ \E landed \in BOOLEAN : Fault /\ row' = IF landed /\ Claims(c) THEN Claimed(c) ELSE row
          /\ cron' = [cron EXCEPT ![c] = IdleCron]
    /\ UNCHANGED <<stats, queue, task>>

\* queue.sendBatch; a refused batch's claims are given back.
CronSend(c) ==
    /\ cron[c].pc = "send"
    /\ LET message == [run |-> cron[c].run, tries |-> 1] IN
       \/ /\ queue' = queue \cup {message} /\ UNCHANGED faults
          /\ cron' = [cron EXCEPT ![c] = IdleCron]
       \/ /\ Fault /\ \E taken \in {FALSE, AtLeastOnce} :
                                    queue' = IF taken THEN queue \cup {message} ELSE queue
          /\ cron' = [cron EXCEPT ![c].pc = "return"]
    /\ UNCHANGED <<row, stats, task>>

\* UNCLAIM_SQL; when it fails too, the claim waits for its lease.
CronReturn(c) ==
    /\ cron[c].pc = "return"
    /\ LET freed == IF row.claim = cron[c].run THEN [row EXCEPT !.claim = None, !.lease = 0] ELSE row IN
       \/ row' = freed /\ UNCHANGED faults
       \/ \E landed \in BOOLEAN : Fault /\ row' = IF landed THEN freed ELSE row
    /\ cron' = [cron EXCEPT ![c] = IdleCron]
    /\ UNCHANGED <<stats, queue, task>>

CronDies(c) ==
    /\ cron[c].pc # "idle" /\ Fault
    /\ cron' = [cron EXCEPT ![c] = IdleCron]
    /\ UNCHANGED <<row, stats, queue, task>>

-----------------------------------------------------------------------------
(* The consumer: runOne.                                                    *)

Token(d) == <<task[d].run, task[d].tries>>

Goes(d, pc) == task' = [task EXCEPT ![d].pc = pc]
Acks(d) == task' = [task EXCEPT ![d] = IdleTask]

\* The queue tries the message again, until its retries are used up.
Requeued(d) ==
    IF task[d].tries < MaxTries
    THEN queue \cup {[run |-> task[d].run, tries |-> task[d].tries + 1]} ELSE queue

Deliver(d, m) ==
    /\ task[d].pc = "idle" /\ m \in queue
    /\ \/ queue' = queue \ {m} /\ UNCHANGED faults
       \/ AtLeastOnce /\ Fault /\ UNCHANGED queue
    /\ task' = [task EXCEPT ![d] = [IdleTask EXCEPT !.pc = "load", !.run = m.run, !.tries = m.tries]]
    /\ UNCHANGED <<row, stats, cron>>

\* The queue drops a message it could not deliver.
LoseMessage(m) ==
    /\ m \in queue /\ Fault
    /\ queue' = queue \ {m}
    /\ UNCHANGED <<row, stats, cron, task>>

\* loadForRun: a stale message, or one of a tenant that can't run now, ends here.
Load(d) ==
    /\ task[d].pc = "load"
    /\ \/ /\ IF row.claim = task[d].run /\ row.ok THEN Goes(d, "start") ELSE Acks(d)
          /\ UNCHANGED <<queue, faults>>
       \/ Fault /\ Acks(d) /\ queue' = Requeued(d)
    /\ UNCHANGED <<row, stats, cron>>

\* The start's WHERE: the claimed run, and this attempt of it not begun.
Starts(d) == row.claim = task[d].run /\ row.running # Token(d) /\ row.ok

StartedOnQueueLease(d, delay) == [row EXCEPT !.running = Token(d)]

\* The lease is counted from the time the consumer read before it wrote.
Started(d, delay) == [row EXCEPT !.running = Token(d), !.lease = RunLease - delay]

Start(d) ==
    /\ task[d].pc = "start"
    /\ \E delay \in 0 .. StartDelay :
       \/ /\ row' = IF Starts(d) THEN Started(d, delay) ELSE row
          /\ IF Starts(d) THEN task' = [task EXCEPT ![d].pc = "call", ![d].left = CallTime] ELSE Acks(d)
          /\ UNCHANGED <<queue, faults>>
       \/ /\ \E landed \in BOOLEAN : Fault /\ row' = IF landed /\ Starts(d) THEN Started(d, delay) ELSE row
          /\ Acks(d) /\ queue' = Requeued(d)
    /\ UNCHANGED <<stats, cron>>

(* callScheduled: the tenant's answer (its run ran and says when it is due,  *)
(* found its own lease taken, failed) or none before the timeout.            *)
Answer(d) ==
    /\ task[d].pc = "call"
    /\ \E out \in Outcomes, gap \in 1 .. MaxGap + 1 :
          task' = [task EXCEPT ![d].pc = "record", ![d].left = 0, ![d].out = out,
                               ![d].gap = IF out = "ran" THEN gap ELSE 1]
    /\ UNCHANGED <<row, stats, queue, cron, faults>>

\* RECORD_SQL: the same run recorded again changes nothing.
AtMost(n) == IF n < MaxGap THEN n ELSE MaxGap

Recorded(d) ==
    IF stats.last = task[d].run THEN stats
    ELSE [last   |-> task[d].run,
          streak |-> CASE task[d].out = "ran"        -> 0
                       [] task[d].out = "lease_busy" -> stats.streak
                       [] OTHER                      -> AtMost(stats.streak + 1)]

\* Minutes to wait after this many failures in a row.
Backoff(streak) ==
    CASE streak < 2 -> 1
      [] streak = 2 -> 2
      [] streak = 3 -> 4
      [] streak = 4 -> 8
      [] OTHER      -> MaxGap

(* The tenant's own next due time; after failures the next tick, then 2, 4, *)
(* 8 minutes; never past the longest gap.                                   *)
nextDueAfterRun(d, streak) == AtMost(IF task[d].out = "failed" THEN Backoff(streak) ELSE task[d].gap)

\* A write of the bookkeeping fails: all of it again, or, at last, given up.
BookkeepingFails(d) ==
    task' = IF task[d].waits < Waits
            THEN [task EXCEPT ![d].pc = "record", ![d].waits = @ + 1]
            ELSE [task EXCEPT ![d] = IdleTask]

Record(d) ==
    /\ task[d].pc = "record"
    /\ \/ /\ stats' = Recorded(d)
          /\ task' = [task EXCEPT ![d].pc = "finish", ![d].gap = nextDueAfterRun(d, Recorded(d).streak)]
          /\ UNCHANGED faults
       \/ /\ \E landed \in BOOLEAN : Fault /\ stats' = IF landed THEN Recorded(d) ELSE stats
          /\ BookkeepingFails(d)
    /\ UNCHANGED <<row, queue, cron>>

FinishesAnyway(d) == TRUE

\* The finish's WHERE: the row still names this attempt.
Finishes(d) == row.claim = task[d].run /\ row.running = Token(d)

\* One write: the next due time, and the claim and the lease cleared.
Finished(d) ==
    /\ row' = IF Finishes(d)
              THEN [row EXCEPT !.next = task[d].gap, !.claim = None, !.running = None, !.lease = 0]
              ELSE row
    /\ cron' = IF Finishes(d) THEN [c \in Crons |-> [cron[c] EXCEPT !.same = FALSE]] ELSE cron

Finish(d) ==
    /\ task[d].pc = "finish"
    /\ \/ Finished(d) /\ Acks(d) /\ UNCHANGED faults
       \/ Fault /\ (Finished(d) \/ UNCHANGED <<row, cron>>) /\ BookkeepingFails(d)
    /\ UNCHANGED <<stats, queue>>

\* The consumer dies: the queue delivers its message again.
ConsumerDies(d) ==
    /\ task[d].pc # "idle" /\ Fault
    /\ Acks(d) /\ queue' = Requeued(d)
    /\ UNCHANGED <<row, stats, cron>>

-----------------------------------------------------------------------------
\* Billing or the owner suspends or resumes the tenant.
Suspend ==
    /\ row' = [row EXCEPT !.ok = ~@]
    /\ UNCHANGED <<stats, queue, cron, task, faults>>

\* Time passes; a call that is out of time has timed out first.
Pass ==
    /\ \A d \in Consumers : task[d].pc = "call" => task[d].left > 0
    /\ row' = [row EXCEPT !.next = IF @ = 0 THEN 0 ELSE @ - 1, !.lease = IF @ = 0 THEN 0 ELSE @ - 1]
    /\ task' = [d \in Consumers |-> [task[d] EXCEPT !.left = IF @ = 0 THEN 0 ELSE @ - 1]]
    /\ UNCHANGED <<stats, queue, cron, faults>>

CronStep(c) == CronRead(c) \/ CronClaim(c) \/ CronSend(c) \/ CronReturn(c)
ConsumerStep(d) == Load(d) \/ Start(d) \/ Answer(d) \/ Record(d) \/ Finish(d)

Next ==
    \/ \E c \in Crons : CronStep(c) \/ CronDies(c)
    \/ \E d \in Consumers : ConsumerStep(d) \/ ConsumerDies(d) \/ \E m \in queue : Deliver(d, m)
    \/ \E m \in queue : LoseMessage(m)
    \/ Suspend \/ Pass

Spec == Init /\ [][Next]_vars

-----------------------------------------------------------------------------
(* Properties.                                                              *)

(* The header of scheduling.ts: "Never two runs of one tenant at once".  No *)
(* two consumers have a call to the tenant open, whatever crons overlap and *)
(* whatever became of earlier runs of it.                                   *)
OneCallAtATime ==
    \A d, e \in Consumers : task[d].pc = "call" /\ task[e].pc = "call" => d = e

(* While a call stays open the row names its run and holds its lease: no    *)
(* overlapping cron claims the tenant, and no late bookkeeping of an        *)
(* earlier run frees it (the claim's and the finish's WHERE).               *)
ClaimOutlastsCall ==
    [][\A d \in Consumers : task[d].pc = "call" /\ task'[d].pc = "call"
                            => row'.claim = task[d].run /\ row'.lease > 0]_vars

(* A tenant that stays schedulable is called again and again: no lost       *)
(* message, dead cron, dead consumer or failed bookkeeping strands it.      *)
CalledAgain == <>[]row.ok => []<>(\E d \in Consumers : task[d].pc = "call")

(* Crons fire and consumers work on; time passes.  A message of the claimed *)
(* run is delivered, loaded and started within its lease again and again    *)
(* (the lease is three minutes, a delivery takes seconds).                  *)
LiveSpec ==
    /\ Spec
    /\ WF_vars(Pass)
    /\ \A c \in Crons : WF_vars(CronStep(c))
    /\ SF_vars(\E c \in Crons : CronClaim(c) /\ cron'[c].pc = "send")
    /\ \A d \in Consumers : WF_vars(ConsumerStep(d))
    /\ WF_vars(\E d \in Consumers, m \in queue : Deliver(d, m))
    /\ SF_vars(\E d \in Consumers, m \in queue : m.run = row.claim /\ Deliver(d, m))
    /\ SF_vars(\E d \in Consumers : Load(d) /\ task'[d].pc = "start")
    /\ SF_vars(\E d \in Consumers : Start(d) /\ task'[d].pc = "call")
=============================================================================
