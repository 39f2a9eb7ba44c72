---------------------- MODULE PlatformSchedulingProofs ----------------------
(***************************************************************************)
(* Proofs about PlatformScheduling, for any number of crons, consumers,     *)
(* run ids and faults, and any lease and call times that satisfy its        *)
(* assumption.                                                             *)
(*                                                                         *)
(* That calls exclude each other rests on where a run may be: with a queue  *)
(* that delivers a message once, a run is held by one cron, one message or  *)
(* one consumer (OneHolder), and a consumer that calls owns the row         *)
(* (CallerOwnsRow).                                                        *)
(***************************************************************************)
EXTENDS PlatformScheduling, TLAPS

TaskRecords == [pc : {"idle", "load", "start", "call", "record", "finish"},
                run : RunIds \cup {None}, tries : Tries, left : 0 .. CallTime,
                out : Outcomes, gap : 1 .. MaxGap + 1, waits : 0 .. Waits]

CronRecords == [pc : {"idle", "claim", "send", "return"}, run : RunIds \cup {None}, same : BOOLEAN]

StatsRecords == [last : RunIds \cup {None}, streak : 0 .. MaxGap]

\* The local states move between known points, and one that works names a run.
Busy ==
    /\ \A c \in Crons : cron[c].pc # "idle" => cron[c].run \in RunIds
    /\ \A d \in Consumers : task[d].pc # "idle" => task[d].run \in RunIds
    /\ \A d \in Consumers : task[d].pc = "finish" => task[d].gap <= MaxGap

TypeInv == TypeOK /\ Busy

LEMMA TypeParts ==
    TypeOK <=> /\ row \in Tenants /\ stats \in StatsRecords /\ queue \subseteq Messages
               /\ cron \in [Crons -> CronRecords] /\ task \in [Consumers -> TaskRecords]
               /\ faults \in Nat
  BY DEF TypeOK, TaskRecords, CronRecords, StatsRecords

LEMMA IdleTypes == IdleTask \in TaskRecords /\ IdleCron \in CronRecords
  BY SchedulingAssumption DEF IdleTask, IdleCron, TaskRecords, CronRecords, Tries, Outcomes

\* What the bookkeeping computes is in range.
LEMMA AtMostType ==
    ASSUME NEW n \in Nat
    PROVE  AtMost(n) \in 0 .. MaxGap /\ (n > 0 => AtMost(n) \in 1 .. MaxGap)
  BY SchedulingAssumption DEF AtMost

LEMMA RecordedType ==
    ASSUME TypeInv, NEW d \in Consumers, task[d].pc = "record"
    PROVE  /\ Recorded(d) \in StatsRecords
           /\ nextDueAfterRun(d, Recorded(d).streak) \in 1 .. MaxGap
<1>1. task[d] \in TaskRecords /\ stats \in StatsRecords /\ task[d].run \in RunIds
  BY TypeParts DEF TypeInv, Busy
<1>2. AtMost(stats.streak + 1) \in 0 .. MaxGap
  BY <1>1, AtMostType DEF StatsRecords
<1>3. Recorded(d) \in StatsRecords
  BY <1>1, <1>2, SchedulingAssumption DEF Recorded, StatsRecords
<1>4. Backoff(Recorded(d).streak) \in Nat \ {0}
  BY <1>3, SchedulingAssumption DEF Backoff, StatsRecords
<1>5. task[d].gap \in Nat \ {0}
  BY <1>1, SchedulingAssumption DEF TaskRecords
<1>. QED BY <1>3, <1>4, <1>5, AtMostType DEF nextDueAfterRun

LEMMA RequeuedType ==
    ASSUME TypeInv, NEW d \in Consumers, task[d].pc # "idle"
    PROVE  Requeued(d) \subseteq Messages
<1>1. task[d] \in TaskRecords /\ task[d].run \in RunIds /\ queue \subseteq Messages
  BY TypeParts DEF TypeInv, Busy
<1>. QED BY <1>1, SchedulingAssumption DEF Requeued, Messages, TaskRecords, Tries

LEMMA TypeInit == Init => TypeInv
<1>. SUFFICES ASSUME Init PROVE TypeInv
  OBVIOUS
<1>1. row \in Tenants /\ stats \in StatsRecords /\ queue \subseteq Messages /\ faults \in Nat
  BY SchedulingAssumption DEF Init, Tenants, StatsRecords
<1>2. cron \in [Crons -> CronRecords] /\ task \in [Consumers -> TaskRecords]
  BY IdleTypes DEF Init
<1>3. Busy
  BY DEF Init, Busy, IdleCron, IdleTask
<1>. QED BY <1>1, <1>2, <1>3, TypeParts DEF TypeInv

(* The steps of a cron keep the types. *)
LEMMA CronTypes ==
    ASSUME TypeInv, NEW c \in Crons, CronStep(c) \/ CronDies(c)
    PROVE  TypeInv'
<1>0. /\ row \in Tenants /\ stats \in StatsRecords /\ queue \subseteq Messages
      /\ cron \in [Crons -> CronRecords] /\ task \in [Consumers -> TaskRecords] /\ faults \in Nat
      /\ cron[c].pc # "idle" => cron[c].run \in RunIds
  BY TypeParts DEF TypeInv, Busy
<1>1. UNCHANGED <<stats, task>>
  BY DEF CronStep, CronRead, CronClaim, CronSend, CronReturn, CronDies
<1>2. faults' \in Nat
  BY <1>0 DEF CronStep, CronRead, CronClaim, CronSend, CronReturn, CronDies, Fault
<1>3. row' \in Tenants
  <2>1. CASE CronClaim(c)
    <3>1. cron[c].pc = "claim"
      BY <2>1 DEF CronClaim
    <3>2. Claimed(c) \in Tenants
      BY <1>0, <3>1, SchedulingAssumption DEF Claimed, Tenants
    <3>. QED BY <1>0, <2>1, <3>2 DEF CronClaim
  <2>2. CASE CronReturn(c)
    <3>1. [row EXCEPT !.claim = None, !.lease = 0] \in Tenants
      BY <1>0 DEF Tenants
    <3>. QED BY <1>0, <2>2, <3>1 DEF CronReturn
  <2>. QED BY <1>0, <2>1, <2>2 DEF CronStep, CronRead, CronSend, CronDies
<1>4. queue' \subseteq Messages
  <2>1. CASE CronSend(c)
    <3>1. [run |-> cron[c].run, tries |-> 1] \in Messages
      BY <1>0, <2>1, SchedulingAssumption DEF CronSend, Messages, Tries
    <3>. QED BY <1>0, <2>1, <3>1 DEF CronSend
  <2>. QED BY <1>0, <2>1 DEF CronStep, CronRead, CronClaim, CronReturn, CronDies
<1>5. PICK k \in CronRecords : cron' = [cron EXCEPT ![c] = k] /\ (k.pc # "idle" => k.run \in RunIds)
  <2>1. CASE CronRead(c)
    BY <2>1 DEF CronRead, CronRecords
  <2>2. CASE CronClaim(c)
    <3>1. cron' = [cron EXCEPT ![c] = [cron[c] EXCEPT !.pc = "send"]] \/ cron' = [cron EXCEPT ![c] = IdleCron]
      BY <2>2 DEF CronClaim
    <3>2. cron[c].run \in RunIds /\ cron[c] \in CronRecords
      BY <1>0, <2>2 DEF CronClaim
    <3>3. [cron[c] EXCEPT !.pc = "send"] \in CronRecords /\ [cron[c] EXCEPT !.pc = "send"].run = cron[c].run
      BY <3>2 DEF CronRecords
    <3>4. IdleCron.pc = "idle"
      BY DEF IdleCron
    <3>. QED BY <3>1, <3>2, <3>3, <3>4, IdleTypes
  <2>3. CASE CronSend(c)
    <3>1. cron' = [cron EXCEPT ![c] = [cron[c] EXCEPT !.pc = "return"]] \/ cron' = [cron EXCEPT ![c] = IdleCron]
      BY <2>3 DEF CronSend
    <3>2. cron[c].run \in RunIds /\ cron[c] \in CronRecords
      BY <1>0, <2>3 DEF CronSend
    <3>3. [cron[c] EXCEPT !.pc = "return"] \in CronRecords /\ [cron[c] EXCEPT !.pc = "return"].run = cron[c].run
      BY <3>2 DEF CronRecords
    <3>4. IdleCron.pc = "idle"
      BY DEF IdleCron
    <3>. QED BY <3>1, <3>2, <3>3, <3>4, IdleTypes
  <2>4. CASE CronReturn(c) \/ CronDies(c)
    BY <2>4, IdleTypes DEF CronReturn, CronDies, IdleCron
  <2>. QED BY <2>1, <2>2, <2>3, <2>4 DEF CronStep
<1>6. cron' \in [Crons -> CronRecords] /\ Busy'
  BY <1>0, <1>1, <1>5 DEF TypeInv, Busy
<1>. QED BY <1>0, <1>1, <1>2, <1>3, <1>4, <1>6, TypeParts DEF TypeInv, TypeOK, CronRecords, TaskRecords, StatsRecords

(* What a consumer's step makes of its own state: either it goes idle, or   *)
(* it keeps its message and only its place and its results change.          *)
TaskAfter(d, k) ==
    /\ k \in TaskRecords
    /\ k.pc # "idle" => k.run = task[d].run /\ k.tries = task[d].tries
    /\ k.pc = "idle" => k = IdleTask
    /\ k.pc = "finish" => k.gap <= MaxGap
    /\ k.pc = "call" => k.left = CallTime

LEMMA ConsumerTask ==
    ASSUME TypeInv, NEW d \in Consumers, ConsumerStep(d) \/ ConsumerDies(d)
    PROVE  /\ task[d].pc # "idle" /\ task[d].run \in RunIds /\ task[d] \in TaskRecords
           /\ \E k \in TaskRecords : task' = [task EXCEPT ![d] = k] /\ TaskAfter(d, k)
<1>0. task \in [Consumers -> TaskRecords] /\ task[d] \in TaskRecords
  BY TypeParts DEF TypeInv
<1>1. task[d].pc # "idle"
  BY DEF ConsumerStep, Load, Start, Answer, Record, Finish, ConsumerDies
<1>2. task[d].run \in RunIds
  BY <1>1 DEF TypeInv, Busy
<1>3. TaskAfter(d, IdleTask)
  BY IdleTypes DEF TaskAfter, IdleTask
<1>4. ASSUME NEW q \in {"start", "record"}
      PROVE  TaskAfter(d, [task[d] EXCEPT !.pc = q])
  BY <1>0 DEF TaskAfter, TaskRecords
<1>5. CASE Load(d)
  <2>1. task' = [task EXCEPT ![d] = [task[d] EXCEPT !.pc = "start"]] \/ task' = [task EXCEPT ![d] = IdleTask]
    BY <1>5 DEF Load, Goes, Acks
  <2>. QED BY <1>1, <1>2, <1>0, <1>3, <1>4, <2>1 DEF TaskAfter
<1>6. CASE Start(d)
  <2>. DEFINE k == [task[d] EXCEPT !.pc = "call", !.left = CallTime]
  <2>1. task' = [task EXCEPT ![d] = k] \/ task' = [task EXCEPT ![d] = IdleTask]
    BY <1>6 DEF Start, Acks
  <2>2. k \in TaskRecords
    <3>1. CallTime \in 0 .. CallTime
      BY SchedulingAssumption
    <3>. QED BY <1>0, <3>1 DEF TaskRecords
  <2>3. k.pc = "call" /\ k.left = CallTime /\ k.run = task[d].run /\ k.tries = task[d].tries
    BY <1>0 DEF TaskRecords
  <2>. HIDE DEF k
  <2>. QED BY <1>1, <1>2, <1>0, <1>3, <2>1, <2>2, <2>3 DEF TaskAfter
<1>7. CASE Answer(d)
  <2>1. PICK out \in Outcomes, gap \in 1 .. MaxGap + 1 :
           task' = [task EXCEPT ![d].pc = "record", ![d].left = 0, ![d].out = out,
                                ![d].gap = IF out = "ran" THEN gap ELSE 1]
    BY <1>7 DEF Answer
  <2>. DEFINE g == IF out = "ran" THEN gap ELSE 1
  <2>. DEFINE k == [task[d] EXCEPT !.pc = "record", !.left = 0, !.out = out, !.gap = g]
  <2>2. task' = [task EXCEPT ![d] = k]
    BY <1>0, <2>1
  <2>3. g \in 1 .. MaxGap + 1
    BY SchedulingAssumption
  <2>. HIDE DEF g
  <2>4. k \in TaskRecords
    <3>1. 0 \in 0 .. CallTime
      BY SchedulingAssumption
    <3>. QED BY <1>0, <2>3, <3>1 DEF TaskRecords
  <2>5. k.pc = "record" /\ k.run = task[d].run /\ k.tries = task[d].tries
    BY <1>0 DEF TaskRecords
  <2>. HIDE DEF k
  <2>. QED BY <1>1, <1>2, <1>0, <2>2, <2>4, <2>5 DEF TaskAfter
<1>8. ASSUME BookkeepingFails(d)
      PROVE  \E k \in TaskRecords : task' = [task EXCEPT ![d] = k] /\ TaskAfter(d, k)
  <2>. DEFINE k == [task[d] EXCEPT !.pc = "record", !.waits = task[d].waits + 1]
  <2>1. \/ task[d].waits < Waits /\ task' = [task EXCEPT ![d] = k]
        \/ task' = [task EXCEPT ![d] = IdleTask]
    BY <1>0, <1>8 DEF BookkeepingFails
  <2>2. ASSUME task[d].waits < Waits PROVE k \in TaskRecords
    <3>1. task[d].waits + 1 \in 0 .. Waits
      BY <1>0, <2>2, SchedulingAssumption DEF TaskRecords
    <3>. QED BY <1>0, <3>1 DEF TaskRecords
  <2>3. k.pc = "record" /\ k.run = task[d].run /\ k.tries = task[d].tries
    BY <1>0 DEF TaskRecords
  <2>. HIDE DEF k
  <2>. QED BY <1>3, <2>1, <2>2, <2>3 DEF TaskAfter
<1>9. CASE Record(d)
  <2>. DEFINE next == nextDueAfterRun(d, Recorded(d).streak)
  <2>. DEFINE k == [task[d] EXCEPT !.pc = "finish", !.gap = next]
  <2>1. task' = [task EXCEPT ![d] = k] \/ BookkeepingFails(d)
    BY <1>0, <1>9 DEF Record
  <2>2. next \in 1 .. MaxGap
    BY <1>9, RecordedType DEF Record
  <2>. HIDE DEF next
  <2>3. k \in TaskRecords
    <3>1. next \in 1 .. MaxGap + 1
      BY <2>2, SchedulingAssumption
    <3>. QED BY <1>0, <3>1 DEF TaskRecords
  <2>4. k.pc = "finish" /\ k.run = task[d].run /\ k.tries = task[d].tries /\ k.gap <= MaxGap
    BY <1>0, <2>2 DEF TaskRecords
  <2>. HIDE DEF k
  <2>. QED BY <1>1, <1>2, <1>0, <1>8, <2>1, <2>3, <2>4 DEF TaskAfter
<1>10. CASE Finish(d)
  <2>1. task' = [task EXCEPT ![d] = IdleTask] \/ BookkeepingFails(d)
    BY <1>10 DEF Finish, Acks
  <2>. QED BY <1>1, <1>2, <1>0, <1>3, <1>8, <2>1 DEF TaskAfter
<1>11. CASE ConsumerDies(d)
  BY <1>1, <1>2, <1>0, <1>3, <1>11 DEF ConsumerDies, Acks, TaskAfter
<1>. QED BY <1>5, <1>6, <1>7, <1>9, <1>10, <1>11 DEF ConsumerStep

(* The steps of a consumer keep the types. *)
LEMMA ConsumerTypes ==
    ASSUME TypeInv, NEW d \in Consumers, ConsumerStep(d) \/ ConsumerDies(d)
    PROVE  TypeInv'
<1>0. /\ row \in Tenants /\ stats \in StatsRecords /\ queue \subseteq Messages
      /\ cron \in [Crons -> CronRecords] /\ task \in [Consumers -> TaskRecords] /\ faults \in Nat
  BY TypeParts DEF TypeInv
<1>1. task[d].pc # "idle" /\ task[d].run \in RunIds /\ task[d] \in TaskRecords
  BY ConsumerTask
<1>2. PICK k \in TaskRecords : task' = [task EXCEPT ![d] = k] /\ TaskAfter(d, k)
  BY ConsumerTask
<1>3. faults' \in Nat
  <2>1. Fault \/ UNCHANGED faults
    BY DEF ConsumerStep, Load, Start, Answer, Record, Finish, ConsumerDies
  <2>. QED BY <1>0, <2>1 DEF Fault
<1>4. queue' \subseteq Messages
  BY <1>0, <1>1, RequeuedType DEF ConsumerStep, Load, Start, Answer, Record, Finish, ConsumerDies
<1>5. stats' \in StatsRecords
  BY <1>0, RecordedType DEF ConsumerStep, Load, Start, Answer, Record, Finish, ConsumerDies
<1>6. row' \in Tenants
  <2>1. CASE Start(d)
    <3>1. PICK delay \in 0 .. StartDelay : row' = row \/ row' = Started(d, delay)
      BY <2>1 DEF Start
    <3>2. Token(d) \in Tokens /\ RunLease - delay \in Nat
      BY <1>1, SchedulingAssumption DEF Token, Tokens, TaskRecords
    <3>. QED BY <1>0, <3>1, <3>2 DEF Started, Tenants
  <2>2. CASE Finish(d)
    <3>1. task[d].gap \in 0 .. MaxGap
      BY <1>1, <2>2, SchedulingAssumption DEF Finish, TypeInv, Busy, TaskRecords
    <3>2. [row EXCEPT !.next = task[d].gap, !.claim = None, !.running = None, !.lease = 0] \in Tenants
      BY <1>0, <3>1 DEF Tenants
    <3>. QED BY <1>0, <2>2, <3>2 DEF Finish, Finished
  <2>. QED BY <1>0, <2>1, <2>2 DEF ConsumerStep, Load, Answer, Record, ConsumerDies
<1>7. cron' \in [Crons -> CronRecords] /\ \A c \in Crons : cron'[c].pc = cron[c].pc /\ cron'[c].run = cron[c].run
  <2>1. CASE Finish(d)
    <3>1. ASSUME NEW c \in Crons
          PROVE  /\ [cron[c] EXCEPT !.same = FALSE] \in CronRecords
                 /\ [cron[c] EXCEPT !.same = FALSE].pc = cron[c].pc
                 /\ [cron[c] EXCEPT !.same = FALSE].run = cron[c].run
      BY <1>0 DEF CronRecords
    <3>2. cron' = cron \/ cron' = [c \in Crons |-> [cron[c] EXCEPT !.same = FALSE]]
      BY <2>1 DEF Finish, Finished
    <3>. QED BY <1>0, <3>1, <3>2
  <2>. QED BY <1>0, <2>1 DEF ConsumerStep, Load, Start, Answer, Record, ConsumerDies
<1>8. task' \in [Consumers -> TaskRecords]
  BY <1>0, <1>2
<1>9. Busy'
  BY <1>0, <1>1, <1>2, <1>7 DEF TypeInv, Busy, TaskAfter
<1>. QED BY <1>3, <1>4, <1>5, <1>6, <1>7, <1>8, <1>9, TypeParts DEF TypeInv, TypeOK, CronRecords, TaskRecords, StatsRecords

(* So do the queue, the environment and time. *)
LEMMA OtherTypes ==
    ASSUME TypeInv,
           \/ \E d \in Consumers, m \in queue : Deliver(d, m)
           \/ \E m \in queue : LoseMessage(m)
           \/ Suspend \/ Pass
    PROVE  TypeInv'
<1>0. /\ row \in Tenants /\ stats \in StatsRecords /\ queue \subseteq Messages
      /\ cron \in [Crons -> CronRecords] /\ task \in [Consumers -> TaskRecords] /\ faults \in Nat
  BY TypeParts DEF TypeInv
<1>1. ASSUME NEW d \in Consumers, NEW m \in queue, Deliver(d, m) PROVE TypeInv'
  <2>. DEFINE k == [IdleTask EXCEPT !.pc = "load", !.run = m.run, !.tries = m.tries]
  <2>1. k \in TaskRecords /\ k.pc = "load" /\ k.run \in RunIds
    <3>1. m.run \in RunIds /\ m.tries \in Tries
      BY <1>0 DEF Messages
    <3>. QED BY <3>1, IdleTypes DEF TaskRecords
  <2>2. task' = [task EXCEPT ![d] = k] /\ UNCHANGED <<row, stats, cron>>
    BY <1>1 DEF Deliver
  <2>3. queue' \subseteq Messages /\ faults' \in Nat
    <3>1. Fault \/ UNCHANGED faults
      BY <1>1 DEF Deliver
    <3>2. queue' \subseteq queue
      BY <1>1 DEF Deliver
    <3>. QED BY <1>0, <3>1, <3>2 DEF Fault
  <2>. HIDE DEF k
  <2>4. task' \in [Consumers -> TaskRecords] /\ Busy'
    BY <1>0, <2>1, <2>2 DEF TypeInv, Busy
  <2>. QED BY <1>0, <2>2, <2>3, <2>4, TypeParts DEF TypeInv, TypeOK, CronRecords, TaskRecords, StatsRecords
<1>2. ASSUME NEW m \in queue, LoseMessage(m) PROVE TypeInv'
  <2>1. queue' \subseteq Messages /\ faults' \in Nat /\ UNCHANGED <<row, stats, cron, task>>
    BY <1>0, <1>2 DEF LoseMessage, Fault
  <2>2. Busy'
    BY <2>1 DEF TypeInv, Busy
  <2>. QED BY <1>0, <2>1, <2>2, TypeParts DEF TypeInv, TypeOK, CronRecords, TaskRecords, StatsRecords
<1>3. CASE Suspend
  <2>1. [row EXCEPT !.ok = ~row.ok] \in Tenants
    BY <1>0 DEF Tenants
  <2>2. row' \in Tenants /\ UNCHANGED <<stats, queue, cron, task, faults>>
    BY <1>3, <2>1 DEF Suspend
  <2>3. Busy'
    BY <2>2 DEF TypeInv, Busy
  <2>. QED BY <1>0, <2>2, <2>3, TypeParts DEF TypeInv, TypeOK, CronRecords, TaskRecords, StatsRecords
<1>4. CASE Pass
  <2>1. row' \in Tenants
    <3>1. row.next \in 0 .. MaxGap /\ row.lease \in Nat
      BY <1>0 DEF Tenants
    <3>2. (IF row.next = 0 THEN 0 ELSE row.next - 1) \in 0 .. MaxGap /\ (IF row.lease = 0 THEN 0 ELSE row.lease - 1) \in Nat
      BY <3>1, SchedulingAssumption
    <3>. QED BY <1>0, <1>4, <3>2 DEF Pass, Tenants
  <2>2. ASSUME NEW d \in Consumers
        PROVE  /\ task'[d] \in TaskRecords /\ task'[d].pc = task[d].pc /\ task'[d].run = task[d].run
               /\ task'[d].gap = task[d].gap
    <3>. DEFINE n == IF task[d].left = 0 THEN 0 ELSE task[d].left - 1
    <3>1. task[d] \in TaskRecords
      BY <1>0
    <3>2. n \in 0 .. CallTime
      BY <3>1, SchedulingAssumption DEF TaskRecords
    <3>3. task'[d] = [task[d] EXCEPT !.left = n]
      BY <1>4 DEF Pass
    <3>. HIDE DEF n
    <3>. QED BY <3>1, <3>2, <3>3 DEF TaskRecords
  <2>3. task' \in [Consumers -> TaskRecords]
    BY <1>4, <2>2 DEF Pass
  <2>4. Busy' /\ UNCHANGED <<stats, queue, cron, faults>>
    BY <1>4, <2>2 DEF Pass, TypeInv, Busy
  <2>. QED BY <1>0, <2>1, <2>3, <2>4, TypeParts DEF TypeInv, TypeOK, CronRecords, TaskRecords, StatsRecords
<1>. QED BY <1>1, <1>2, <1>3, <1>4

LEMMA TypesKept == TypeInv /\ [Next]_vars => TypeInv'
<1>1. TypeInv /\ Next => TypeInv'
  BY CronTypes, ConsumerTypes, OtherTypes DEF Next
<1>2. TypeInv /\ UNCHANGED vars => TypeInv'
  BY DEF vars, TypeInv, TypeOK, Busy
<1>. QED BY <1>1, <1>2

(* Every value stays in its range: above all, no run leaves the tenant      *)
(* without a due time within the longest gap, whatever the tenant asked for *)
(* (nextDueAfterRun's cap).                                                 *)
THEOREM TypeCorrect == Spec => []TypeOK
<1>1. TypeInv => TypeOK
  BY DEF TypeInv
<1>. QED BY <1>1, TypeInit, TypesKept, PTL DEF Spec

-----------------------------------------------------------------------------
(* Calls exclude each other. *)

HonestQueue == AtLeastOnce = FALSE

TaskWorks(d) == task[d].pc # "idle"
CronWorks(c) == cron[c].pc # "idle"

\* One cron, one message or one consumer holds a run.
OneHolder ==
    /\ \A d, e \in Consumers : TaskWorks(d) /\ TaskWorks(e) /\ task[d].run = task[e].run => d = e
    /\ \A d \in Consumers, m \in queue : TaskWorks(d) => task[d].run # m.run
    /\ \A m, n \in queue : m.run = n.run => m = n
    /\ \A c, b \in Crons : CronWorks(c) /\ CronWorks(b) /\ cron[c].run = cron[b].run => c = b
    /\ \A c \in Crons, m \in queue : CronWorks(c) => cron[c].run # m.run
    /\ \A c \in Crons, d \in Consumers : CronWorks(c) /\ TaskWorks(d) => cron[c].run # task[d].run

\* The row names the run of a call that is open, for longer than the call may last.
CallerOwnsRow ==
    \A d \in Consumers : task[d].pc = "call" => row.claim = task[d].run /\ row.lease > task[d].left

IInv == TypeInv /\ OneHolder /\ CallerOwnsRow

(* How a step moves the runs about. *)
LEMMA ConsumerMoves ==
    ASSUME TypeInv, NEW d \in Consumers, ConsumerStep(d) \/ ConsumerDies(d)
    PROVE  /\ TaskWorks(d)
           /\ \A e \in Consumers \ {d} : task'[e] = task[e]
           /\ TaskWorks(d)' => task'[d].run = task[d].run
           /\ \A c \in Crons : cron'[c].pc = cron[c].pc /\ cron'[c].run = cron[c].run
           /\ \/ queue' = queue
              \/ ~TaskWorks(d)' /\ \E m \in Messages : m.run = task[d].run /\ queue' = queue \cup {m}
<1>0. task \in [Consumers -> TaskRecords] /\ cron \in [Crons -> CronRecords]
  BY TypeParts DEF TypeInv
<1>1. PICK k \in TaskRecords : task' = [task EXCEPT ![d] = k] /\ TaskAfter(d, k)
  BY ConsumerTask
<1>2. TaskWorks(d) /\ task[d].run \in RunIds /\ task[d] \in TaskRecords
  BY ConsumerTask DEF TaskWorks
<1>3. /\ \A e \in Consumers \ {d} : task'[e] = task[e]
      /\ TaskWorks(d)' => task'[d].run = task[d].run
  BY <1>0, <1>1 DEF TaskAfter, TaskWorks
<1>4. \A c \in Crons : cron'[c].pc = cron[c].pc /\ cron'[c].run = cron[c].run
  <2>1. CASE Finish(d)
    <3>1. \A c \in Crons : [cron[c] EXCEPT !.same = FALSE].pc = cron[c].pc
                            /\ [cron[c] EXCEPT !.same = FALSE].run = cron[c].run
      BY <1>0 DEF CronRecords
    <3>. QED BY <2>1, <3>1 DEF Finish, Finished
  <2>. QED BY <2>1 DEF ConsumerStep, Load, Start, Answer, Record, ConsumerDies
<1>5. \/ queue' = queue
      \/ queue' = Requeued(d) /\ task' = [task EXCEPT ![d] = IdleTask]
  BY DEF ConsumerStep, Load, Start, Answer, Record, Finish, ConsumerDies, Acks
<1>6. \/ Requeued(d) = queue
      \/ \E m \in Messages : m.run = task[d].run /\ Requeued(d) = queue \cup {m}
  <2>. DEFINE m == [run |-> task[d].run, tries |-> task[d].tries + 1]
  <2>1. task[d].tries < MaxTries => m \in Messages /\ m.run = task[d].run
    BY <1>2, SchedulingAssumption DEF Messages, Tries, TaskRecords
  <2>. QED BY <2>1 DEF Requeued
<1>7. task' = [task EXCEPT ![d] = IdleTask] => ~TaskWorks(d)'
  BY <1>0 DEF TaskWorks, IdleTask
<1>. QED BY <1>2, <1>3, <1>4, <1>5, <1>6, <1>7

LEMMA CronMoves ==
    ASSUME TypeInv, HonestQueue, NEW c \in Crons, CronStep(c) \/ CronDies(c)
    PROVE  /\ task' = task
           /\ \A b \in Crons \ {c} : cron'[b] = cron[b]
           /\ \/ queue' = queue /\ CronWorks(c) /\ (CronWorks(c)' => cron'[c].run = cron[c].run)
              \/ queue' = queue /\ cron'[c].run \notin Named
              \/ /\ CronWorks(c) /\ ~CronWorks(c)'
                 /\ \E m \in Messages : m.run = cron[c].run /\ queue' = queue \cup {m}
<1>0. cron \in [Crons -> CronRecords]
  BY TypeParts DEF TypeInv
<1>1. task' = task /\ \A b \in Crons \ {c} : cron'[b] = cron[b]
  BY <1>0 DEF CronStep, CronRead, CronClaim, CronSend, CronReturn, CronDies
<1>2. CASE CronRead(c)
  <2>1. queue' = queue /\ cron'[c].run \notin Named
    BY <1>0, <1>2 DEF CronRead
  <2>. QED BY <1>1, <2>1
<1>3. CASE CronClaim(c) \/ CronReturn(c) \/ CronDies(c)
  <2>1. /\ queue' = queue /\ CronWorks(c)
        /\ cron' = [cron EXCEPT ![c] = IdleCron] \/ cron' = [cron EXCEPT ![c].pc = "send"]
    BY <1>3 DEF CronClaim, CronReturn, CronDies, CronWorks
  <2>2. CronWorks(c)' => cron'[c].run = cron[c].run
    BY <1>0, <2>1 DEF CronWorks, IdleCron, CronRecords
  <2>. QED BY <1>1, <2>1, <2>2
<1>4. CASE CronSend(c)
  <2>. DEFINE m == [run |-> cron[c].run, tries |-> 1]
  <2>1. CronWorks(c)
    BY <1>4 DEF CronSend, CronWorks
  <2>2. m \in Messages /\ m.run = cron[c].run
    BY <2>1, SchedulingAssumption DEF TypeInv, Busy, CronWorks, Messages, Tries
  <2>3. \/ queue' = queue \cup {m} /\ cron' = [cron EXCEPT ![c] = IdleCron]
        \/ queue' = queue /\ cron' = [cron EXCEPT ![c].pc = "return"]
    BY <1>4 DEF CronSend, HonestQueue
  <2>4. CASE cron' = [cron EXCEPT ![c] = IdleCron]
    <3>1. ~CronWorks(c)'
      BY <1>0, <2>4 DEF CronWorks, IdleCron
    <3>. QED BY <1>1, <2>1, <2>2, <2>3, <3>1
  <2>5. CASE queue' = queue /\ cron' = [cron EXCEPT ![c].pc = "return"]
    <3>1. cron'[c].run = cron[c].run
      BY <1>0, <2>5 DEF CronRecords
    <3>. QED BY <1>1, <2>1, <2>5, <3>1
  <2>. QED BY <2>3, <2>4, <2>5
<1>. QED BY <1>2, <1>3, <1>4 DEF CronStep

LEMMA OneHolderKept ==
    ASSUME TypeInv, OneHolder, HonestQueue, Next
    PROVE  OneHolder'
<1>1. ASSUME NEW c \in Crons, CronStep(c) \/ CronDies(c) PROVE OneHolder'
  <2>1. task' = task /\ \A b \in Crons \ {c} : cron'[b] = cron[b]
    BY <1>1, CronMoves
  <2>2. CASE queue' = queue /\ CronWorks(c) /\ (CronWorks(c)' => cron'[c].run = cron[c].run)
    BY <2>1, <2>2 DEF OneHolder, TaskWorks, CronWorks
  <2>3. CASE queue' = queue /\ cron'[c].run \notin Named
    <3>1. /\ \A b \in Crons : cron'[c].run # cron[b].run
          /\ \A d \in Consumers : cron'[c].run # task[d].run
          /\ \A m \in queue : cron'[c].run # m.run
      BY <2>3 DEF Named
    <3>. QED BY <2>1, <2>3, <3>1 DEF OneHolder, TaskWorks, CronWorks
  <2>4. ASSUME CronWorks(c), ~CronWorks(c)', NEW m \in Messages, m.run = cron[c].run, queue' = queue \cup {m}
        PROVE  OneHolder'
    BY <2>1, <2>4 DEF OneHolder, TaskWorks, CronWorks
  <2>. QED BY <1>1, <2>2, <2>3, <2>4, CronMoves
<1>2. ASSUME NEW d \in Consumers, ConsumerStep(d) \/ ConsumerDies(d) PROVE OneHolder'
  <2>1. /\ TaskWorks(d)
        /\ \A e \in Consumers \ {d} : task'[e] = task[e]
        /\ TaskWorks(d)' => task'[d].run = task[d].run
        /\ \A c \in Crons : cron'[c].pc = cron[c].pc /\ cron'[c].run = cron[c].run
    BY <1>2, ConsumerMoves
  <2>2. CASE queue' = queue
    BY <2>1, <2>2 DEF OneHolder, TaskWorks, CronWorks
  <2>3. ASSUME ~TaskWorks(d)', NEW m \in Messages, m.run = task[d].run, queue' = queue \cup {m}
        PROVE  OneHolder'
    BY <2>1, <2>3 DEF OneHolder, TaskWorks, CronWorks
  <2>. QED BY <1>2, <2>2, <2>3, ConsumerMoves
<1>3. ASSUME NEW d \in Consumers, NEW m \in queue, Deliver(d, m) PROVE OneHolder'
  <2>1. task \in [Consumers -> TaskRecords]
    BY TypeParts DEF TypeInv
  <2>2. /\ queue' = queue \ {m} /\ cron' = cron
        /\ task' = [task EXCEPT ![d] = [IdleTask EXCEPT !.pc = "load", !.run = m.run, !.tries = m.tries]]
    BY <1>3 DEF Deliver, HonestQueue
  <2>3. task'[d].run = m.run /\ \A e \in Consumers \ {d} : task'[e] = task[e]
    BY <2>1, <2>2 DEF IdleTask
  <2>. QED BY <2>2, <2>3 DEF OneHolder, TaskWorks, CronWorks
<1>4. ASSUME NEW m \in queue, LoseMessage(m) PROVE OneHolder'
  BY <1>4 DEF LoseMessage, OneHolder, TaskWorks, CronWorks
<1>5. CASE Suspend
  BY <1>5 DEF Suspend, OneHolder, TaskWorks, CronWorks
<1>6. CASE Pass
  <2>1. \A d \in Consumers : task'[d].pc = task[d].pc /\ task'[d].run = task[d].run
    <3>1. \A d \in Consumers : task[d] \in TaskRecords
      BY TypeParts DEF TypeInv
    <3>2. ASSUME NEW d \in Consumers
          PROVE  task'[d] = [task[d] EXCEPT !.left = IF task[d].left = 0 THEN 0 ELSE task[d].left - 1]
      BY <1>6 DEF Pass
    <3>. QED BY <3>1, <3>2 DEF TaskRecords
  <2>2. UNCHANGED <<queue, cron>>
    BY <1>6 DEF Pass
  <2>. QED BY <2>1, <2>2 DEF OneHolder, TaskWorks, CronWorks
<1>. QED BY <1>1, <1>2, <1>3, <1>4, <1>5, <1>6 DEF Next

(* A claim, a claim given back and a finish of another run leave the row of *)
(* a caller alone; its own start takes a lease that is longer than the call. *)
LEMMA CallerKept ==
    ASSUME TypeInv, OneHolder, CallerOwnsRow, HonestQueue, Next
    PROVE  /\ CallerOwnsRow'
           /\ \A d \in Consumers : task[d].pc = "call" /\ task'[d].pc = "call" => task'[d].run = task[d].run
<1>0. /\ task \in [Consumers -> TaskRecords] /\ cron \in [Crons -> CronRecords] /\ row \in Tenants
      /\ \A d \in Consumers : task[d].pc = "call" => task[d].run \in RunIds /\ task[d].left \in Nat
  BY TypeParts, SchedulingAssumption DEF TypeInv, Busy, TaskRecords
<1>1. ASSUME NEW c \in Crons, CronStep(c) \/ CronDies(c)
      PROVE  task' = task /\ \A d \in Consumers : task[d].pc = "call" => row' = row
  <2>1. task' = task
    BY <1>1, CronMoves
  <2>2. ASSUME NEW d \in Consumers, task[d].pc = "call" PROVE row' = row
    <3>1. row.claim = task[d].run /\ row.lease # 0
      BY <1>0, <2>2 DEF CallerOwnsRow, Tenants
    <3>2. CASE CronClaim(c)
      BY <3>1, <3>2 DEF CronClaim, Claims
    <3>3. CASE CronReturn(c)
      <4>1. cron[c].run # task[d].run
        BY <2>2, <3>3 DEF OneHolder, CronReturn, CronWorks, TaskWorks
      <4>. QED BY <3>1, <3>3, <4>1 DEF CronReturn
    <3>. QED BY <1>1, <3>2, <3>3 DEF CronStep, CronRead, CronSend, CronDies
  <2>. QED BY <2>1, <2>2
<1>2. ASSUME NEW d \in Consumers, ConsumerStep(d) \/ ConsumerDies(d)
      PROVE  /\ CallerOwnsRow'
             /\ task[d].pc = "call" => task'[d].pc # "call"
             /\ \A e \in Consumers \ {d} : task'[e] = task[e]
  <2>1. TaskWorks(d) /\ \A e \in Consumers \ {d} : task'[e] = task[e]
    BY <1>2, ConsumerMoves
  <2>2. ASSUME NEW e \in Consumers \ {d}, task[e].pc = "call" PROVE row' = row
    <3>1. row.claim = task[e].run /\ task[d].run # task[e].run
      BY <2>1, <2>2 DEF CallerOwnsRow, OneHolder, TaskWorks
    <3>2. CASE Start(d)
      BY <3>1, <3>2 DEF Start, Starts
    <3>3. CASE Finish(d)
      BY <3>1, <3>3 DEF Finish, Finished, Finishes
    <3>. QED BY <1>2, <3>2, <3>3 DEF ConsumerStep, Load, Answer, Record, ConsumerDies
  <2>3. ASSUME task'[d].pc = "call"
        PROVE  task[d].pc # "call" /\ row'.claim = task'[d].run /\ row'.lease > task'[d].left
    <3>1. Start(d)
      <4>1. IdleTask.pc = "idle"
        BY DEF IdleTask
      <4>2. ~Acks(d) /\ ~Goes(d, "start")
        BY <1>0, <2>3, <4>1 DEF Acks, Goes, TaskRecords
      <4>3. ~BookkeepingFails(d)
        BY <1>0, <2>3, <4>1 DEF BookkeepingFails, TaskRecords
      <4>4. ~Answer(d)
        <5>. SUFFICES ASSUME Answer(d) PROVE FALSE
          OBVIOUS
        <5>1. PICK out \in Outcomes, gap \in 1 .. MaxGap + 1 :
                 task' = [task EXCEPT ![d].pc = "record", ![d].left = 0, ![d].out = out,
                                      ![d].gap = IF out = "ran" THEN gap ELSE 1]
          BY DEF Answer
        <5>. DEFINE g == IF out = "ran" THEN gap ELSE 1
        <5>2. task'[d] = [task[d] EXCEPT !.pc = "record", !.left = 0, !.out = out, !.gap = g]
          BY <1>0, <5>1
        <5>. HIDE DEF g
        <5>3. task[d] \in TaskRecords
          BY <1>0
        <5>. QED BY <2>3, <5>2, <5>3 DEF TaskRecords
      <4>5. ~Record(d)
        BY <1>0, <2>3, <4>3 DEF Record, TaskRecords
      <4>. QED BY <1>2, <4>2, <4>3, <4>4, <4>5 DEF ConsumerStep, Load, Finish, ConsumerDies
    <3>2. PICK delay \in 0 .. StartDelay :
             \/ /\ row' = IF Starts(d) THEN Started(d, delay) ELSE row
                /\ IF Starts(d) THEN task' = [task EXCEPT ![d].pc = "call", ![d].left = CallTime] ELSE Acks(d)
             \/ Acks(d)
      BY <3>1 DEF Start
    <3>3. ~Acks(d)
      BY <1>0, <2>3 DEF Acks, IdleTask
    <3>4. Starts(d) /\ row' = Started(d, delay) /\ task' = [task EXCEPT ![d].pc = "call", ![d].left = CallTime]
      BY <3>2, <3>3
    <3>5. task'[d].left = CallTime /\ task'[d].run = task[d].run
      BY <1>0, <3>4 DEF TaskRecords
    <3>6. row'.claim = task[d].run /\ row'.lease = RunLease - delay
      BY <1>0, <3>4 DEF Starts, Started, Tenants
    <3>. QED BY <3>1, <3>5, <3>6, SchedulingAssumption DEF Start
  <2>. QED BY <2>1, <2>2, <2>3 DEF CallerOwnsRow
<1>3. ASSUME NEW d \in Consumers, NEW m \in queue, Deliver(d, m)
      PROVE  row' = row /\ \A e \in Consumers : task'[e].pc = "call" => task'[e] = task[e]
  <2>1. task' = [task EXCEPT ![d] = [IdleTask EXCEPT !.pc = "load", !.run = m.run, !.tries = m.tries]] /\ row' = row
    BY <1>3 DEF Deliver
  <2>2. [IdleTask EXCEPT !.pc = "load", !.run = m.run, !.tries = m.tries].pc = "load"
    BY DEF IdleTask
  <2>. QED BY <1>0, <2>1, <2>2
<1>4. ASSUME NEW m \in queue, LoseMessage(m) PROVE UNCHANGED <<row, task>>
  BY <1>4 DEF LoseMessage
<1>5. ASSUME Suspend PROVE task' = task /\ row'.claim = row.claim /\ row'.lease = row.lease
  BY <1>0, <1>5 DEF Suspend, Tenants
<1>6. CASE Pass
  <2>1. row'.claim = row.claim /\ row'.lease = IF row.lease = 0 THEN 0 ELSE row.lease - 1
    BY <1>0, <1>6 DEF Pass, Tenants
  <2>2. ASSUME NEW d \in Consumers
        PROVE  /\ task'[d].pc = task[d].pc /\ task'[d].run = task[d].run
               /\ task'[d].left = IF task[d].left = 0 THEN 0 ELSE task[d].left - 1
    <3>1. task'[d] = [task[d] EXCEPT !.left = IF task[d].left = 0 THEN 0 ELSE task[d].left - 1]
      BY <1>6 DEF Pass
    <3>. QED BY <1>0, <3>1 DEF TaskRecords
  <2>3. \A d \in Consumers : task[d].pc = "call" => task[d].left > 0
    BY <1>6 DEF Pass
  <2>4. row.lease \in Nat
    BY <1>0 DEF Tenants
  <2>5. CallerOwnsRow'
    BY <1>0, <2>1, <2>2, <2>3, <2>4 DEF CallerOwnsRow
  <2>. QED BY <2>2, <2>5
<1>7. ASSUME \/ \E c \in Crons : CronStep(c) \/ CronDies(c)
             \/ \E d \in Consumers, m \in queue : Deliver(d, m)
             \/ \E m \in queue : LoseMessage(m)
             \/ Suspend
      PROVE  /\ CallerOwnsRow'
             /\ \A d \in Consumers : task'[d].pc = "call" => task'[d] = task[d]
  BY <1>1, <1>3, <1>4, <1>5, <1>7 DEF CallerOwnsRow
<1>. QED BY <1>2, <1>6, <1>7 DEF Next

LEMMA IInvInit == Init => IInv
<1>. SUFFICES ASSUME Init PROVE OneHolder /\ CallerOwnsRow
  BY TypeInit DEF IInv
<1>1. \A c \in Crons : ~CronWorks(c)
  BY DEF Init, CronWorks, IdleCron
<1>2. queue = {} /\ \A d \in Consumers : task[d].pc = "idle"
  BY DEF Init, IdleTask
<1>. QED BY <1>1, <1>2 DEF OneHolder, CallerOwnsRow, TaskWorks

LEMMA IInvKept ==
    ASSUME HonestQueue
    PROVE  IInv /\ [Next]_vars => IInv'
<1>1. IInv /\ Next => OneHolder' /\ CallerOwnsRow'
  BY OneHolderKept, CallerKept DEF IInv
<1>2. IInv /\ UNCHANGED vars => OneHolder' /\ CallerOwnsRow'
  BY DEF IInv, vars, OneHolder, CallerOwnsRow, TaskWorks, CronWorks
<1>. QED BY <1>1, <1>2, TypesKept DEF IInv

(* "Never two runs of one tenant at once" (the header of scheduling.ts), as *)
(* long as the queue delivers a message once and refuses what it says it    *)
(* refused: with any number of crons, consumers, crashes, failed round      *)
(* trips and lost messages.                                                 *)
THEOREM CallsExcludeEachOther ==
    ASSUME HonestQueue
    PROVE  Spec => []OneCallAtATime
<1>1. IInv => OneCallAtATime
  BY DEF IInv, OneHolder, CallerOwnsRow, OneCallAtATime, TaskWorks
<1>. QED BY <1>1, IInvInit, IInvKept, PTL DEF Spec

(* A cron that claims, gives a claim back or is late, and the bookkeeping   *)
(* of an earlier run, never free a tenant that is being called, under the   *)
(* same assumption.                                                         *)
THEOREM CallsKeepTheirClaim ==
    ASSUME HonestQueue
    PROVE  Spec => ClaimOutlastsCall
<1>1. IInv /\ IInv' /\ [Next]_vars
      => [\A d \in Consumers : task[d].pc = "call" /\ task'[d].pc = "call"
                               => row'.claim = task[d].run /\ row'.lease > 0]_vars
  <2>. SUFFICES ASSUME IInv, IInv', Next, NEW d \in Consumers, task[d].pc = "call", task'[d].pc = "call"
                PROVE  row'.claim = task[d].run /\ row'.lease > 0
    BY DEF vars
  <2>1. task'[d].run = task[d].run
    BY CallerKept DEF IInv
  <2>2. row'.claim = task'[d].run /\ row'.lease > task'[d].left
    BY DEF IInv, CallerOwnsRow
  <2>3. task'[d] \in TaskRecords /\ row' \in Tenants
    BY DEF IInv, TypeInv, TypeOK, TaskRecords
  <2>4. task'[d].left \in Nat /\ row'.lease \in Nat
    BY <2>3, SchedulingAssumption DEF TaskRecords, Tenants
  <2>. QED BY <2>1, <2>2, <2>4
<1>. QED BY <1>1, IInvInit, IInvKept, PTL DEF Spec, ClaimOutlastsCall
=============================================================================
