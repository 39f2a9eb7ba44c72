---------------------------- MODULE PlatformProofs -----------------------------
(***************************************************************************)
(* Proofs about Lifecycle, for any number of suspensions and of runs of the *)
(* jobs, also of runs that work side by side: a tenant is only deleted when *)
(* it may be, and behind an export.  Then what is proved of the platform's  *)
(* parts, here and in the modules this one extends, of all of them together. *)
(*                                                                         *)
(* A run decides in steps, and the customer acts between them: the          *)
(* invariant says what each step of a run may still rely on of what the     *)
(* steps before it saw.                                                     *)
(***************************************************************************)
EXTENDS MCPlatform, ProvisioningProofs, BillingProofs, ReleasesProofs, TLAPS

TickRecords ==
    [pc : {"idle", "warn", "due", "trust", "mark", "leave", "leaveTrust", "leaveMark", "over"},
     cycle : 0 .. MaxCycles, needs : BOOLEAN]
Customers == [suspended : BOOLEAN, cycle : 0 .. MaxCycles, ready : BOOLEAN, deleting : BOOLEAN, leaving : BOOLEAN]
Dumps == [state : {"none", "open", "done", "failed"}, cycle : 0 .. MaxCycles, leaving : BOOLEAN, whole : BOOLEAN]

\* An export that reads back whole is in the bucket.
DumpOK ==
    dump.whole => dump.cycle \in bucket.cycles /\ (dump.leaving => bucket.leaving)

\* A run found the suspension due, and it still is unless it is over; then its export.
DueOK(t) ==
    tick[t].pc \in {"trust", "mark"} =>
        /\ tick[t].cycle \in warned /\ tick[t].cycle <= customer.cycle
        /\ customer.cycle = tick[t].cycle => days.month /\ days.week
TrustedOK(t) == tick[t].pc = "mark" => \E c \in bucket.cycles : c >= tick[t].cycle

\* The same for an account that leaves.
LeaverOK(t) ==
    /\ tick[t].pc \in {"leaveTrust", "leaveMark"} => customer.leaving
    /\ tick[t].pc = "leaveMark" /\ tick[t].needs => bucket.leaving

SuspensionNumbered == customer.suspended => customer.cycle # 0

LifeInv ==
    /\ LifeTypeOK /\ DumpOK /\ SuspensionNumbered
    /\ \A t \in Ticks : DueOK(t) /\ TrustedOK(t) /\ LeaverOK(t)

LEMMA LifeInitOK == LifeInit => LifeInv
<1>. SUFFICES ASSUME LifeInit PROVE LifeInv
  OBVIOUS
<1>1. LifeTypeOK
  BY LifecycleAssumption DEF LifeInit, LifeTypeOK, NoDump, Resting, Cycles
<1>2. DumpOK /\ SuspensionNumbered /\ \A t \in Ticks : DueOK(t) /\ TrustedOK(t) /\ LeaverOK(t)
  BY DEF LifeInit, DumpOK, SuspensionNumbered, DueOK, TrustedOK, LeaverOK, NoDump, Resting
<1>. QED BY <1>1, <1>2 DEF LifeInv

\* What the types say, one variable at a time.
LEMMA LifeParts ==
    ASSUME LifeInv
    PROVE  /\ customer \in Customers /\ days \in [month : BOOLEAN, week : BOOLEAN]
           /\ warned \in SUBSET Cycles /\ dump \in Dumps
           /\ bucket \in [cycles : SUBSET (0 .. MaxCycles), leaving : BOOLEAN]
           /\ tickLock \in [holder : Ticks \cup {NoTick}, over : BOOLEAN]
           /\ tick \in [Ticks -> TickRecords]
BY DEF LifeInv, LifeTypeOK, Customers, Dumps, TickRecords

\* A step that leaves a run where it is leaves what it relies on.
LEMMA RunKeeps ==
    ASSUME LifeInv, NEW t \in Ticks, tick'[t] = tick[t],
           warned \subseteq warned', bucket.cycles \subseteq bucket'.cycles,
           bucket.leaving => bucket'.leaving, customer.leaving => customer'.leaving,
           customer'.cycle \in Nat, customer'.cycle >= customer.cycle,
           customer'.cycle = customer.cycle =>
               (days.month => days'.month) /\ (days.week => days'.week)
    PROVE  (DueOK(t) /\ TrustedOK(t) /\ LeaverOK(t))'
<1>1. customer.cycle \in Nat /\ tick[t].cycle \in Nat
  BY LifeParts, LifecycleAssumption DEF Customers, TickRecords
<1>2. DueOK(t) /\ TrustedOK(t) /\ LeaverOK(t)
  BY DEF LifeInv
<1>3. DueOK(t)'
  BY <1>1, <1>2 DEF DueOK
<1>4. TrustedOK(t)' /\ LeaverOK(t)'
  BY <1>2 DEF TrustedOK, LeaverOK
<1>. QED BY <1>3, <1>4

\* A step of one run that goes to a place where nothing is relied on.
LEMMA TickMoves ==
    ASSUME LifeInv, NEW t \in Ticks,
           \E new \in TickRecords : tick' = [tick EXCEPT ![t] = new] /\ new.pc \in {"idle", "warn", "due", "leave", "over"},
           warned \subseteq warned', UNCHANGED <<bucket, days>>,
           customer.leaving => customer'.leaving, customer'.cycle = customer.cycle
    PROVE  tick' \in [Ticks -> TickRecords] /\ \A s \in Ticks : (DueOK(s) /\ TrustedOK(s) /\ LeaverOK(s))'
<1>0. PICK new \in TickRecords : tick' = [tick EXCEPT ![t] = new] /\ new.pc \in {"idle", "warn", "due", "leave", "over"}
  OBVIOUS
<1>1. tick' \in [Ticks -> TickRecords] /\ tick'[t] = new /\ \A s \in Ticks \ {t} : tick'[s] = tick[s]
  BY <1>0, LifeParts
<1>2. customer.cycle \in Nat
  BY LifeParts, LifecycleAssumption DEF Customers
<1>3. \A s \in Ticks \ {t} : (DueOK(s) /\ TrustedOK(s) /\ LeaverOK(s))'
  BY <1>1, <1>2, RunKeeps
<1>4. (DueOK(t) /\ TrustedOK(t) /\ LeaverOK(t))'
  BY <1>0, <1>1 DEF DueOK, TrustedOK, LeaverOK
<1>. QED BY <1>1, <1>3, <1>4

\* The customer, billing, time and the exports leave the runs as they are.
LEMMA WorldSteps ==
    ASSUME LifeInv,
           BecomesReady \/ Suspends \/ PaysAgain \/ Leaves \/ DaysPass \/ Exports \/ TickLockPasses
    PROVE  LifeInv'
<1>. USE LifeParts
<1>1. UNCHANGED <<tick, warned>>
  BY DEF BecomesReady, Suspends, PaysAgain, Leaves, DaysPass, Exports, TickLockPasses
<1>2. /\ customer' \in Customers /\ customer'.cycle \in Nat /\ customer'.cycle >= customer.cycle
      /\ (customer.leaving => customer'.leaving) /\ SuspensionNumbered'
  <2>0. SuspensionNumbered
    BY DEF LifeInv
  <2>1. customer.cycle \in 0 .. MaxCycles
    BY DEF Customers
  <2>2. CASE Suspends
    <3>1. customer.cycle + 1 \in 0 .. MaxCycles
      BY <2>1, <2>2, LifecycleAssumption DEF Suspends
    <3>2. customer' = [customer EXCEPT !.suspended = TRUE, !.cycle = customer.cycle + 1]
      BY <2>2 DEF Suspends
    <3>3. customer' \in Customers /\ customer'.cycle = customer.cycle + 1 /\ customer'.leaving = customer.leaving
      BY <3>1, <3>2 DEF Customers
    <3>. QED BY <2>1, <3>3, LifecycleAssumption DEF SuspensionNumbered
  <2>3. CASE BecomesReady \/ PaysAgain \/ Leaves
    <3>1. /\ customer' \in Customers /\ customer'.cycle = customer.cycle
          /\ (customer.leaving => customer'.leaving) /\ (customer'.suspended => customer.suspended)
      BY <2>3 DEF BecomesReady, PaysAgain, Leaves, Customers
    <3>. QED BY <2>0, <2>1, <3>1, LifecycleAssumption DEF SuspensionNumbered
  <2>4. CASE UNCHANGED customer
    BY <2>0, <2>1, <2>4, LifecycleAssumption DEF SuspensionNumbered
  <2>. QED BY <2>2, <2>3, <2>4 DEF DaysPass, Exports, TickLockPasses
<1>3. /\ days' \in [month : BOOLEAN, week : BOOLEAN]
      /\ customer'.cycle = customer.cycle => (days.month => days'.month) /\ (days.week => days'.week)
  <2>1. CASE Suspends
    <3>1. customer'.cycle = customer.cycle + 1 /\ customer.cycle \in Nat
      BY <2>1, LifecycleAssumption DEF Suspends, Customers
    <3>. QED BY <2>1, <3>1 DEF Suspends
  <2>2. CASE DaysPass
    BY <2>2 DEF DaysPass
  <2>3. CASE UNCHANGED days
    BY <2>3
  <2>. QED BY <2>1, <2>2, <2>3 DEF BecomesReady, PaysAgain, Leaves, Exports, TickLockPasses
<1>4. /\ dump' \in Dumps /\ bucket' \in [cycles : SUBSET (0 .. MaxCycles), leaving : BOOLEAN]
      /\ bucket.cycles \subseteq bucket'.cycles /\ (bucket.leaving => bucket'.leaving) /\ DumpOK'
  <2>1. CASE Exports
    <3>1. CASE \E state \in {"done", "failed"} : dump' = [dump EXCEPT !.state = state] /\ UNCHANGED bucket
      BY <3>1 DEF Dumps, DumpOK, LifeInv
    <3>2. CASE /\ dump' = [dump EXCEPT !.state = "done", !.whole = TRUE]
               /\ bucket' = [cycles |-> bucket.cycles \cup {dump.cycle}, leaving |-> bucket.leaving \/ dump.leaving]
      BY <3>2 DEF Dumps, DumpOK
    <3>. QED BY <2>1, <3>1, <3>2 DEF Exports
  <2>2. CASE UNCHANGED <<dump, bucket>>
    BY <2>2 DEF DumpOK, LifeInv
  <2>. QED BY <2>1, <2>2 DEF BecomesReady, Suspends, PaysAgain, Leaves, DaysPass, TickLockPasses
<1>5. tickLock' \in [holder : Ticks \cup {NoTick}, over : BOOLEAN]
  BY DEF BecomesReady, Suspends, PaysAgain, Leaves, DaysPass, Exports, TickLockPasses
<1>6. \A t \in Ticks : (DueOK(t) /\ TrustedOK(t) /\ LeaverOK(t))'
  BY <1>1, <1>2, <1>3, <1>4, RunKeeps
<1>7. LifeTypeOK'
  BY <1>1, <1>2, <1>3, <1>4, <1>5 DEF LifeTypeOK, Customers, Dumps, TickRecords
<1>. QED BY <1>2, <1>4, <1>6, <1>7 DEF LifeInv

\* Writing the customer's deletion changes nothing else of it.
LEMMA CondemnsOnly ==
    ASSUME LifeInv, NEW t \in Ticks, NEW still, Condemns(t, still)
    PROVE  /\ customer' \in Customers /\ customer'.cycle = customer.cycle
           /\ customer'.suspended = customer.suspended /\ customer'.leaving = customer.leaving
BY LifeParts DEF Condemns, Customers

LEMMA TickRests ==
    ASSUME LifeInv, NEW t \in Ticks, NEW pc \in {"idle", "warn", "due", "leave", "over"}, TickGoes(t, pc)
    PROVE  \E new \in TickRecords : tick' = [tick EXCEPT ![t] = new] /\ new.pc \in {"idle", "warn", "due", "leave", "over"}
<1>. DEFINE new == [tick[t] EXCEPT !.pc = pc]
<1>1. tick[t] \in TickRecords
  BY LifeParts
<1>2. new \in TickRecords /\ new.pc = pc
  BY <1>1 DEF TickRecords
<1>3. tick' = [tick EXCEPT ![t] = new]
  BY <1>1, LifeParts DEF TickGoes, TickRecords
<1>. QED BY <1>2, <1>3

\* Steps that rely on nothing and leave nothing to rely on.
LEMMA QuietTickSteps ==
    ASSUME LifeInv, NEW t \in Ticks,
           StartTick(t) \/ Warns(t) \/ MarksTenant(t) \/ MarksLeaver(t) \/ TickEnds(t)
    PROVE  LifeInv'
<1>0. DumpOK /\ SuspensionNumbered
  BY DEF LifeInv
<1>1. UNCHANGED <<dump, bucket, days>>
  BY DEF StartTick, Warns, MarksTenant, MarksLeaver, TickEnds
<1>2. \E new \in TickRecords : tick' = [tick EXCEPT ![t] = new] /\ new.pc \in {"idle", "warn", "due", "leave", "over"}
  <2>1. CASE TickEnds(t)
    <3>1. Resting \in TickRecords /\ Resting.pc = "idle" /\ tick' = [tick EXCEPT ![t] = Resting]
      BY <2>1, LifecycleAssumption DEF Resting, TickRecords, TickEnds
    <3>. QED BY <3>1
  <2>2. \E pc \in {"idle", "warn", "due", "leave", "over"} : StartTick(t) \/ Warns(t) \/ MarksTenant(t) \/ MarksLeaver(t) => TickGoes(t, pc)
    BY DEF StartTick, Warns, MarksTenant, MarksLeaver
  <2>. QED BY <2>1, <2>2, TickRests
<1>3. /\ customer' \in Customers /\ customer'.cycle = customer.cycle
      /\ customer'.suspended = customer.suspended /\ customer'.leaving = customer.leaving
  <2>1. CASE UNCHANGED customer
    BY <2>1, LifeParts
  <2>. QED BY <2>1, CondemnsOnly DEF StartTick, Warns, MarksTenant, MarksLeaver, TickEnds
<1>4. warned' \in SUBSET Cycles /\ warned \subseteq warned'
  <2>1. CASE Warns(t)
    <3>1. customer.suspended => customer.cycle \in Cycles
      BY <1>0, LifeParts, LifecycleAssumption DEF SuspensionNumbered, Customers, Cycles
    <3>. QED BY <2>1, <3>1, LifeParts DEF Warns
  <2>2. CASE UNCHANGED warned
    BY <2>2, LifeParts
  <2>. QED BY <2>1, <2>2 DEF StartTick, MarksTenant, MarksLeaver, TickEnds
<1>5. tickLock' \in [holder : Ticks \cup {NoTick}, over : BOOLEAN]
  <2>1. \/ tickLock' = [holder |-> t, over |-> FALSE]
        \/ tickLock' = [holder |-> NoTick, over |-> FALSE]
        \/ tickLock' = tickLock
    BY DEF StartTick, Warns, MarksTenant, MarksLeaver, TickEnds
  <2>2. [holder |-> t, over |-> FALSE] \in [holder : Ticks \cup {NoTick}, over : BOOLEAN]
    BY Zenon
  <2>3. [holder |-> NoTick, over |-> FALSE] \in [holder : Ticks \cup {NoTick}, over : BOOLEAN]
    BY Zenon
  <2>. QED BY <2>1, <2>2, <2>3, LifeParts
<1>6. tick' \in [Ticks -> TickRecords] /\ \A s \in Ticks : (DueOK(s) /\ TrustedOK(s) /\ LeaverOK(s))'
  BY <1>1, <1>2, <1>3, <1>4, TickMoves
<1>7. LifeTypeOK'
  BY <1>1, <1>3, <1>4, <1>5, <1>6, LifeParts DEF LifeTypeOK, Customers, Dumps, TickRecords
<1>8. DumpOK' /\ SuspensionNumbered'
  BY <1>0, <1>1, <1>3 DEF DumpOK, SuspensionNumbered
<1>. QED BY <1>6, <1>7, <1>8 DEF LifeInv

\* A step that moves one run to where it may rely on what it just saw.
LEMMA LearningStep ==
    ASSUME LifeInv, NEW t \in Ticks,
           UNCHANGED <<customer, days, warned, bucket, tickLock>>,
           dump' \in Dumps, DumpOK',
           \E new \in TickRecords :
             /\ tick' = [tick EXCEPT ![t] = new]
             /\ new.pc \in {"trust", "mark"} =>
                  /\ new.cycle \in warned /\ new.cycle <= customer.cycle
                  /\ customer.cycle = new.cycle => days.month /\ days.week
             /\ new.pc = "mark" => \E c \in bucket.cycles : c >= new.cycle
             /\ new.pc \in {"leaveTrust", "leaveMark"} => customer.leaving
             /\ new.pc = "leaveMark" /\ new.needs => bucket.leaving
    PROVE  LifeInv'
<1>0. PICK new \in TickRecords :
             /\ tick' = [tick EXCEPT ![t] = new]
             /\ new.pc \in {"trust", "mark"} =>
                  /\ new.cycle \in warned /\ new.cycle <= customer.cycle
                  /\ customer.cycle = new.cycle => days.month /\ days.week
             /\ new.pc = "mark" => \E c \in bucket.cycles : c >= new.cycle
             /\ new.pc \in {"leaveTrust", "leaveMark"} => customer.leaving
             /\ new.pc = "leaveMark" /\ new.needs => bucket.leaving
  OBVIOUS
<1>1. tick' \in [Ticks -> TickRecords] /\ tick'[t] = new /\ \A s \in Ticks \ {t} : tick'[s] = tick[s]
  BY <1>0, LifeParts
<1>2. customer.cycle \in Nat
  BY LifeParts, LifecycleAssumption DEF Customers
<1>3. \A s \in Ticks \ {t} : (DueOK(s) /\ TrustedOK(s) /\ LeaverOK(s))'
  BY <1>1, <1>2, RunKeeps
<1>4. DueOK(t)' /\ TrustedOK(t)' /\ LeaverOK(t)'
  BY <1>0, <1>1 DEF DueOK, TrustedOK, LeaverOK
<1>5. LifeTypeOK'
  BY <1>1, LifeParts DEF LifeTypeOK, Customers, Dumps, TickRecords
<1>6. SuspensionNumbered'
  BY DEF LifeInv, SuspensionNumbered
<1>. QED BY <1>3, <1>4, <1>5, <1>6 DEF LifeInv

\* An export that is trusted is whole; asking for one changes the export only.
LEMMA TrustsLearns ==
    ASSUME LifeInv, NEW t \in Ticks, NEW counts \in BOOLEAN,
           NEW then \in {"mark", "leaveMark"}, NEW otherwise \in {"leave", "over"},
           Trusts(t, counts, then, otherwise), UNCHANGED bucket
    PROVE  /\ dump' \in Dumps /\ DumpOK'
           /\ \E pc \in {then, otherwise} :
                TickGoes(t, pc) /\ (pc = then => counts /\ dump.whole)
<1>1. dump \in Dumps /\ DumpOK /\ customer.cycle \in 0 .. MaxCycles /\ customer.leaving \in BOOLEAN
  BY LifeParts DEF LifeInv, Customers
<1>2. CASE counts /\ dump.state = "done" /\ ReadsBack
  BY <1>1, <1>2 DEF Trusts, DumpOK, ReadsBack
<1>3. CASE ~(counts /\ dump.state = "done" /\ ReadsBack)
  <2>1. \/ dump' = dump
        \/ dump' = [dump EXCEPT !.state = "failed"]
        \/ dump' = [state |-> "open", cycle |-> customer.cycle, leaving |-> customer.leaving, whole |-> FALSE]
    BY <1>3 DEF Trusts
  <2>2. dump' \in Dumps
    <3>1. [dump EXCEPT !.state = "failed"] \in Dumps
      BY <1>1 DEF Dumps
    <3>2. [state |-> "open", cycle |-> customer.cycle, leaving |-> customer.leaving, whole |-> FALSE] \in Dumps
      BY <1>1, Zenon DEF Dumps
    <3>. QED BY <1>1, <2>1, <3>1, <3>2
  <2>3. DumpOK'
    BY <1>1, <2>1 DEF DumpOK, Dumps
  <2>4. TickGoes(t, otherwise) /\ otherwise # then
    BY <1>3 DEF Trusts
  <2>. QED BY <2>2, <2>3, <2>4
<1>. QED BY <1>2, <1>3

LEMMA ExportSteps ==
    ASSUME LifeInv, NEW t \in Ticks, TrustsExport(t) \/ TrustsLeavers(t)
    PROVE  LifeInv'
<1>1. UNCHANGED <<customer, days, warned, bucket, tickLock>>
  BY DEF TrustsExport, TrustsLeavers
<1>2. tick[t] \in TickRecords /\ dump \in Dumps /\ tick \in [Ticks -> TickRecords] /\ DueOK(t) /\ LeaverOK(t) /\ DumpOK
  BY LifeParts DEF LifeInv
<1>3. CASE TrustsExport(t)
  <2>. DEFINE counts == dump.state # "none" /\ dump.cycle >= tick[t].cycle
  <2>1. tick[t].pc = "trust" /\ Trusts(t, counts, "mark", "leave")
    BY <1>3 DEF TrustsExport, TickAt
  <2>. HIDE DEF counts
  <2>2. /\ dump' \in Dumps /\ DumpOK'
        /\ \E pc \in {"mark", "leave"} : TickGoes(t, pc) /\ (pc = "mark" => counts /\ dump.whole)
    BY <1>1, <2>1, TrustsLearns DEF counts
  <2>3. PICK pc \in {"mark", "leave"} : TickGoes(t, pc) /\ (pc = "mark" => counts /\ dump.whole)
    BY <2>2
  <2>. DEFINE new == [tick[t] EXCEPT !.pc = pc]
  <2>4. new \in TickRecords /\ new.pc = pc /\ new.cycle = tick[t].cycle /\ tick' = [tick EXCEPT ![t] = new]
    BY <1>2, <2>3 DEF TickRecords, TickGoes
  <2>5. tick[t].cycle \in warned /\ tick[t].cycle <= customer.cycle /\ (customer.cycle = tick[t].cycle => days.month /\ days.week)
    BY <1>2, <2>1 DEF DueOK
  <2>6. pc = "mark" => \E c \in bucket.cycles : c >= tick[t].cycle
    BY <1>2, <2>3 DEF counts, DumpOK
  <2>. HIDE DEF new
  <2>. QED BY <1>1, <2>2, <2>3, <2>4, <2>5, <2>6, LearningStep
<1>4. CASE TrustsLeavers(t)
  <2>1. tick[t].pc = "leaveTrust" /\ Trusts(t, dump.leaving, "leaveMark", "over") /\ dump.leaving \in BOOLEAN
    BY <1>2, <1>4 DEF TrustsLeavers, TickAt, Dumps
  <2>2. /\ dump' \in Dumps /\ DumpOK'
        /\ \E pc \in {"leaveMark", "over"} : TickGoes(t, pc) /\ (pc = "leaveMark" => dump.leaving /\ dump.whole)
    BY <1>1, <2>1, TrustsLearns
  <2>3. PICK pc \in {"leaveMark", "over"} : TickGoes(t, pc) /\ (pc = "leaveMark" => dump.leaving /\ dump.whole)
    BY <2>2
  <2>. DEFINE new == [tick[t] EXCEPT !.pc = pc]
  <2>4. new \in TickRecords /\ new.pc = pc /\ tick' = [tick EXCEPT ![t] = new]
    BY <1>2, <2>3 DEF TickRecords, TickGoes
  <2>5. customer.leaving /\ (pc = "leaveMark" => bucket.leaving)
    BY <1>2, <2>1, <2>3 DEF LeaverOK, DumpOK
  <2>. HIDE DEF new
  <2>. QED BY <1>1, <2>2, <2>3, <2>4, <2>5, LearningStep
<1>. QED BY <1>3, <1>4

LEMMA LookingSteps ==
    ASSUME LifeInv, NEW t \in Ticks, FindsDue(t) \/ LooksAtLeaver(t)
    PROVE  LifeInv'
<1>1. UNCHANGED <<customer, days, warned, bucket, tickLock, dump>> /\ dump' \in Dumps /\ DumpOK'
  BY LifeParts DEF FindsDue, LooksAtLeaver, LifeInv, DumpOK
<1>2. tick \in [Ticks -> TickRecords] /\ tick[t] \in TickRecords /\ customer \in Customers
  BY LifeParts
<1>3. CASE IsDue /\ tick' = [tick EXCEPT ![t].pc = "trust", ![t].cycle = customer.cycle]
  <2>. DEFINE new == [tick[t] EXCEPT !.pc = "trust", !.cycle = customer.cycle]
  <2>1. new \in TickRecords /\ new.pc = "trust" /\ new.cycle = customer.cycle /\ tick' = [tick EXCEPT ![t] = new]
    BY <1>2, <1>3 DEF TickRecords, Customers
  <2>2. customer.cycle \in warned /\ customer.cycle <= customer.cycle /\ days.month /\ days.week
    BY <1>2, <1>3, LifecycleAssumption DEF IsDue, Customers
  <2>. HIDE DEF new
  <2>. QED BY <1>1, <2>1, <2>2, LearningStep
<1>4. CASE TickGoes(t, "leave")
  <2>1. PICK new \in TickRecords : tick' = [tick EXCEPT ![t] = new] /\ new.pc \in {"idle", "warn", "due", "leave", "over"}
    BY <1>4, TickRests
  <2>. QED BY <1>1, <2>1, LearningStep
<1>5. CASE LooksAtLeaver(t)
  <2>1. PICK pc \in {"over", "leaveTrust", "leaveMark"} :
          /\ tick' = [tick EXCEPT ![t].needs = customer.ready, ![t].pc = pc]
          /\ pc \in {"leaveTrust", "leaveMark"} => customer.leaving
          /\ pc = "leaveMark" => ~customer.ready
    BY <1>2, <1>5 DEF LooksAtLeaver, Customers
  <2>. DEFINE new == [tick[t] EXCEPT !.needs = customer.ready, !.pc = pc]
  <2>2. new \in TickRecords /\ new.pc = pc /\ new.needs = customer.ready /\ tick' = [tick EXCEPT ![t] = new]
    BY <1>2, <2>1 DEF TickRecords, Customers
  <2>. HIDE DEF new
  <2>. QED BY <1>1, <2>1, <2>2, LearningStep
<1>. QED BY <1>3, <1>4, <1>5 DEF FindsDue

LEMMA LifeStep == LifeInv /\ [LifeNext]_lifeVars => LifeInv'
<1>. SUFFICES ASSUME LifeInv, [LifeNext]_lifeVars PROVE LifeInv'
  OBVIOUS
<1>1. CASE UNCHANGED lifeVars
  BY <1>1 DEF LifeInv, LifeTypeOK, DumpOK, SuspensionNumbered, DueOK, TrustedOK, LeaverOK, lifeVars
<1>. QED BY <1>1, WorldSteps, QuietTickSteps, ExportSteps, LookingSteps DEF LifeNext

(* What a run of the jobs relies on between two of its steps always holds,    *)
(* for any runs and suspensions (runLifecycleJobs).                          *)
THEOREM LifeInvariant == LifeSpec => []LifeInv
<1>1. LifeInit => LifeInv
  BY LifeInitOK
<1>2. LifeInv /\ [LifeNext]_lifeVars => LifeInv'
  BY LifeStep
<1>. QED BY <1>1, <1>2, PTL DEF LifeSpec

(* The customer, the exports and the runs have their types.                   *)
THEOREM LifeTypeCorrect == LifeSpec => []LifeTypeOK
<1>1. LifeInv => LifeTypeOK
  BY DEF LifeInv
<1>. QED BY <1>1, LifeInvariant, PTL

(* A tenant is only marked for deletion thirty days into the suspension it   *)
(* was warned of a week ago, or its account leaving, and behind an export    *)
(* that read back whole (markForDeletion), however many runs overlap.        *)
THEOREM DeletedOnlySaved == LifeSpec => NothingDeletedUnsaved
<1>1. ASSUME LifeInv, [LifeNext]_lifeVars, customer'.deleting, ~customer.deleting
      PROVE  DueAndSaved \/ LeftAndSaved
  <2>0. customer \in Customers
    BY <1>1, LifeParts
  <2>1. ~(BecomesReady \/ Suspends \/ PaysAgain \/ Leaves)
    BY <1>1, <2>0 DEF BecomesReady, Suspends, PaysAgain, Leaves, Customers
  <2>2. \E t \in Ticks : MarksTenant(t) \/ MarksLeaver(t)
    BY <1>1, <2>1 DEF LifeNext, DaysPass, Exports, TickLockPasses, StartTick, Warns, FindsDue, TrustsExport,
         LooksAtLeaver, TrustsLeavers, TickEnds, lifeVars
  <2>3. PICK t \in Ticks : MarksTenant(t) \/ MarksLeaver(t)
    BY <2>2
  <2>4. DueOK(t) /\ TrustedOK(t) /\ LeaverOK(t)
    BY <1>1 DEF LifeInv
  <2>5. CASE MarksTenant(t)
    <3>1. tick[t].pc = "mark" /\ customer.suspended /\ customer.cycle = tick[t].cycle
      BY <1>1, <2>5 DEF MarksTenant, TickAt, Condemns, SameSuspension
    <3>. QED BY <2>4, <3>1 DEF DueOK, TrustedOK, DueAndSaved
  <2>6. CASE MarksLeaver(t)
    <3>1. tick[t].pc = "leaveMark"
      BY <2>6 DEF MarksLeaver, TickAt
    <3>. QED BY <2>4, <3>1 DEF LeaverOK, LeftAndSaved, TickAt
  <2>. QED BY <2>3, <2>5, <2>6
<1>2. LifeInv /\ [LifeNext]_lifeVars =>
        [customer'.deleting /\ ~customer.deleting => DueAndSaved \/ LeftAndSaved]_lifeVars
  BY <1>1
<1>. QED BY <1>2, LifeInvariant, PTL DEF LifeSpec, NothingDeletedUnsaved

-----------------------------------------------------------------------------
(* All of them together.                                                    *)

\* A behaviour of the whole is one of each part, which rests outside its scenes.
LEMMA PartsBegin ==
    ASSUME Init
    PROVE  ProvisionInit /\ BillInit /\ LifeInit /\ ReleaseInit
BY DEF Init

LEMMA PartsStep ==
    ASSUME [Next]_vars
    PROVE  [ProvisionNext]_provVars /\ [BillNext]_billVars /\ [LifeNext]_lifeVars /\ [ReleaseNext]_releaseVars
<1>1. CASE UNCHANGED vars
  BY <1>1 DEF vars
<1>2. CASE InTenant(ProvisionNext)
  BY <1>2 DEF InTenant
<1>3. CASE InBilling(BillNext)
  BY <1>3 DEF InBilling
<1>4. CASE InLifecycle(LifeNext)
  BY <1>4 DEF InLifecycle
<1>5. CASE InRelease(ReleaseNext)
  BY <1>5 DEF InRelease
<1>. QED BY <1>1, <1>2, <1>3, <1>4, <1>5 DEF Next

(* What is proved of a part holds where the runs check it: a tenant on the    *)
(* platform is provisioned, billed, deleted and released to as each of the    *)
(* four modules says, whatever the bounds of the scenes cut short.            *)
THEOREM PlatformHasItsParts == Spec => ProvisionSpec /\ BillSpec /\ LifeSpec /\ ReleaseSpec
BY PartsBegin, PartsStep, PTL DEF Spec, ProvisionSpec, BillSpec, LifeSpec, ReleaseSpec

(* The state of the platform is of its type, for every value of the constants *)
(* (TypeOK of MCPlatform).                                                   *)
THEOREM PlatformTypeCorrect == Spec => []TypeOK
<1>1. ProvisionTypeOK /\ BillTypeOK /\ LifeTypeOK /\ ReleaseTypeOK => TypeOK
  BY DEF TypeOK
<1>. QED
  BY <1>1, PlatformHasItsParts, ProvisionTypeCorrect, BillTypeCorrect, LifeTypeCorrect, ReleaseTypeCorrect, PTL

(* All safety that run platform checks of the platform, for every value of the *)
(* constants: tenants are made, removed and deleted as promised, the last word *)
(* on a subscription is Stripe's and one is paid for, and a release goes from  *)
(* its canary to the batches in order and is done with all.                   *)
THEOREM PlatformIsSafe ==
    Spec => /\ [](/\ ReadyIsWhole /\ NothingLeftBehind
                  /\ LastWordIsStripes /\ OnePays /\ StruckIsRepaid /\ ScrubbedIsFree
                  /\ CanaryFirst /\ BatchesInOrder)
            /\ RemovalStands /\ KeepsOne /\ NothingDeletedUnsaved /\ DoneIsShipped
<1>1. ProvisionSpec => []ReadyIsWhole /\ []NothingLeftBehind /\ RemovalStands
  BY ReadyTenantIsWhole, RemovalIsComplete, RemovalAlwaysStands
<1>2. BillSpec => []LastWordIsStripes /\ []OnePays /\ []StruckIsRepaid /\ []ScrubbedIsFree /\ KeepsOne
  BY TheLastWordStands, OneIsPaidFor, WhatIsStruckIsRepaid, DeletedIsNotCharged, OnlyASecondIsStruck
<1>3. ReleaseSpec => []CanaryFirst /\ []BatchesInOrder /\ DoneIsShipped
  BY NobodyBeforeTheCanary, BatchesFollowInOrder, WhatIsDoneIsShipped
<1>. QED
  BY <1>1, <1>2, <1>3, PlatformHasItsParts, DeletedOnlySaved, PTL

================================================================================
