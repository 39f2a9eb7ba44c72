----------------------------- MODULE InstallProofs -----------------------------
(***************************************************************************)
(* What holds of an install around its checks, whatever its size: what calls *)
(* say about the schema is true (SchemaMigration), a run stays within its    *)
(* plan and keeps what it sets aside (RunBudget), replacing the key loses     *)
(* nothing (KeyRotation), and rolled-up history misses nothing (Rollups).    *)
(***************************************************************************)
EXTENDS MCInstall, OutboxProofs, FiniteSetTheorems, WellFoundedInduction, TLAPS

-----------------------------------------------------------------------------
(* The schema: the invariant.                                               *)

\* What a call read is applied for good, so the first one it misses has no gap
\* below it.
ReadIsApplied == \A c \in Calls : call[c].names \subseteq applied

\* Until something goes wrong, whoever may write migrations holds the lock, and
\* what it read is all there is.
Writing == {"apply", "orphan"}
Exclusive ==
    ~disturbed =>
        /\ \A c \in Calls : call[c].pc \in Writing =>
             lock.state = "held" /\ lock.by = c /\ call[c].names = applied
        /\ \A c \in Calls : call[c].pc # "failing"
        /\ \A c \in Calls : answer[c] # "failed"
        /\ \A i \in Isolates : ~hasFailed[i]

\* A call that ended while it wrote had a migration to write.
OrphanHasOne == \A c \in Calls : call[c].pc = "orphan" => Missing(c) # {}

SInv == SchemaTypeOK /\ NoGap /\ CurrentIsCurrent /\ ReadIsApplied /\ Exclusive /\ OrphanHasOne

Pcs == {"idle", "read", "look", "take", "wait", "apply", "failing", "report", "orphan"}

-----------------------------------------------------------------------------
(* The schema: numbers and types.                                          *)

(* A non-empty set of numbers has a first one.                              *)
LEMMA FirstIsIn ==
    ASSUME NEW ms \in SUBSET Nat, ms # {}
    PROVE  First(ms) \in ms /\ \A n \in ms : First(ms) <= n
<1>. DEFINE Less == {ss \in Nat \X Nat : ss[1] < ss[2]}
<1>1. IsWellFoundedOn(Less, Nat)
  BY NatLessThanWellFounded DEF OpToRel
<1>2. PICK m \in ms : \A n \in ms : ~(<<n, m>> \in Less)
  <2>. HIDE DEF Less
  <2>. QED BY <1>1, WFMin
<1>3. \A n \in ms : m <= n
  <2>. SUFFICES ASSUME NEW n \in ms PROVE m <= n
    OBVIOUS
  <2>1. n < m => <<n, m>> \in Less
    OBVIOUS
  <2>. QED BY <1>2, <2>1
<1>. QED BY <1>2, <1>3 DEF First

(* A bundle's migrations are among those of all bundles, and are numbers.   *)
LEMMA BundlesAreMigrations ==
    /\ Migrations \subseteq Nat \ {0}
    /\ \A i \in Isolates : Bundled[i] \in Nat /\ 1 .. Bundled[i] \subseteq Migrations
    /\ \A c \in Calls : IsolateOf[c] \in Isolates /\ BundleOf(c) \subseteq Migrations
<1>1. \A i \in Isolates : Bundled[i] \in Nat /\ 1 .. Bundled[i] \subseteq Migrations
  BY SchemaAssumption DEF Migrations
<1>2. Migrations \subseteq Nat \ {0}
  BY <1>1 DEF Migrations
<1>3. \A c \in Calls : IsolateOf[c] \in Isolates /\ BundleOf(c) \subseteq Migrations
  BY <1>1, SchemaAssumption DEF BundleOf
<1>. QED BY <1>1, <1>2, <1>3

(* The first migration a call misses: everything below it is applied.       *)
LEMMA NextMigration ==
    ASSUME SInv, NEW c \in Calls, Missing(c) # {}
    PROVE  /\ First(Missing(c)) \in Migrations
           /\ First(Missing(c)) \in Missing(c)
           /\ \A k \in 1 .. First(Missing(c)) : k \in applied \cup {First(Missing(c))}
<1>. DEFINE m == First(Missing(c))
<1>0. Bundled[IsolateOf[c]] \in Nat /\ BundleOf(c) \subseteq Migrations /\ Migrations \subseteq Nat \ {0}
  BY BundlesAreMigrations
<1>1. Missing(c) \in SUBSET Nat
  BY <1>0 DEF Missing
<1>2. m \in Missing(c) /\ \A n \in Missing(c) : m <= n
  BY <1>1, FirstIsIn
<1>3. m \in BundleOf(c) /\ m \in Nat
  BY <1>2, <1>1 DEF Missing
<1>4. ASSUME NEW k \in 1 .. m PROVE k \in applied \cup {m}
  <2>1. k \in BundleOf(c)
    BY <1>0, <1>3 DEF BundleOf
  <2>2. CASE k = m
    BY <2>2
  <2>3. CASE k # m
    <3>1. k \notin Missing(c)
      BY <1>2, <1>3, <2>3
    <3>2. k \in call[c].names
      BY <2>1, <3>1 DEF Missing
    <3>. QED BY <3>2 DEF SInv, ReadIsApplied
  <2>. QED BY <2>2, <2>3
<1>. QED BY <1>0, <1>2, <1>3, <1>4

(* A migration that lands leaves no gap.                                    *)
LEMMA LandingLeavesNoGap ==
    ASSUME SInv, NEW c \in Calls, Missing(c) # {},
           applied' = applied \cup {First(Missing(c))}
    PROVE  NoGap' /\ applied' \subseteq Migrations
<1>1. \A m \in applied : 1 .. m \subseteq applied'
  BY DEF SInv, NoGap
<1>2. 1 .. First(Missing(c)) \subseteq applied'
  BY NextMigration
<1>3. applied' \subseteq Migrations
  BY NextMigration DEF SInv, SchemaTypeOK
<1>. QED BY <1>1, <1>2, <1>3 DEF NoGap

-----------------------------------------------------------------------------
(* The schema: steps.                                                      *)

(* A call is somewhere else, with names that are applied.                   *)
LEMMA CallTyped ==
    ASSUME SchemaTypeOK, NEW c \in Calls, NEW v,
           v \in [pc : Pcs, names : SUBSET Migrations],
           call' = [call EXCEPT ![c] = v]
    PROVE  /\ call' \in [Calls -> [pc : Pcs, names : SUBSET Migrations]]
           /\ call'[c] = v
           /\ \A d \in Calls \ {c} : call'[d] = call[d]
BY DEF SchemaTypeOK, Pcs

(* The invariant holds at first.                                            *)
LEMMA InitKeeps == SchemaInit => SInv
<1>. SUFFICES ASSUME SchemaInit PROVE SInv
  OBVIOUS
<1>0. /\ Migrations \subseteq Nat \ {0}
      /\ \A i \in Isolates : Bundled[i] \in Nat /\ 1 .. Bundled[i] \subseteq Migrations
  BY BundlesAreMigrations
<1>1. PICK n \in {0} \cup Migrations : applied = 1 .. n
  BY DEF SchemaInit
<1>2. n \in Nat
  BY <1>0, <1>1
<1>3. NoGap
  BY <1>1, <1>2 DEF NoGap
<1>4. applied \subseteq Migrations
  <2>1. CASE n = 0
    BY <2>1, <1>1
  <2>2. CASE n \in Migrations
    <3>1. PICK i \in Isolates : n \in 1 .. Bundled[i]
      BY <2>2 DEF Migrations
    <3>2. 1 .. n \subseteq 1 .. Bundled[i]
      BY <3>1, <1>0, <1>2
    <3>. QED BY <1>0, <1>1, <3>2
  <2>. QED BY <1>1, <2>1, <2>2
<1>5. SchemaTypeOK
  BY <1>4 DEF SchemaInit, SchemaTypeOK, AtHome
<1>6. CurrentIsCurrent /\ ReadIsApplied /\ Exclusive /\ OrphanHasOne
  BY DEF SchemaInit, CurrentIsCurrent, ReadIsApplied, Exclusive, Writing, OrphanHasOne, AtHome
<1>. QED BY <1>3, <1>5, <1>6 DEF SInv

(* A step of a call keeps the invariant: it goes to v, with names that are     *)
(* applied, and what is new of the rest is right.                           *)
LEMMA CallSteps ==
    ASSUME SInv, NEW c \in Calls, NEW v,
           v \in [pc : Pcs, names : SUBSET Migrations],
           call' = [call EXCEPT ![c] = v],
           applied \subseteq applied', applied' \subseteq Migrations, NoGap',
           v.names \subseteq applied',
           v.pc = "orphan" => BundleOf(c) \ v.names # {},
           lock' \in [state : {"free", "held", "expired"}, by : Calls \cup {Nobody}],
           isCurrent' \in [Isolates -> BOOLEAN], hasFailed' \in [Isolates -> BOOLEAN],
           answer' \in [Calls -> {"none", "ok", "failed", "busy"}],
           disturbed' \in BOOLEAN,
           \A d \in Calls : answer'[d] = "ok" => answer[d] = "ok" \/ BundleOf(d) \subseteq applied',
           \A i \in Isolates : isCurrent'[i] => isCurrent[i] \/ 1 .. Bundled[i] \subseteq applied',
           ~disturbed' =>
             /\ ~disturbed
             /\ v.pc # "failing"
             /\ v.pc \in Writing => lock'.state = "held" /\ lock'.by = c /\ v.names = applied'
             /\ \A d \in Calls \ {c} : call[d].pc \in Writing => lock' = lock /\ applied' = applied
             /\ \A d \in Calls : answer'[d] = "failed" => answer[d] = "failed"
             /\ \A i \in Isolates : hasFailed'[i] => hasFailed[i]
    PROVE  SInv'
<1>0. /\ call' \in [Calls -> [pc : Pcs, names : SUBSET Migrations]]
      /\ call'[c] = v
      /\ \A d \in Calls \ {c} : call'[d] = call[d]
  BY CallTyped DEF SInv
<1>1. SchemaTypeOK'
  BY <1>0 DEF SchemaTypeOK, Pcs
<1>2. CurrentIsCurrent'
  BY DEF SInv, CurrentIsCurrent, BundleOf
<1>3. ReadIsApplied'
  BY <1>0 DEF SInv, ReadIsApplied
<1>4. OrphanHasOne'
  BY <1>0 DEF SInv, OrphanHasOne, Missing, BundleOf
<1>5. Exclusive'
  <2>. SUFFICES ASSUME ~disturbed' PROVE Exclusive'
    BY DEF Exclusive
  <2>1. \A d \in Calls : call'[d].pc \in Writing =>
          lock'.state = "held" /\ lock'.by = d /\ call'[d].names = applied'
    BY <1>0 DEF SInv, Exclusive
  <2>2. \A d \in Calls : call'[d].pc # "failing"
    BY <1>0 DEF SInv, Exclusive
  <2>3. (\A d \in Calls : answer'[d] # "failed") /\ (\A i \in Isolates : ~hasFailed'[i])
    BY DEF SInv, Exclusive
  <2>. QED BY <2>1, <2>2, <2>3 DEF Exclusive
<1>. QED BY <1>1, <1>2, <1>3, <1>4, <1>5 DEF SInv

(* What a call that answers becomes.                                        *)
LEMMA RepliesForm ==
    ASSUME SchemaTypeOK, NEW c \in Calls, NEW result \in {"ok", "failed", "busy"}, Replies(c, result)
    PROVE  /\ \E pc \in {"idle", "report"} : call' = [call EXCEPT ![c] = [pc |-> pc, names |-> {}]]
           /\ answer' \in [Calls -> {"none", "ok", "failed", "busy"}]
           /\ \A d \in Calls : answer'[d] = answer[d] \/ (d = c /\ answer'[d] = result)
<1>1. CASE c \in HealthCalls
  BY <1>1 DEF Replies, Stands, Rests, SchemaTypeOK
<1>2. CASE c \notin HealthCalls
  BY <1>2 DEF Replies, Stands, Rests, SchemaTypeOK
<1>. QED BY <1>1, <1>2

(* A call that answers keeps the invariant, if its answer is so.            *)
LEMMA AnswerKeeps ==
    ASSUME SInv, NEW c \in Calls, NEW result \in {"ok", "failed", "busy"}, Replies(c, result),
           UNCHANGED applied,
           result = "ok" => BundleOf(c) \subseteq applied,
           lock' \in [state : {"free", "held", "expired"}, by : Calls \cup {Nobody}],
           isCurrent' \in [Isolates -> BOOLEAN], hasFailed' \in [Isolates -> BOOLEAN],
           disturbed' \in BOOLEAN,
           \A i \in Isolates : isCurrent'[i] => isCurrent[i] \/ 1 .. Bundled[i] \subseteq applied,
           ~disturbed' =>
             /\ ~disturbed /\ result # "failed"
             /\ \A d \in Calls \ {c} : call[d].pc \in Writing => lock' = lock
             /\ \A i \in Isolates : hasFailed'[i] => hasFailed[i]
    PROVE  SInv'
<1>1. PICK pc \in {"idle", "report"} : call' = [call EXCEPT ![c] = [pc |-> pc, names |-> {}]]
  BY RepliesForm DEF SInv
<1>2. /\ answer' \in [Calls -> {"none", "ok", "failed", "busy"}]
      /\ \A d \in Calls : answer'[d] = answer[d] \/ (d = c /\ answer'[d] = result)
  BY RepliesForm DEF SInv
<1>3. NoGap' /\ applied' \subseteq Migrations
  BY DEF SInv, NoGap, SchemaTypeOK
<1>. DEFINE v == [pc |-> pc, names |-> {}]
<1>4. v \in [pc : Pcs, names : SUBSET Migrations] /\ v.pc \notin Writing \cup {"failing", "orphan"} /\ v.names = {}
  BY DEF Pcs, Writing
<1>5. call' = [call EXCEPT ![c] = v]
  BY <1>1
<1>. HIDE DEF v
<1>6. \A d \in Calls : answer'[d] = "ok" => answer[d] = "ok" \/ BundleOf(d) \subseteq applied'
  BY <1>2
<1>7. ~disturbed' => \A d \in Calls : answer'[d] = "failed" => answer[d] = "failed"
  BY <1>2
<1>8. v.names \subseteq applied' /\ (v.pc = "orphan" => BundleOf(c) \ v.names # {})
  BY <1>4
<1>9. ~disturbed' =>
        /\ ~disturbed
        /\ v.pc # "failing"
        /\ v.pc \in Writing => lock'.state = "held" /\ lock'.by = c /\ v.names = applied'
        /\ \A d \in Calls \ {c} : call[d].pc \in Writing => lock' = lock /\ applied' = applied
        /\ \A d \in Calls : answer'[d] = "failed" => answer[d] = "failed"
        /\ \A i \in Isolates : hasFailed'[i] => hasFailed[i]
  BY <1>4, <1>7
<1>. QED BY <1>2, <1>3, <1>4, <1>5, <1>6, <1>8, <1>9, CallSteps

(* A call that goes somewhere it does not write, and changes nothing else.   *)
LEMMA MoveKeeps ==
    ASSUME SInv, NEW c \in Calls, NEW pc \in {"read", "look", "take", "wait"}, MovesTo(c, pc),
           UNCHANGED <<applied, lock, isCurrent, hasFailed, disturbed>>
    PROVE  SInv'
<1>. DEFINE v == [pc |-> pc, names |-> call[c].names]
<1>1. call' = [call EXCEPT ![c] = v] /\ UNCHANGED answer
  BY DEF MovesTo, Stands
<1>2. v.pc \in {"read", "look", "take", "wait"} /\ v.names = call[c].names
  OBVIOUS
<1>3. v \in [pc : Pcs, names : SUBSET Migrations]
  BY DEF SInv, SchemaTypeOK, Pcs
<1>4. v.names \subseteq applied'
  BY DEF SInv, ReadIsApplied
<1>5. NoGap' /\ applied' \subseteq Migrations
  BY DEF SInv, NoGap, SchemaTypeOK
<1>. HIDE DEF v
<1>6. v.pc \notin Writing \cup {"failing", "orphan"}
  BY <1>2 DEF Writing
<1>. QED BY <1>1, <1>3, <1>4, <1>5, <1>6, CallSteps DEF SInv, SchemaTypeOK

(* The steps of a call that leave the migrations and the lock alone.        *)
LEMMA EnsureKeeps == ASSUME SInv, NEW c \in Calls, Ensure(c) PROVE SInv'
<1>1. UNCHANGED <<applied, lock, isCurrent, hasFailed, disturbed>>
  BY DEF Ensure, memoVars
<1>2. IsolateOf[c] \in Isolates
  BY BundlesAreMigrations
<1>3. CASE isCurrent[IsolateOf[c]] /\ Replies(c, "ok")
  <2>1. BundleOf(c) \subseteq applied
    BY <1>2, <1>3 DEF SInv, CurrentIsCurrent, BundleOf
  <2>. QED BY <1>1, <1>3, <2>1, AnswerKeeps DEF SInv, SchemaTypeOK
<1>4. CASE hasFailed[IsolateOf[c]] /\ Replies(c, "failed")
  <2>1. disturbed
    BY <1>2, <1>4 DEF SInv, Exclusive
  <2>. QED BY <1>1, <1>4, <2>1, AnswerKeeps DEF SInv, SchemaTypeOK
<1>5. CASE MovesTo(c, "read")
  BY <1>1, <1>5, MoveKeeps
<1>. QED BY <1>3, <1>4, <1>5 DEF Ensure

LEMMA ReadAppliedKeeps == ASSUME SInv, NEW c \in Calls, ReadApplied(c) PROVE SInv'
<1>1. UNCHANGED <<applied, lock, disturbed>> /\ IsolateOf[c] \in Isolates
  BY BundlesAreMigrations DEF ReadApplied
<1>2. CASE BundleOf(c) \subseteq applied /\ Replies(c, "ok") /\ RemembersCurrent(c)
  <2>1. /\ isCurrent' \in [Isolates -> BOOLEAN] /\ hasFailed' \in [Isolates -> BOOLEAN]
        /\ \A i \in Isolates : isCurrent'[i] => isCurrent[i] \/ 1 .. Bundled[i] \subseteq applied
        /\ \A i \in Isolates : hasFailed'[i] => hasFailed[i]
    BY <1>1, <1>2 DEF RemembersCurrent, SInv, SchemaTypeOK, BundleOf
  <2>. QED BY <1>1, <1>2, <2>1, AnswerKeeps DEF SInv, SchemaTypeOK
<1>3. CASE MovesTo(c, "look") /\ UNCHANGED memoVars
  BY <1>1, <1>3, MoveKeeps DEF memoVars
<1>. QED BY <1>2, <1>3 DEF ReadApplied

LEMMA LookAtLockKeeps == ASSUME SInv, NEW c \in Calls, LookAtLock(c) PROVE SInv'
<1>1. UNCHANGED <<applied, lock, isCurrent, hasFailed, disturbed>>
  BY DEF LookAtLock, memoVars
<1>2. MovesTo(c, "wait") \/ MovesTo(c, "take")
  BY DEF LookAtLock
<1>. QED BY <1>1, <1>2, MoveKeeps

LEMMA WaitKeeps == ASSUME SInv, NEW c \in Calls, Wait(c) PROVE SInv'
<1>1. UNCHANGED <<applied, lock, isCurrent, hasFailed, disturbed>>
  BY DEF Wait, memoVars
<1>2. CASE MovesTo(c, "read")
  BY <1>1, <1>2, MoveKeeps
<1>3. CASE Replies(c, "busy")
  BY <1>1, <1>3, AnswerKeeps DEF SInv, SchemaTypeOK
<1>. QED BY <1>2, <1>3 DEF Wait

(* A health check says the bundle's schema is there when the highest number  *)
(* is; without a gap that is so.                                            *)
LEMMA ReportHealthKeeps == ASSUME SInv, NEW c \in Calls, ReportHealth(c) PROVE SInv'
<1>1. UNCHANGED <<applied, lock, isCurrent, hasFailed, disturbed>>
  BY DEF ReportHealth, memoVars
<1>2. PICK result \in {"ok", "busy"} :
        /\ result = "ok" => ReachesBundle(c)
        /\ answer' = [answer EXCEPT ![c] = result]
  BY DEF ReportHealth
<1>3. result = "ok" => BundleOf(c) \subseteq applied
  <2>. SUFFICES ASSUME ReachesBundle(c), NEW m \in BundleOf(c) PROVE m \in applied
    BY <1>2
  <2>1. PICK n \in applied : m <= n
    BY DEF ReachesBundle
  <2>2. m \in Nat \ {0} /\ n \in Nat
    BY BundlesAreMigrations DEF SInv, SchemaTypeOK
  <2>3. m \in 1 .. n
    BY <2>1, <2>2
  <2>. QED BY <2>3 DEF SInv, NoGap
<1>. DEFINE v == [pc |-> "idle", names |-> {}]
<1>4. call' = [call EXCEPT ![c] = v]
  BY DEF ReportHealth, Rests, Stands
<1>5. /\ v \in [pc : Pcs, names : SUBSET Migrations] /\ v.names = {}
      /\ v.pc \notin Writing \cup {"failing", "orphan"}
  BY DEF Pcs, Writing
<1>6. NoGap' /\ applied' \subseteq Migrations
  BY <1>1 DEF SInv, NoGap, SchemaTypeOK
<1>. HIDE DEF v
<1>7. /\ answer' \in [Calls -> {"none", "ok", "failed", "busy"}]
      /\ \A d \in Calls : answer'[d] = "ok" => answer[d] = "ok" \/ BundleOf(d) \subseteq applied'
      /\ \A d \in Calls : answer'[d] = "failed" => answer[d] = "failed"
  BY <1>1, <1>2, <1>3 DEF SInv, SchemaTypeOK
<1>. QED BY <1>1, <1>4, <1>5, <1>6, <1>7, CallSteps DEF SInv, SchemaTypeOK

-----------------------------------------------------------------------------
(* The schema: steps that take the lock, write and let go.                 *)

LEMMA TakeLockKeeps == ASSUME SInv, NEW c \in Calls, TakeLock(c) PROVE SInv'
<1>1. UNCHANGED <<applied, isCurrent, hasFailed, disturbed>>
  BY DEF TakeLock, memoVars
<1>2. CASE MovesTo(c, "wait") /\ UNCHANGED lock
  BY <1>1, <1>2, MoveKeeps
<1>3. CASE MayTake /\ lock' = [state |-> "held", by |-> c] /\ Stands(c, "apply", applied) /\ UNCHANGED answer
  <2>. DEFINE v == [pc |-> "apply", names |-> applied]
  <2>1. call' = [call EXCEPT ![c] = v]
    BY <1>3 DEF Stands
  <2>2. /\ v \in [pc : Pcs, names : SUBSET Migrations]
        /\ v.names = applied /\ v.pc = "apply"
    BY DEF Pcs, SInv, SchemaTypeOK
  <2>3. NoGap' /\ applied' \subseteq Migrations
    BY <1>1 DEF SInv, NoGap, SchemaTypeOK
  <2>. HIDE DEF v
  <2>4. ~disturbed => \A d \in Calls : call[d].pc \notin Writing
    BY <1>3 DEF SInv, Exclusive, MayTake
  <2>5. lock' \in [state : {"free", "held", "expired"}, by : Calls \cup {Nobody}]
    BY <1>3
  <2>. QED BY <1>1, <1>3, <2>1, <2>2, <2>3, <2>4, <2>5, CallSteps DEF SInv, SchemaTypeOK
<1>. QED BY <1>2, <1>3 DEF TakeLock

(* Whoever writes undisturbed is the only one who does.                     *)
LEMMA WritesAlone ==
    ASSUME SInv, ~disturbed, NEW c \in Calls, call[c].pc \in Writing
    PROVE  /\ lock.state = "held" /\ lock.by = c /\ call[c].names = applied
           /\ \A d \in Calls \ {c} : call[d].pc \notin Writing
BY DEF SInv, Exclusive

(* A migration's effects, whoever sent it.                                  *)
LEMMA LandingTyped ==
    ASSUME SInv, NEW c \in Calls, Missing(c) # {}, Lands(c, First(Missing(c)))
    PROVE  /\ applied' = applied \cup {First(Missing(c))} /\ First(Missing(c)) \in Migrations
           /\ NoGap' /\ applied' \subseteq Migrations
           /\ lock' \in [state : {"free", "held", "expired"}, by : Calls \cup {Nobody}]
<1>1. applied' = applied \cup {First(Missing(c))}
  BY DEF Lands
<1>2. lock' \in [state : {"free", "held", "expired"}, by : Calls \cup {Nobody}]
  BY DEF Lands, SInv, SchemaTypeOK
<1>. QED BY <1>1, <1>2, LandingLeavesNoGap, NextMigration

LEMMA ApplyKeeps == ASSUME SInv, NEW c \in Calls, Apply(c) PROVE SInv'
<1>1. /\ UNCHANGED <<isCurrent, hasFailed, disturbed, answer>>
      /\ call[c].pc = "apply" /\ Missing(c) # {}
  BY DEF Apply, memoVars, MovesTo
<1>. DEFINE m == First(Missing(c))
<1>2. m \in Migrations /\ m \in Missing(c)
  BY <1>1, NextMigration
<1>3. call[c].pc \in Writing /\ call[c].names \subseteq applied /\ call[c].names \subseteq Migrations
  BY <1>1 DEF Writing, SInv, ReadIsApplied, SchemaTypeOK
<1>4. CASE Lands(c, m) /\ Stands(c, "apply", call[c].names \cup {m})
  <2>. DEFINE v == [pc |-> "apply", names |-> call[c].names \cup {m}]
  <2>1. call' = [call EXCEPT ![c] = v]
    BY <1>4 DEF Stands
  <2>2. /\ v \in [pc : Pcs, names : SUBSET Migrations]
        /\ v.names = call[c].names \cup {m} /\ v.pc = "apply"
    BY <1>2, <1>3 DEF Pcs
  <2>. HIDE DEF v
  <2>3. /\ applied' = applied \cup {m} /\ NoGap' /\ applied' \subseteq Migrations
        /\ lock' \in [state : {"free", "held", "expired"}, by : Calls \cup {Nobody}]
    BY <1>1, <1>4, LandingTyped
  <2>4. ~disturbed => /\ lock'.state = "held" /\ lock'.by = c /\ v.names = applied'
                      /\ \A d \in Calls \ {c} : call[d].pc \notin Writing
    <3>. SUFFICES ASSUME ~disturbed
                  PROVE  /\ lock'.state = "held" /\ lock'.by = c /\ v.names = applied'
                         /\ \A d \in Calls \ {c} : call[d].pc \notin Writing
      OBVIOUS
    <3>1. /\ lock.state = "held" /\ lock.by = c /\ call[c].names = applied
          /\ \A d \in Calls \ {c} : call[d].pc \notin Writing
      BY <1>3, WritesAlone
    <3>2. lock'.state = "held" /\ lock'.by = c
      BY <1>4, <3>1 DEF Lands, SInv, SchemaTypeOK
    <3>. QED BY <2>2, <2>3, <3>1, <3>2
  <2>. QED BY <1>1, <1>3, <2>1, <2>2, <2>3, <2>4, CallSteps DEF SInv, SchemaTypeOK
<1>5. CASE m \in applied /\ MovesTo(c, "failing") /\ UNCHANGED <<applied, lock>>
  <2>. DEFINE v == [pc |-> "failing", names |-> call[c].names]
  <2>1. call' = [call EXCEPT ![c] = v]
    BY <1>5 DEF MovesTo, Stands
  <2>2. /\ v \in [pc : Pcs, names : SUBSET Migrations]
        /\ v.names = call[c].names /\ v.pc = "failing"
    BY <1>3 DEF Pcs
  <2>. HIDE DEF v
  <2>3. disturbed
    BY <1>2, <1>3, <1>5, WritesAlone DEF Missing
  <2>4. NoGap' /\ applied' \subseteq Migrations
    BY <1>5 DEF SInv, NoGap, SchemaTypeOK
  <2>. QED BY <1>1, <1>3, <1>5, <2>1, <2>2, <2>3, <2>4, CallSteps DEF SInv, SchemaTypeOK
<1>. QED BY <1>4, <1>5 DEF Apply

LEMMA AbandonedTyped ==
    ASSUME SchemaTypeOK, NEW c \in Calls
    PROVE  /\ Abandoned(c) \in [state : {"free", "held", "expired"}, by : Calls \cup {Nobody}]
           /\ lock.by # c => Abandoned(c) = lock
BY DEF Abandoned, SchemaTypeOK

(* An attempt that is over lets the lock go only if it is its own.          *)
LEMMA ReleaseKeeps == ASSUME SInv, NEW c \in Calls, Release(c) PROVE SInv'
<1>1. UNCHANGED <<applied, disturbed>> /\ IsolateOf[c] \in Isolates
  BY BundlesAreMigrations DEF Release
<1>2. /\ lock' \in [state : {"free", "held", "expired"}, by : Calls \cup {Nobody}]
      /\ lock.by # c => lock' = lock
  BY AbandonedTyped DEF Release, SInv, SchemaTypeOK
<1>3. CASE /\ call[c].pc = "apply" /\ Missing(c) = {} /\ Replies(c, "ok") /\ RemembersCurrent(c)
  <2>1. BundleOf(c) \subseteq applied
    BY <1>3 DEF Missing, SInv, ReadIsApplied
  <2>2. /\ isCurrent' \in [Isolates -> BOOLEAN] /\ hasFailed' \in [Isolates -> BOOLEAN]
        /\ \A i \in Isolates : isCurrent'[i] => isCurrent[i] \/ 1 .. Bundled[i] \subseteq applied
        /\ \A i \in Isolates : hasFailed'[i] => hasFailed[i]
    BY <1>1, <1>3, <2>1 DEF RemembersCurrent, SInv, SchemaTypeOK, BundleOf
  <2>3. ~disturbed => \A d \in Calls \ {c} : call[d].pc \notin Writing
    BY <1>3, WritesAlone DEF Writing
  <2>. QED BY <1>1, <1>2, <1>3, <2>1, <2>2, <2>3, AnswerKeeps DEF SInv, SchemaTypeOK
<1>4. CASE /\ call[c].pc = "failing" /\ Replies(c, "failed")
           /\ hasFailed' = [hasFailed EXCEPT ![IsolateOf[c]] = TRUE] /\ UNCHANGED isCurrent
  <2>1. disturbed
    BY <1>4 DEF SInv, Exclusive
  <2>2. hasFailed' \in [Isolates -> BOOLEAN]
    BY <1>4 DEF SInv, SchemaTypeOK
  <2>. QED BY <1>1, <1>2, <1>4, <2>1, <2>2, AnswerKeeps DEF SInv, SchemaTypeOK
<1>. QED BY <1>3, <1>4 DEF Release

-----------------------------------------------------------------------------
(* The schema: what goes wrong.                                            *)

LEMMA CallFailsKeeps == ASSUME SInv, NEW c \in Calls, CallFails(c) PROVE SInv'
<1>1. UNCHANGED <<applied, isCurrent, hasFailed>> /\ disturbed' = TRUE /\ Replies(c, "failed")
  BY DEF CallFails, memoVars
<1>2. lock' \in [state : {"free", "held", "expired"}, by : Calls \cup {Nobody}]
  BY DEF CallFails, SInv, SchemaTypeOK
<1>. QED BY <1>1, <1>2, AnswerKeeps DEF SInv, SchemaTypeOK

LEMMA ApplyFailsKeeps == ASSUME SInv, NEW c \in Calls, ApplyFails(c) PROVE SInv'
<1>1. /\ UNCHANGED <<isCurrent, hasFailed, answer>> /\ disturbed' = TRUE
      /\ Missing(c) # {} /\ Stands(c, "failing", call[c].names)
  BY DEF ApplyFails, memoVars, MovesTo
<1>2. /\ applied \subseteq applied' /\ NoGap' /\ applied' \subseteq Migrations
      /\ lock' \in [state : {"free", "held", "expired"}, by : Calls \cup {Nobody}]
  <2>1. CASE Lands(c, First(Missing(c)))
    BY <1>1, <2>1, LandingTyped
  <2>2. CASE UNCHANGED <<applied, lock>>
    BY <2>2 DEF SInv, NoGap, SchemaTypeOK
  <2>. QED BY <2>1, <2>2 DEF ApplyFails
<1>. DEFINE v == [pc |-> "failing", names |-> call[c].names]
<1>3. call' = [call EXCEPT ![c] = v]
  BY <1>1 DEF Stands
<1>4. v \in [pc : Pcs, names : SUBSET Migrations] /\ v.names = call[c].names /\ v.pc = "failing"
  BY DEF Pcs, SInv, SchemaTypeOK
<1>. HIDE DEF v
<1>5. v.names \subseteq applied'
  BY <1>2, <1>4 DEF SInv, ReadIsApplied
<1>. QED BY <1>1, <1>2, <1>3, <1>4, <1>5, CallSteps DEF SInv, SchemaTypeOK

LEMMA DiesKeeps == ASSUME SInv, NEW c \in Calls, Dies(c) PROVE SInv'
<1>1. UNCHANGED <<applied, isCurrent, hasFailed, disturbed, answer>>
  BY DEF Dies, memoVars, MovesTo
<1>2. NoGap' /\ applied' \subseteq Migrations
  BY <1>1 DEF SInv, NoGap, SchemaTypeOK
<1>3. CASE /\ call[c].pc = "apply" /\ Missing(c) # {}
           /\ Stands(c, "orphan", call[c].names) /\ UNCHANGED lock
  <2>. DEFINE v == [pc |-> "orphan", names |-> call[c].names]
  <2>1. call' = [call EXCEPT ![c] = v] /\ BundleOf(c) \ v.names # {}
    BY <1>3 DEF Stands, Missing
  <2>2. v \in [pc : Pcs, names : SUBSET Migrations] /\ v.names = call[c].names /\ v.pc = "orphan"
    BY DEF Pcs, SInv, SchemaTypeOK
  <2>. HIDE DEF v
  <2>3. v.names \subseteq applied'
    BY <1>1, <2>2 DEF SInv, ReadIsApplied
  <2>4. ~disturbed => lock.state = "held" /\ lock.by = c /\ v.names = applied
    BY <1>3, <2>2, WritesAlone DEF Writing
  <2>. QED BY <1>1, <1>2, <1>3, <2>1, <2>2, <2>3, <2>4, CallSteps DEF SInv, SchemaTypeOK
<1>4. CASE Rests(c) /\ lock' = Abandoned(c)
  <2>. DEFINE v == [pc |-> "idle", names |-> {}]
  <2>1. call' = [call EXCEPT ![c] = v]
    BY <1>4 DEF Rests, Stands
  <2>2. /\ v \in [pc : Pcs, names : SUBSET Migrations] /\ v.names = {}
        /\ v.pc \notin Writing \cup {"failing", "orphan"}
    BY DEF Pcs, Writing
  <2>. HIDE DEF v
  <2>3. /\ lock' \in [state : {"free", "held", "expired"}, by : Calls \cup {Nobody}]
        /\ lock.by # c => lock' = lock
    BY <1>4, AbandonedTyped DEF SInv
  <2>4. ~disturbed => \A d \in Calls \ {c} : call[d].pc \in Writing => lock' = lock
    BY <2>3, WritesAlone
  <2>. QED BY <1>1, <1>2, <2>1, <2>2, <2>3, <2>4, CallSteps DEF SInv, SchemaTypeOK
<1>. QED BY <1>3, <1>4 DEF Dies, MovesTo

(* A migration sent by a call that ended lands, or does not.                *)
LEMMA OrphanEndsKeeps == ASSUME SInv, NEW c \in Calls, OrphanEnds(c) PROVE SInv'
<1>1. UNCHANGED <<isCurrent, hasFailed, disturbed, answer>>
  BY DEF OrphanEnds, memoVars
<1>2. call[c].pc \in Writing /\ Missing(c) # {}
  BY DEF OrphanEnds, Writing, SInv, OrphanHasOne
<1>. DEFINE m == First(Missing(c))
<1>3. /\ applied \subseteq applied' /\ NoGap' /\ applied' \subseteq Migrations
      /\ lock' \in [state : {"free", "held", "expired"}, by : Calls \cup {Nobody}]
  <2>1. CASE applied' = applied \cup {m} /\ lock' = IF lock.by = c THEN [state |-> "held", by |-> Nobody] ELSE lock
    BY <1>2, <2>1, LandingLeavesNoGap DEF SInv, SchemaTypeOK
  <2>2. CASE lock' = Abandoned(c) /\ UNCHANGED applied
    BY <2>2, AbandonedTyped DEF SInv, NoGap, SchemaTypeOK
  <2>. QED BY <2>1, <2>2 DEF OrphanEnds
<1>. DEFINE v == [pc |-> "idle", names |-> {}]
<1>4. call' = [call EXCEPT ![c] = v]
  BY DEF OrphanEnds, Rests, Stands
<1>5. /\ v \in [pc : Pcs, names : SUBSET Migrations] /\ v.names = {}
      /\ v.pc \notin Writing \cup {"failing", "orphan"}
  BY DEF Pcs, Writing
<1>. HIDE DEF v
<1>6. ~disturbed => \A d \in Calls \ {c} : call[d].pc \notin Writing
  BY <1>2, WritesAlone
<1>. QED BY <1>1, <1>3, <1>4, <1>5, <1>6, CallSteps DEF SInv, SchemaTypeOK

-----------------------------------------------------------------------------
(* The schema: steps of no call.                                           *)

LEMMA OtherSteps ==
    ASSUME SInv,
           \/ \E i \in Isolates : PublicLook(i) \/ Forgets(i)
           \/ LockExpires
           \/ UNCHANGED schemaVars
    PROVE  SInv'
<1>1. UNCHANGED <<applied, call, answer>>
  BY DEF PublicLook, Forgets, LockExpires, schemaVars, memoVars
<1>2. /\ isCurrent' \in [Isolates -> BOOLEAN] /\ hasFailed' \in [Isolates -> BOOLEAN]
      /\ \A i \in Isolates : isCurrent'[i] => isCurrent[i] \/ 1 .. Bundled[i] \subseteq applied
      /\ \A i \in Isolates : hasFailed'[i] => hasFailed[i]
  BY DEF PublicLook, Forgets, LockExpires, schemaVars, memoVars, SInv, SchemaTypeOK
<1>3. /\ lock' \in [state : {"free", "held", "expired"}, by : Calls \cup {Nobody}]
      /\ disturbed' \in BOOLEAN
      /\ ~disturbed' => ~disturbed
      /\ ~disturbed' => lock' = lock \/ lock.by = Nobody
  BY DEF PublicLook, Forgets, LockExpires, schemaVars, memoVars, SInv, SchemaTypeOK
<1>4. SchemaTypeOK'
  BY <1>1, <1>2, <1>3 DEF SInv, SchemaTypeOK
<1>5. NoGap' /\ CurrentIsCurrent' /\ ReadIsApplied' /\ OrphanHasOne'
  BY <1>1, <1>2 DEF SInv, NoGap, CurrentIsCurrent, ReadIsApplied, OrphanHasOne, Missing, BundleOf
<1>6. Exclusive'
  <2>. SUFFICES ASSUME ~disturbed' PROVE Exclusive'
    BY DEF Exclusive
  <2>1. \A c \in Calls : call[c].pc \in Writing => lock' = lock
    BY <1>3, WritesAlone, NobodyAssumption
  <2>. QED BY <1>1, <1>2, <1>3, <2>1 DEF SInv, Exclusive
<1>. QED BY <1>4, <1>5, <1>6 DEF SInv

-----------------------------------------------------------------------------
(* The schema: the theorems.                                               *)

(* Every step keeps the invariant.                                          *)
LEMMA SchemaInductive == SInv /\ [SchemaNext]_schemaVars => SInv'
<1>. SUFFICES ASSUME SInv, [SchemaNext]_schemaVars PROVE SInv'
  OBVIOUS
<1>1. ASSUME NEW c \in Calls,
             \/ Ensure(c) \/ ReadApplied(c) \/ LookAtLock(c) \/ TakeLock(c) \/ Wait(c)
             \/ Apply(c) \/ Release(c) \/ ReportHealth(c)
             \/ CallFails(c) \/ ApplyFails(c) \/ Dies(c) \/ OrphanEnds(c)
      PROVE  SInv'
  BY <1>1, EnsureKeeps, ReadAppliedKeeps, LookAtLockKeeps, TakeLockKeeps, WaitKeeps, ApplyKeeps,
     ReleaseKeeps, ReportHealthKeeps, CallFailsKeeps, ApplyFailsKeeps, DiesKeeps, OrphanEndsKeeps
<1>. QED BY <1>1, OtherSteps DEF SchemaNext

(* The invariant holds in every state.                                      *)
LEMMA SchemaInvariant == SchemaSpec => []SInv
BY InitKeeps, SchemaInductive, PTL DEF SchemaSpec

(* The state of the schema and of the calls is of its type.                 *)
THEOREM SchemaTypeCorrect == SchemaSpec => []SchemaTypeOK
<1>1. SInv => SchemaTypeOK
  BY DEF SInv
<1>. QED BY <1>1, SchemaInvariant, PTL

(* For any isolates, bundles and calls: migrations go in without a gap, what  *)
(* a call said of its bundle's schema is so for good, and no call reports a  *)
(* failed migration unless a database call failed or outlived its lock.     *)
THEOREM SchemaAnswersStayTrue == SchemaSpec => []SchemaAnswersAreTrue
<1>1. SInv => SchemaAnswersAreTrue
  BY DEF SInv, Exclusive, SchemaAnswersAreTrue
<1>. QED BY <1>1, SchemaInvariant, PTL

-----------------------------------------------------------------------------
(* What a run spends: the invariant.                                        *)

\* A check that is not at work holds nothing; one at work, what it may still make.
TicketOK(c) ==
    LET t == ticket[c] IN
    /\ t.pc \notin {"probe", "recheck"} => t.reserved = 0
    /\ t.pc = "probe" => t.reserved = Probe[c] + (IF t.held THEN Recheck[c] ELSE 0)
    /\ t.pc = "recheck" => t.reserved = Probe[c] + Recheck[c] /\ t.made <= Probe[c]

\* The holds add up to the fetches reserved: f is their running total.
Totals(f) ==
    /\ f \in [0 .. NumChecks -> Int] /\ f[0] = 0 /\ f[NumChecks] = reserved
    /\ \A c \in Checks : f[c] = f[c - 1] + ticket[c].reserved

Paid == In({"probe", "recheck", "done"})
ChecksInv ==
    /\ \A c \in Checks : TicketOK(c)
    /\ \E f \in [0 .. NumChecks -> Int] : Totals(f)
    /\ phase # "checks" => In({"done", "deferred"}) = Checks
    /\ fetches + reserved <= Subrequests
    /\ Cardinality(Paid) <= committed
    /\ committed > 0 => 1 + committed + TailReserve + Reserve <= D1Queries

TokenFetch == IF token THEN 1 ELSE 0
EarlyPhases == {"checks", "reread", "plan"}
WritePhases == {"together", "alone", "tail", "retail"}
SendsInv ==
    /\ phase \in EarlyPhases => take = 0 /\ retried = 0
    /\ phase = "checks" => extra = 0
    /\ phase = "together" => retried = 0
    /\ take > 0 => fetches + take <= Subrequests
    /\ phase \in EarlyPhases \cup WritePhases => left = 0 /\ sends = 0 /\ ~token
    /\ phase \in {"deliver", "email"} => sends + left <= take + TokenFetch
    /\ phase \in {"finish", "release", "over"} => sends <= take + TokenFetch + 1

ClaimCost == take * NotificationD1Cost
QueriesInv ==
    /\ phase = "checks" => usage = 1
    /\ phase \in {"reread", "plan"} => usage <= D1Queries - 2 /\ (extra = 0 => usage <= 2)
    /\ phase = "together" => usage <= D1Queries - 1
    /\ phase \in {"alone", "tail"} => usage + ClaimCost <= D1Queries - 1
    /\ phase = "retail" => usage + ClaimCost <= D1Queries
    /\ phase \in {"deliver", "email", "finish"} => usage <= D1Queries
    /\ phase = "release" => usage <= D1Queries + 1
    /\ phase = "over" => usage <= D1Queries + 2
    /\ phase = "together" /\ extra = 0 =>
         usage <= 3 /\ (take > 0 => usage + ClaimCost + committed <= D1Queries - 2)
    /\ phase = "alone" /\ extra = 0 =>
         usage <= 4 + retried /\ (take > 0 => usage + ClaimCost + committed <= D1Queries - 1 + retried)

BudgetInv == BudgetTypeOK /\ ChecksInv /\ SendsInv /\ QueriesInv

-----------------------------------------------------------------------------
(* What a run spends: sums and counts.                                     *)

\* The checks are finitely many.
LEMMA ChecksFinite ==
    /\ NumChecks \in Nat /\ IsFiniteSet(Checks)
    /\ \A cs \in SUBSET Checks : IsFiniteSet(cs) /\ Cardinality(cs) \in Nat
<1>1. NumChecks \in Nat /\ IsFiniteSet(Checks)
  BY BudgetAssumption, FS_Interval DEF Checks
<1>2. \A cs \in SUBSET Checks : IsFiniteSet(cs)
  BY <1>1, FS_Subset
<1>. QED BY <1>1, <1>2, FS_CardinalityType

\* Where nothing is held, nothing is reserved.
LEMMA NothingHeld ==
    ASSUME NEW f \in [0 .. NumChecks -> Int], Totals(f), \A c \in Checks : ticket[c].reserved = 0
    PROVE  reserved = 0
<1>. DEFINE Less == {ss \in Nat \X Nat : ss[1] < ss[2]}
            Off == {i \in 0 .. NumChecks : f[i] # 0}
<1>0. NumChecks \in Nat
  BY ChecksFinite
<1>1. Off = {}
  <2>. SUFFICES ASSUME Off # {} PROVE FALSE
    OBVIOUS
  <2>1. IsWellFoundedOn(Less, Nat)
    BY NatLessThanWellFounded DEF OpToRel
  <2>2. Off \subseteq Nat
    BY <1>0
  <2>3. PICK m \in Off : \A n \in Off : ~(<<n, m>> \in Less)
    <3>. HIDE DEF Less, Off
    <3>. QED BY <2>1, <2>2, WFMin
  <2>4. m \in 1 .. NumChecks /\ m - 1 \in 0 .. NumChecks /\ f[m] # 0
    BY <1>0 DEF Totals
  <2>5. f[m] = f[m - 1]
    BY <2>4 DEF Totals, Checks
  <2>6. m - 1 \in Off /\ <<m - 1, m>> \in Less
    BY <1>0, <2>4, <2>5
  <2>. QED BY <2>3, <2>6
<1>. QED BY <1>0, <1>1 DEF Totals

\* One hold changes, and with it the sum.
LEMMA OneHoldMoves ==
    ASSUME NEW f \in [0 .. NumChecks -> Int], Totals(f), NEW c \in Checks, NEW n \in Int,
           reserved' = reserved + n, \A d \in Checks : ticket[d].reserved \in Int,
           ticket'[c].reserved = ticket[c].reserved + n,
           \A d \in Checks \ {c} : ticket'[d].reserved = ticket[d].reserved
    PROVE  \E g \in [0 .. NumChecks -> Int] : Totals(g)'
<1>. DEFINE g == [i \in 0 .. NumChecks |-> IF i >= c THEN f[i] + n ELSE f[i]]
<1>0. NumChecks \in Nat /\ c \in 1 .. NumChecks
  BY ChecksFinite DEF Checks
<1>1. g \in [0 .. NumChecks -> Int] /\ g[0] = 0 /\ g[NumChecks] = reserved'
  BY <1>0 DEF Totals
<1>2. ASSUME NEW d \in Checks
      PROVE  g[d] = g[d - 1] + ticket'[d].reserved
  <2>0. d \in 1 .. NumChecks /\ d - 1 \in 0 .. NumChecks /\ d \in 0 .. NumChecks /\ f[d - 1] \in Int /\ f[d] \in Int
    BY <1>0 DEF Checks
  <2>1. f[d] = f[d - 1] + ticket[d].reserved
    BY DEF Totals
  <2>2. CASE d < c
    <3>1. g[d] = f[d] /\ g[d - 1] = f[d - 1] /\ d # c
      BY <1>0, <2>0, <2>2
    <3>. QED BY <2>1, <3>1
  <2>3. CASE d = c
    <3>1. g[d] = f[d] + n /\ g[d - 1] = f[d - 1]
      BY <1>0, <2>0, <2>3
    <3>. QED BY <2>0, <2>1, <2>3, <3>1
  <2>4. CASE d > c
    <3>1. g[d] = f[d] + n /\ g[d - 1] = f[d - 1] + n /\ d # c
      BY <1>0, <2>0, <2>4
    <3>2. ticket'[d].reserved = ticket[d].reserved /\ ticket[d].reserved \in Int
      BY <3>1
    <3>. HIDE DEF g
    <3>. QED BY <2>0, <2>1, <3>1, <3>2
  <2>. QED BY <1>0, <2>0, <2>2, <2>3, <2>4
<1>. HIDE DEF g
<1>. QED BY <1>1, <1>2 DEF Totals

\* What is paid for grows by one check, or loses one.
LEMMA PaidMoves ==
    ASSUME NEW c \in Checks, Cardinality(Paid) <= committed, committed \in Nat
    PROVE  /\ Paid' \subseteq Paid \cup {c} /\ committed' = committed + 1 => Cardinality(Paid') <= committed'
           /\ Paid' \subseteq Paid /\ committed' = committed => Cardinality(Paid') <= committed'
<1>1. Paid \in SUBSET Checks /\ IsFiniteSet(Paid) /\ Cardinality(Paid) \in Nat
  BY ChecksFinite DEF Paid, In
<1>2. IsFiniteSet(Paid \cup {c}) /\ Cardinality(Paid \cup {c}) <= Cardinality(Paid) + 1 /\ Cardinality(Paid \cup {c}) \in Nat
  <2>1. IsFiniteSet(Paid \cup {c}) /\ (Cardinality(Paid \cup {c}) = Cardinality(Paid) \/ Cardinality(Paid \cup {c}) = Cardinality(Paid) + 1)
    BY <1>1, FS_AddElement
  <2>. QED BY <1>1, <2>1
<1>3. Paid' \subseteq Paid \cup {c} => Cardinality(Paid') <= Cardinality(Paid \cup {c}) /\ Cardinality(Paid') \in Nat
  BY <1>2, FS_Subset, FS_CardinalityType
<1>4. Paid' \subseteq Paid => Cardinality(Paid') <= Cardinality(Paid) /\ Cardinality(Paid') \in Nat
  BY <1>1, FS_Subset, FS_CardinalityType
<1>. QED BY <1>1, <1>2, <1>3, <1>4

-----------------------------------------------------------------------------
(* What a run spends: the checks.                                          *)

TicketTypes == [pc : {"due", "waiting", "woken", "probe", "recheck", "done", "deferred"},
                reserved : Nat, held : BOOLEAN, made : Nat]

LEMMA BudgetNumbers ==
    /\ NumChecks \in Nat /\ Subrequests \in Nat /\ D1Queries \in Nat /\ EmailD1 \in Nat
    /\ Batch \in Nat /\ NotificationReserve \in Nat \ {0} /\ NotificationD1Cost \in Nat \ {0}
    /\ \A c \in Checks : Probe[c] \in Nat /\ Recheck[c] \in Nat
    /\ Reserve \in Nat \ {0} /\ TailReserve \in Nat /\ TailReserve >= 3 /\ 4 + Reserve <= D1Queries
<1>1. \A m, n \in Nat \ {0} : m * n \in Nat \ {0}
  OBVIOUS
<1>. QED BY <1>1, BudgetAssumption DEF Reserve, TailReserve

\* What a check's step has to leave for all that is said of the checks to hold.
LEMMA CheckMoves ==
    ASSUME BudgetInv, phase = "checks", NEW c \in Checks, NEW n \in Int,
           ticket' \in [Checks -> TicketTypes], UNCHANGED <<usage, phase, tailVars>>,
           ticket'[c].reserved = ticket[c].reserved + n, reserved' = reserved + n, fetches' \in Int,
           \A d \in Checks \ {c} :
             \/ ticket'[d] = ticket[d]
             \/ ticket[d].pc = "waiting" /\ ticket'[d] = [ticket[d] EXCEPT !.pc = "woken"],
           fetches' + reserved' <= Subrequests, TicketOK(c)',
           \/ ticket'[c].pc \in {"probe", "recheck", "done"} /\ committed' = committed + CheckD1
              /\ 1 + committed' + TailReserve + Reserve <= D1Queries
           \/ committed' = committed
              /\ (ticket'[c].pc \in {"probe", "recheck", "done"} => ticket[c].pc \in {"probe", "recheck", "done"})
    PROVE  BudgetInv'
<1>0. BudgetTypeOK /\ ChecksInv /\ SendsInv /\ QueriesInv
  BY DEF BudgetInv
<1>1. BudgetTypeOK' /\ committed \in Nat /\ ticket \in [Checks -> TicketTypes]
  BY <1>0 DEF BudgetTypeOK, TicketTypes, tailVars, CheckD1
<1>2. \A d \in Checks \ {c} : /\ ticket'[d].reserved = ticket[d].reserved /\ TicketOK(d)'
                              /\ ticket'[d].pc \in {"probe", "recheck", "done"} <=> ticket[d].pc \in {"probe", "recheck", "done"}
  <2>. TAKE d \in Checks \ {c}
  <2>1. CASE ticket'[d] = ticket[d]
    BY <1>0, <2>1 DEF ChecksInv, TicketOK
  <2>2. CASE ticket[d].pc = "waiting" /\ ticket'[d] = [ticket[d] EXCEPT !.pc = "woken"]
    <3>1. ticket'[d].pc = "woken" /\ ticket'[d].reserved = ticket[d].reserved
      BY <1>1, <2>2 DEF TicketTypes
    <3>. QED BY <1>0, <2>2, <3>1 DEF ChecksInv, TicketOK
  <2>. QED BY <2>1, <2>2
<1>3. \A d \in Checks : TicketOK(d)'
  BY <1>2
<1>4. \E f \in [0 .. NumChecks -> Int] : Totals(f)'
  <2>1. PICK f \in [0 .. NumChecks -> Int] : Totals(f)
    BY <1>0 DEF ChecksInv
  <2>2. \A d \in Checks : ticket[d].reserved \in Int
    BY <1>1 DEF TicketTypes
  <2>. QED BY <1>2, <2>1, <2>2, OneHoldMoves
<1>5. Cardinality(Paid') <= committed'
  <2>1. \A d \in Checks \ {c} : d \in Paid' <=> d \in Paid
    BY <1>2 DEF Paid, In
  <2>2. Paid' \subseteq Checks
    BY DEF Paid, In
  <2>3. CASE committed' = committed + CheckD1
    BY <1>0, <1>1, <2>1, <2>2, <2>3, PaidMoves DEF CheckD1, ChecksInv
  <2>4. CASE committed' = committed /\ (ticket'[c].pc \in {"probe", "recheck", "done"} => ticket[c].pc \in {"probe", "recheck", "done"})
    <3>1. Paid' \subseteq Paid
      BY <2>1, <2>2, <2>4 DEF Paid, In
    <3>. QED BY <1>0, <1>1, <2>4, <3>1, PaidMoves DEF ChecksInv
  <2>. QED BY <2>3, <2>4
<1>6. committed' > 0 => 1 + committed' + TailReserve + Reserve <= D1Queries
  BY <1>0, <1>1 DEF ChecksInv
<1>7. ChecksInv'
  <2>1. phase' = "checks" /\ TailReserve' = TailReserve /\ Reserve' = Reserve
    BY DEF TailReserve, Reserve
  <2>. QED BY <1>3, <1>4, <1>5, <1>6, <2>1 DEF ChecksInv
<1>8. SendsInv' /\ QueriesInv'
  BY <1>0 DEF SendsInv, QueriesInv, tailVars, TokenFetch, ClaimCost, EarlyPhases, WritePhases
<1>. QED BY <1>1, <1>7, <1>8 DEF BudgetInv

\* A check that waits, wakes or is put off holds nothing before and after.
LEMMA StandsBy ==
    ASSUME BudgetInv, phase = "checks", NEW c \in Checks, NEW pc \in {"waiting", "deferred"},
           ticket[c].pc \in {"due", "woken"}, Becomes(c, pc), UNCHANGED <<usage, fetches, phase, tailVars>>
    PROVE  BudgetInv'
<1>1. /\ ticket \in [Checks -> TicketTypes] /\ TicketOK(c) /\ fetches \in Int /\ reserved \in Int /\ fetches + reserved <= Subrequests
  BY DEF BudgetInv, BudgetTypeOK, TicketTypes, ChecksInv
<1>2. /\ ticket' \in [Checks -> TicketTypes] /\ ticket'[c].pc = pc /\ ticket'[c].reserved = 0 /\ ticket[c].reserved = 0
      /\ \A d \in Checks \ {c} : ticket'[d] = ticket[d]
      /\ UNCHANGED <<committed, reserved>>
  BY <1>1 DEF Becomes, TicketTypes, TicketOK
<1>3. TicketOK(c)'
  BY <1>2 DEF TicketOK
<1>. QED BY <1>1, <1>2, <1>3, CheckMoves

LEMMA StartsPaid ==
    ASSUME BudgetInv, phase = "checks", NEW c \in Checks, ticket[c].pc \in {"due", "woken"},
           NEW hold \in {0, Recheck[c]}, Fits(c, hold), Started(c, hold), UNCHANGED <<usage, fetches, phase, tailVars>>
    PROVE  BudgetInv'
<1>1. /\ ticket \in [Checks -> TicketTypes] /\ TicketOK(c) /\ fetches \in Int /\ reserved \in Int
      /\ usage = 1 /\ committed \in Nat
  BY DEF BudgetInv, BudgetTypeOK, TicketTypes, ChecksInv, QueriesInv
<1>2. Probe[c] \in Nat /\ Recheck[c] \in Nat /\ NotificationReserve \in Nat /\ Subrequests \in Nat
  BY BudgetNumbers
<1>. DEFINE n == Probe[c] + hold
<1>3. /\ ticket' \in [Checks -> TicketTypes] /\ ticket'[c].pc = "probe" /\ ticket'[c].reserved = n
      /\ ticket'[c].held = (hold > 0)
      /\ \A d \in Checks \ {c} : ticket'[d] = ticket[d]
      /\ committed' = committed + CheckD1 /\ reserved' = reserved + n
  BY <1>1, <1>2 DEF Started, TicketTypes
<1>4. n \in Nat /\ ticket[c].reserved = 0
  BY <1>1, <1>2 DEF TicketOK
<1>5. TicketOK(c)'
  <2>1. ticket'[c].held <=> hold > 0
    BY <1>3, Zenon
  <2>3. hold = IF hold > 0 THEN Recheck[c] ELSE 0
    BY <1>2
  <2>2. n = Probe[c] + (IF ticket'[c].held THEN Recheck[c] ELSE 0)
    BY <2>1, <2>3, Zenon
  <2>. HIDE DEF n
  <2>. QED BY <1>3, <2>2 DEF TicketOK
<1>6. fetches' + reserved' <= Subrequests
  BY <1>1, <1>2, <1>3 DEF Fits, FetchesFit
<1>7. 1 + committed' + TailReserve + Reserve <= D1Queries
  BY <1>1, <1>3, BudgetNumbers DEF Fits, CheckD1
<1>. HIDE DEF n
<1>. QED BY <1>1, <1>3, <1>4, <1>5, <1>6, <1>7, CheckMoves

LEMMA StartCheckKeeps ==
    ASSUME BudgetInv, NEW c \in Checks, StartCheck(c)
    PROVE  BudgetInv'
<1>1. phase = "checks" /\ ticket[c].pc \in {"due", "woken"} /\ UNCHANGED <<usage, fetches, phase, tailVars>>
  BY DEF StartCheck, Tries
<1>2. \/ \E pc \in {"waiting", "deferred"} : Becomes(c, pc)
      \/ \E hold \in {0, Recheck[c]} : Fits(c, hold) /\ Started(c, hold)
  BY DEF StartCheck
<1>. QED BY <1>1, <1>2, StandsBy, StartsPaid

\* A check gives back its hold, having made no more.
LEMMA EndKeeps ==
    ASSUME BudgetInv, phase = "checks", NEW c \in Checks, ticket[c].pc \in {"probe", "recheck"},
           NEW spent \in Nat, spent <= ticket[c].reserved, NEW pc \in {"done", "deferred"}, End(c, spent, pc),
           UNCHANGED <<usage, phase, tailVars>>
    PROVE  BudgetInv'
<1>1. /\ ticket \in [Checks -> TicketTypes] /\ fetches \in Int /\ reserved \in Int
      /\ fetches + reserved <= Subrequests /\ ticket[c].reserved \in Nat
  BY DEF BudgetInv, BudgetTypeOK, TicketTypes, ChecksInv
<1>. DEFINE t == [ticket EXCEPT ![c] = [Due EXCEPT !.pc = pc]]
<1>2. /\ t \in [Checks -> TicketTypes] /\ t[c] = [Due EXCEPT !.pc = pc]
      /\ \A d \in Checks \ {c} : t[d] = ticket[d]
  BY <1>1 DEF Due, TicketTypes
<1>3. ticket' = Woken(t) /\ committed' = committed
  BY DEF End
<1>. HIDE DEF t
<1>4. /\ ticket' \in [Checks -> TicketTypes]
      /\ \A d \in Checks : ticket'[d] = t[d] \/ (t[d].pc = "waiting" /\ ticket'[d] = [t[d] EXCEPT !.pc = "woken"])
  BY <1>2, <1>3 DEF Woken, TicketTypes
<1>5. ticket'[c].pc = pc /\ ticket'[c].reserved = 0
  BY <1>2, <1>4 DEF Due
<1>6. TicketOK(c)'
  BY <1>5 DEF TicketOK
<1>7. /\ fetches' \in Int /\ fetches' + reserved' <= Subrequests
      /\ 0 - ticket[c].reserved \in Int /\ ticket'[c].reserved = ticket[c].reserved + (0 - ticket[c].reserved)
      /\ reserved' = reserved + (0 - ticket[c].reserved)
  BY <1>1, <1>5, BudgetNumbers DEF End
<1>8. \A d \in Checks \ {c} :
             \/ ticket'[d] = ticket[d]
             \/ ticket[d].pc = "waiting" /\ ticket'[d] = [ticket[d] EXCEPT !.pc = "woken"]
  BY <1>2, <1>4
<1>. QED BY <1>3, <1>4, <1>6, <1>7, <1>8, CheckMoves

\* A re-check has room of its own, kept back from the start or found then.
LEMMA ConfirmedKeeps ==
    ASSUME BudgetInv, phase = "checks", NEW c \in Checks, ticket[c].pc = "probe",
           NEW n \in 0 .. Probe[c], Confirms(c), Confirmed(c, n), UNCHANGED <<usage, phase, tailVars>>
    PROVE  BudgetInv'
<1>1. /\ ticket \in [Checks -> TicketTypes] /\ TicketOK(c) /\ fetches \in Int /\ reserved \in Int
      /\ fetches + reserved <= Subrequests
  BY DEF BudgetInv, BudgetTypeOK, TicketTypes, ChecksInv
<1>2. Probe[c] \in Nat /\ Recheck[c] \in Nat /\ Subrequests \in Nat /\ n \in Nat /\ n <= Probe[c]
  BY BudgetNumbers
<1>. DEFINE later == IF ticket[c].held THEN 0 ELSE Recheck[c]
<1>3. later \in Nat /\ ticket[c].reserved \in Nat /\ ticket[c].held \in BOOLEAN
  BY <1>1, <1>2 DEF TicketTypes
<1>4. /\ reserved' = reserved + later /\ UNCHANGED <<committed, fetches>>
      /\ ticket' = [ticket EXCEPT ![c] = [pc |-> "recheck", reserved |-> ticket[c].reserved + later, held |-> FALSE, made |-> n]]
  BY DEF Confirmed
<1>5. fetches' + reserved' <= Subrequests /\ ticket[c].reserved + later = Probe[c] + Recheck[c]
  BY <1>1, <1>2, <1>4 DEF Confirms, FetchesFit, TicketOK
<1>. HIDE DEF later
<1>6. /\ ticket' \in [Checks -> TicketTypes] /\ ticket'[c].pc = "recheck" /\ ticket'[c].reserved = ticket[c].reserved + later
      /\ ticket'[c].made = n /\ \A d \in Checks \ {c} : ticket'[d] = ticket[d]
  BY <1>1, <1>2, <1>3, <1>4 DEF TicketTypes
<1>7. TicketOK(c)'
  BY <1>2, <1>5, <1>6 DEF TicketOK
<1>8. later \in Int /\ fetches' \in Int /\ committed' = committed
  BY <1>1, <1>3, <1>4
<1>. QED BY <1>4, <1>5, <1>6, <1>7, <1>8, CheckMoves

\* Only before the checks are over is a check at work.
LEMMA AtWorkEarly ==
    ASSUME BudgetInv, NEW c \in Checks, ticket[c].pc \in {"probe", "recheck"}
    PROVE  phase = "checks" /\ ticket[c].reserved \in Nat /\ TicketOK(c) /\ Probe[c] \in Nat /\ Recheck[c] \in Nat
BY BudgetNumbers DEF BudgetInv, BudgetTypeOK, ChecksInv, In

LEMMA ProbeEndsKeeps ==
    ASSUME BudgetInv, NEW c \in Checks, ProbeEnds(c)
    PROVE  BudgetInv'
<1>1. ticket[c].pc = "probe" /\ UNCHANGED <<usage, phase, tailVars>>
  BY DEF ProbeEnds
<1>2. phase = "checks" /\ ticket[c].reserved \in Nat /\ TicketOK(c) /\ Probe[c] \in Nat /\ Recheck[c] \in Nat
  BY <1>1, AtWorkEarly
<1>3. ticket[c].reserved >= Probe[c]
  BY <1>1, <1>2 DEF TicketOK
<1>4. CASE \E n \in 0 .. Probe[c], pc \in {"done", "deferred"} : End(c, n, pc)
  <2>1. PICK n \in 0 .. Probe[c], pc \in {"done", "deferred"} : End(c, n, pc)
    BY <1>4
  <2>2. n \in Nat /\ n <= ticket[c].reserved
    BY <1>2, <1>3
  <2>. QED BY <1>1, <1>2, <2>1, <2>2, EndKeeps
<1>5. CASE \E n \in 0 .. Probe[c] : Confirms(c) /\ Confirmed(c, n)
  BY <1>1, <1>2, <1>5, ConfirmedKeeps
<1>6. CASE End(c, ticket[c].reserved, "done")
  BY <1>1, <1>2, <1>6, EndKeeps
<1>. QED BY <1>4, <1>5, <1>6 DEF ProbeEnds

LEMMA RecheckEndsKeeps ==
    ASSUME BudgetInv, NEW c \in Checks, RecheckEnds(c)
    PROVE  BudgetInv'
<1>1. ticket[c].pc = "recheck" /\ UNCHANGED <<usage, phase, tailVars>>
  BY DEF RecheckEnds
<1>2. /\ phase = "checks" /\ ticket[c].reserved \in Nat /\ TicketOK(c) /\ Probe[c] \in Nat /\ Recheck[c] \in Nat
      /\ ticket[c].made \in Nat
  BY <1>1, AtWorkEarly DEF BudgetInv, BudgetTypeOK
<1>3. CASE \E n \in 0 .. Recheck[c] : End(c, ticket[c].made + n, "done")
  <2>1. PICK n \in 0 .. Recheck[c] : End(c, ticket[c].made + n, "done")
    BY <1>3
  <2>2. ticket[c].made + n \in Nat /\ ticket[c].made + n <= ticket[c].reserved
    BY <1>1, <1>2 DEF TicketOK
  <2>. QED BY <1>1, <1>2, <2>1, <2>2, EndKeeps
<1>4. CASE End(c, ticket[c].reserved, "done")
  BY <1>1, <1>2, <1>4, EndKeeps
<1>. QED BY <1>3, <1>4 DEF RecheckEnds

-----------------------------------------------------------------------------
(* What a run spends: after the checks.                                    *)

\* What is left of the fetches, and of the checks, when they are over.
LEMMA ChecksOver ==
    ASSUME BudgetInv, In({"done", "deferred"}) = Checks
    PROVE  reserved = 0 /\ fetches <= Subrequests /\ fetches \in Int
<1>1. \A c \in Checks : ticket[c].reserved = 0
  BY DEF In, BudgetInv, ChecksInv, TicketOK
<1>2. PICK f \in [0 .. NumChecks -> Int] : Totals(f)
  BY DEF BudgetInv, ChecksInv
<1>3. reserved = 0
  BY <1>1, <1>2, NothingHeld
<1>. QED BY <1>3 DEF BudgetInv, ChecksInv, BudgetTypeOK

\* The checks stay as they were.
LEMMA ChecksRest ==
    ASSUME BudgetInv, UNCHANGED checkVars, phase' # "checks" => In({"done", "deferred"}) = Checks
    PROVE  ChecksInv'
<1>1. ChecksInv
  BY DEF BudgetInv
<1>2. UNCHANGED <<committed, reserved, fetches, ticket>>
  BY DEF checkVars
<1>3. In({"done", "deferred"})' = In({"done", "deferred"}) /\ Paid' = Paid
  BY <1>2 DEF In, Paid
<1>4. \A c \in Checks : TicketOK(c)'
  BY <1>1, <1>2 DEF ChecksInv, TicketOK
<1>5. \E f \in [0 .. NumChecks -> Int] : Totals(f)'
  BY <1>1, <1>2 DEF ChecksInv, Totals
<1>. QED BY <1>1, <1>2, <1>3, <1>4, <1>5 DEF ChecksInv

\* A product of what is counted, and what fits into what is left.
LEMMA Products ==
    /\ \A m \in Nat, n \in Nat \ {0} : m * n \in Nat /\ m * n >= m
    /\ \A x \in Int, n \in Nat \ {0} : (x \div n) * n <= x /\ x \div n \in Int
    /\ \A x \in Int, m \in Int, n \in Nat \ {0} : m * n <= x => m <= x \div n
    /\ \A l \in Int, m \in Int, n \in Nat \ {0} : l <= m => l * n <= m * n
<1>1. \A m \in Nat, n \in Nat \ {0} : m * n \in Nat /\ m * n >= m
  OBVIOUS
<1>2. \A x \in Int, n \in Nat \ {0} : (x \div n) * n <= x /\ x \div n \in Int
  OBVIOUS
<1>3. \A x \in Int, m \in Int, n \in Nat \ {0} : m * n <= x => m <= x \div n
  OBVIOUS
<1>4. \A l \in Int, m \in Int, n \in Nat \ {0} : l <= m => l * n <= m * n
  OBVIOUS
<1>. QED BY <1>1, <1>2, <1>3, <1>4

\* What the run may claim leaves room for it: in fetches, in queries, and in the
\* queries kept back for the tail.
LEMMA AllowanceFits ==
    ASSUME BudgetInv
    PROVE  /\ Allowance(Batch) \in 0 .. Batch
           /\ Allowance(Batch) > 0 =>
                /\ fetches + Allowance(Batch) <= Subrequests
                /\ Allowance(Batch) * NotificationD1Cost <= D1Left
<1>1. /\ fetches \in Int /\ usage \in Nat /\ committed \in Nat /\ D1Left \in Int
      /\ Subrequests \in Nat /\ Batch \in Nat /\ NotificationD1Cost \in Nat \ {0}
  BY BudgetNumbers DEF BudgetInv, BudgetTypeOK, D1Left
<1>. DEFINE q == D1Left \div NotificationD1Cost
            m == Min(Batch, Min(q, Subrequests - fetches))
<1>2. q \in Int /\ q * NotificationD1Cost <= D1Left
  BY <1>1, Products
<1>. HIDE DEF q
<1>3. m \in Int /\ m <= Batch /\ m <= q /\ m <= Subrequests - fetches
  BY <1>1, <1>2 DEF Min
<1>4. m * NotificationD1Cost <= q * NotificationD1Cost
  BY <1>1, <1>2, <1>3, Products
<1>. HIDE DEF m
<1>5. m * NotificationD1Cost \in Int /\ q * NotificationD1Cost \in Int
  BY <1>1, <1>2, <1>3
<1>6. m * NotificationD1Cost <= D1Left
  BY <1>1, <1>2, <1>4, <1>5
<1>7. Allowance(Batch) = IF m > 0 THEN m ELSE 0
  BY DEF Allowance, m, q
<1>8. m <= Subrequests - fetches => fetches + m <= Subrequests
  BY <1>1, <1>3
<1>. QED BY <1>1, <1>3, <1>6, <1>7, <1>8

LEMMA TailTypes ==
    ASSUME BudgetInv
    PROVE  /\ usage \in Nat /\ committed \in Nat /\ reserved \in Int /\ fetches \in Int
           /\ take \in Nat /\ take <= Batch /\ left \in Nat /\ left <= take
           /\ retried \in Nat /\ extra \in Nat /\ sends \in Nat /\ token \in BOOLEAN
           /\ ClaimCost \in Nat /\ ClaimCost >= take /\ TokenFetch \in {0, 1}
<1>1. BudgetTypeOK /\ Batch \in Nat /\ NotificationD1Cost \in Nat \ {0}
  BY BudgetNumbers DEF BudgetInv
<1>2. /\ usage \in Nat /\ committed \in Nat /\ reserved \in Int /\ fetches \in Int
      /\ take \in Nat /\ take <= Batch /\ left \in Nat /\ left <= take
      /\ retried \in Nat /\ extra \in Nat /\ sends \in Nat /\ token \in BOOLEAN
  BY <1>1 DEF BudgetTypeOK
<1>3. ClaimCost \in Nat /\ ClaimCost >= take
  BY <1>1, <1>2, Products DEF ClaimCost
<1>. QED BY <1>2, <1>3 DEF TokenFetch

LEMMA ReadContextKeeps ==
    ASSUME BudgetInv, ReadContext
    PROVE  BudgetInv'
<1>1. /\ phase = "checks" /\ In({"done", "deferred"}) = Checks /\ UNCHANGED <<checkVars, tailVars>>
      /\ phase' \in {"plan", "reread"} /\ usage' \in {usage, usage + 1}
  BY DEF ReadContext, Spend, Enters
<1>2. ChecksInv'
  BY <1>1, ChecksRest
<1>3. usage = 1 /\ extra = 0
  BY <1>1 DEF BudgetInv, QueriesInv, SendsInv
<1>4. usage' \in Nat /\ usage' <= 2 /\ usage' <= D1Queries - 2
  BY <1>1, <1>3, BudgetNumbers
<1>5. BudgetTypeOK'
  BY <1>1, <1>4 DEF BudgetInv, BudgetTypeOK, Phases, checkVars, tailVars
<1>6. SendsInv'
  BY <1>1 DEF BudgetInv, SendsInv, checkVars, tailVars, EarlyPhases, WritePhases
<1>7. QueriesInv'
  BY <1>1, <1>4 DEF QueriesInv
<1>. QED BY <1>2, <1>5, <1>6, <1>7 DEF BudgetInv

LEMMA RereadKeeps ==
    ASSUME BudgetInv, Reread
    PROVE  BudgetInv'
<1>1. /\ phase = "reread" /\ UNCHANGED <<checkVars, take, left, retried, sends, token>>
      /\ \/ phase' = "reread" /\ usage + 3 <= D1Queries /\ usage' = usage + 1 /\ extra' = extra + 1
         \/ phase' = "plan" /\ UNCHANGED <<usage, extra>>
  BY TailTypes, BudgetNumbers DEF Reread, Spend, Enters, CanSpendD1
<1>2. ChecksInv'
  BY <1>1, ChecksRest DEF BudgetInv, ChecksInv
<1>3. usage \in Nat /\ extra \in Nat /\ D1Queries \in Nat
  BY TailTypes, BudgetNumbers
<1>4. BudgetTypeOK'
  BY <1>1, <1>3 DEF BudgetInv, BudgetTypeOK, Phases, checkVars
<1>5. SendsInv'
  BY <1>1 DEF BudgetInv, SendsInv, checkVars, EarlyPhases, WritePhases
<1>6. QueriesInv'
  BY <1>1, <1>3 DEF BudgetInv, QueriesInv
<1>. QED BY <1>2, <1>4, <1>5, <1>6 DEF BudgetInv

\* A step after the plan: the checks rest, and each part is as it must be.
LEMMA LaterKeeps ==
    ASSUME BudgetInv, UNCHANGED checkVars, phase # "checks", phase' \in Phases,
           take' \in 0 .. Batch, left' \in 0 .. take', usage' \in Nat,
           retried' \in Nat, extra' \in Nat, sends' \in Nat, token' \in BOOLEAN, SendsInv', QueriesInv'
    PROVE  BudgetInv'
<1>1. ChecksInv'
  BY ChecksRest DEF BudgetInv, ChecksInv
<1>2. BudgetTypeOK'
  BY DEF BudgetInv, BudgetTypeOK, checkVars
<1>. QED BY <1>1, <1>2 DEF BudgetInv

\* Rows were claimed, and the queries still fit.
LEMMA ClaimedKeeps ==
    ASSUME BudgetInv, NEW t \in Nat, t <= take', NEW spent \in {0, 1}, Claimed(t, spent),
           phase # "checks", UNCHANGED <<checkVars, retried, extra, sends, token>>,
           sends = 0, take' \in 0 .. Batch, take' > 0 => fetches + take' <= Subrequests,
           usage + spent + (IF t = 0 THEN 0 ELSE 1) <= D1Queries
    PROVE  BudgetInv'
<1>1. PICK n \in 0 .. t, legacy \in 0 .. 1 :
        legacy <= n /\ left' = n /\ usage' = usage + (spent + legacy) /\ phase' = "deliver"
  BY DEF Claimed, Spend, Enters
<1>2. usage \in Nat /\ D1Queries \in Nat /\ retried \in Nat /\ extra \in Nat /\ sends \in Nat /\ token \in BOOLEAN
  BY TailTypes, BudgetNumbers
<1>3. usage' \in Nat /\ usage' <= D1Queries
  BY <1>1, <1>2
<1>4. take' \in Nat /\ left' \in 0 .. take' /\ TokenFetch' \in {0, 1}
  BY <1>1 DEF TokenFetch
<1>5. SendsInv'
  <2>1. phase' = "deliver" /\ sends' = 0 /\ fetches' = fetches
    BY <1>1 DEF checkVars
  <2>2. sends' + left' <= take' + TokenFetch'
    <3>1. take' \in Int /\ left' \in Int /\ left' <= take' /\ TokenFetch' \in Int /\ TokenFetch' >= 0
      BY <1>4
    <3>2. \A l, m, o \in Int : l <= m /\ o >= 0 => 0 + l <= m + o
      OBVIOUS
    <3>. QED BY <2>1, <3>1, <3>2
  <2>. QED BY <2>1, <2>2 DEF SendsInv, EarlyPhases, WritePhases
<1>6. QueriesInv'
  BY <1>1, <1>3 DEF QueriesInv
<1>. QED BY <1>1, <1>2, <1>3, <1>4, <1>5, <1>6, LaterKeeps DEF Phases

LEMMA WritePlanKeeps ==
    ASSUME BudgetInv, WritePlan
    PROVE  BudgetInv'
<1>1. phase = "plan" /\ take' = Allowance(Batch) /\ UNCHANGED <<checkVars, retried, extra, sends, token>>
  BY DEF WritePlan
<1>2. /\ usage \in Nat /\ committed \in Nat /\ D1Queries \in Nat /\ retried \in Nat /\ extra \in Nat /\ sends \in Nat
      /\ token \in BOOLEAN /\ left = 0 /\ TailReserve \in Nat /\ TailReserve >= 3 /\ Batch \in Nat
  BY <1>1, TailTypes, BudgetNumbers DEF BudgetInv, SendsInv, EarlyPhases
<1>3. /\ take' \in 0 .. Batch /\ take' \in Nat
      /\ take' > 0 => fetches + take' <= Subrequests /\ take' * NotificationD1Cost <= D1Left
  BY <1>1, <1>2, AllowanceFits
<1>4. /\ usage <= D1Queries - 2 /\ (extra = 0 => usage <= 2) /\ retried = 0 /\ sends = 0 /\ ~token
  BY <1>1 DEF BudgetInv, QueriesInv, SendsInv, EarlyPhases, WritePhases
<1>5. CASE Claimed(take', 1)
  <2>1. usage + 1 + (IF take' = 0 THEN 0 ELSE 1) <= D1Queries
    BY <1>2, <1>4
  <2>. QED BY <1>1, <1>3, <1>4, <1>5, <2>1, ClaimedKeeps
<1>6. CASE take' = 0 /\ Claimed(0, 0)
  BY <1>1, <1>2, <1>3, <1>4, <1>6, ClaimedKeeps
<1>7. CASE /\ usage' = usage + 1 /\ UNCHANGED left
           /\ \/ phase' \in {"together", "retail"}
              \/ take' = 0 /\ phase' = "alone"
  <2>0. /\ usage' = usage + 1 /\ TailReserve >= 3
        /\ ClaimCost' \in Nat /\ (take' = 0 => ClaimCost' = 0)
        /\ take' > 0 => usage + ClaimCost' + committed <= D1Queries - TailReserve
    <3>1. ClaimCost' = take' * NotificationD1Cost
      BY DEF ClaimCost
    <3>2. NotificationD1Cost \in Nat \ {0}
      BY BudgetNumbers
    <3>3. take' * NotificationD1Cost \in Nat
      <4>1. take' \in Nat
        BY <1>3
      <4>. QED BY <3>2, <4>1, Products
    <3>4. take' = 0 => take' * NotificationD1Cost = 0
      BY <3>2
    <3>5. take' > 0 => take' * NotificationD1Cost <= D1Queries - usage - committed - TailReserve
      BY <1>3 DEF D1Left
    <3>6. \A cc, u, c, d, t \in Int : cc <= d - u - c - t => u + cc + c <= d - t
      OBVIOUS
    <3>7. take' > 0 => usage + ClaimCost' + committed <= D1Queries - TailReserve
      BY <1>2, <3>1, <3>3, <3>5, <3>6
    <3>. QED BY <1>2, <1>7, <3>1, <3>3, <3>4, <3>7
  <2>1. usage' \in Nat /\ usage' <= D1Queries - 1 /\ (extra = 0 => usage' <= 3)
    BY <1>2, <1>4, <1>7
  <2>. HIDE <1>7
  <2>a. \A cc, u, c, d, t \in Int : u + cc + c <= d - t /\ t >= 3 => (u + 1) + cc + c <= d - 2
    OBVIOUS
  <2>b. \A cc, u, c, d \in Int : u + cc + c <= d - 2 /\ c >= 0 => u + cc <= d - 1
    OBVIOUS
  <2>2. take' > 0 => usage' + ClaimCost' + committed <= D1Queries - 2
    <3>1. ClaimCost' \in Int /\ usage \in Int /\ committed \in Int /\ D1Queries \in Int /\ TailReserve \in Int
      BY <1>2, <2>0
    <3>. QED BY <2>0, <2>a, <3>1
  <2>3. take' > 0 => usage' + ClaimCost' <= D1Queries - 1
    <3>1. ClaimCost' \in Int /\ usage' \in Int /\ committed \in Int /\ D1Queries \in Int /\ committed >= 0
      BY <1>2, <2>0, <2>1
    <3>. QED BY <2>2, <2>b, <3>1
  <2>4. usage' + ClaimCost' <= D1Queries - 1
    <3>1. take' = 0 \/ take' > 0
      BY <1>3
    <3>2. CASE take' = 0
      BY <1>2, <2>0, <2>1, <3>2
    <3>. QED BY <2>3, <3>1, <3>2
  <2>4b. usage' + ClaimCost' <= D1Queries
    <3>1. \A m, o \in Int : m <= o - 1 => m <= o
      OBVIOUS
    <3>2. usage' + ClaimCost' \in Int /\ D1Queries \in Int
      BY <1>2, <2>0, <2>1
    <3>. QED BY <2>4, <3>1, <3>2
  <2>5. SendsInv'
    BY <1>1, <1>2, <1>3, <1>4, <1>7 DEF SendsInv, EarlyPhases, WritePhases, checkVars
  <2>6. QueriesInv'
    <3>1. committed' = committed
      BY <1>1 DEF checkVars
    <3>. QED BY <1>1, <1>2, <1>4, <1>7, <2>1, <2>2, <2>4, <2>4b, <3>1 DEF QueriesInv
  <2>7. left' \in 0 .. take' /\ phase' \in Phases
    BY <1>2, <1>3, <1>7 DEF Phases
  <2>. QED BY <1>1, <1>2, <1>3, <2>1, <2>5, <2>6, <2>7, LaterKeeps
<1>. QED BY <1>5, <1>6, <1>7 DEF WritePlan, Spend, Enters

\* A retry leaves room for the run's record and for the rows claimed with it.
LEMMA RetryLeavesRoom ==
    ASSUME BudgetInv, CanRetry, Spend(1)
    PROVE  usage' \in Nat /\ usage' = usage + 1 /\ usage' + ClaimCost <= D1Queries - 1
<1>1. usage \in Int /\ usage \in Nat /\ ClaimCost \in Int /\ D1Queries \in Int
  BY TailTypes, BudgetNumbers
<1>2. usage + 1 + (1 + ClaimCost) <= D1Queries
  BY DEF CanRetry, CanSpendD1, ClaimCost
<1>3. usage' = usage + 1
  BY DEF Spend
<1>4. \A u, k, d \in Int : u + 1 + (1 + k) <= d => (u + 1) + k <= d - 1
  OBVIOUS
<1>. QED BY <1>1, <1>2, <1>3, <1>4

\* The writes are tried again, in parts.
LEMMA WritesGoOn ==
    ASSUME BudgetInv, UNCHANGED <<checkVars, take, left, sends, token>>, phase \in WritePhases,
           phase' \in {"alone", "tail", "retail"}, usage' \in Nat, retried' \in Nat, extra' \in Nat,
           usage' + ClaimCost <= D1Queries, phase' # "retail" => usage' + ClaimCost <= D1Queries - 1,
           phase' = "alone" /\ extra' = 0 => usage' <= 4 + retried',
           phase' = "alone" /\ extra' = 0 /\ take > 0 =>
             usage' + ClaimCost + committed <= D1Queries - 1 + retried'
    PROVE  BudgetInv'
<1>1. /\ ClaimCost' = ClaimCost /\ committed' = committed /\ TokenFetch' = TokenFetch
      /\ fetches' = fetches /\ take' = take /\ left' = left /\ sends' = sends /\ token' = token
  BY DEF ClaimCost, TokenFetch, checkVars
<1>2. left = 0 /\ sends = 0 /\ ~token /\ (take > 0 => fetches + take <= Subrequests)
  BY DEF BudgetInv, SendsInv, WritePhases
<1>3. SendsInv'
  BY <1>1, <1>2 DEF SendsInv, EarlyPhases, WritePhases
<1>4. QueriesInv'
  BY <1>1 DEF QueriesInv
<1>5. phase # "checks" /\ take \in 0 .. Batch /\ left \in 0 .. take /\ sends \in Nat /\ token \in BOOLEAN
  BY TailTypes, BudgetNumbers DEF WritePhases, BudgetInv, BudgetTypeOK
<1>. QED BY <1>1, <1>3, <1>4, <1>5, LaterKeeps DEF Phases

\* What is known while the writes are tried again.
LEMMA WhileWriting ==
    ASSUME BudgetInv, phase \in WritePhases
    PROVE  /\ phase # "checks" /\ sends = 0 /\ take \in 0 .. Batch
           /\ take > 0 => fetches + take <= Subrequests
           /\ phase = "together" => usage <= D1Queries - 1 /\ retried = 0
           /\ phase \in {"alone", "tail"} => usage + ClaimCost <= D1Queries - 1
           /\ phase = "retail" => usage + ClaimCost <= D1Queries
           /\ phase = "together" /\ extra = 0 => usage <= 3
           /\ phase = "together" /\ extra = 0 /\ take > 0 => usage + ClaimCost + committed <= D1Queries - 2
           /\ phase = "alone" /\ extra = 0 => usage <= 4 + retried
           /\ phase = "alone" /\ extra = 0 /\ take > 0 =>
                usage + ClaimCost + committed <= D1Queries - 1 + retried
<1>1. sends = 0 /\ (take > 0 => fetches + take <= Subrequests) /\ (phase = "together" => retried = 0)
  BY DEF BudgetInv, SendsInv, WritePhases
<1>2. take \in 0 .. Batch
  BY DEF BudgetInv, BudgetTypeOK
<1>. QED BY <1>1, <1>2 DEF BudgetInv, QueriesInv, WritePhases

LEMMA WriteTogetherKeeps ==
    ASSUME BudgetInv, WriteTogether
    PROVE  BudgetInv'
<1>1. phase = "together" /\ UNCHANGED <<checkVars, take, retried, extra, sends, token>>
  BY DEF WriteTogether
<1>2. phase \in WritePhases
  BY <1>1 DEF WritePhases
<1>3. /\ usage \in Int /\ ClaimCost \in Int /\ committed \in Int /\ D1Queries \in Int
      /\ extra \in Nat /\ retried \in Nat
  BY TailTypes, BudgetNumbers
<1>4. CASE CanRetry /\ Spend(1) /\ phase' \in {"tail", "alone"} /\ UNCHANGED left
  <2>1. usage' \in Nat /\ usage' = usage + 1 /\ usage' + ClaimCost <= D1Queries - 1
    BY <1>4, RetryLeavesRoom
  <2>2. \A m, d \in Int : m <= d - 1 => m <= d
    OBVIOUS
  <2>3. usage' + ClaimCost \in Int /\ usage' + ClaimCost <= D1Queries
    BY <1>3, <2>1, <2>2
  <2>4. extra = 0 => usage' <= 4 + retried
    BY <1>1, <1>2, <1>3, <2>1, WhileWriting
  <2>5. \A u, k, c, d \in Int : u + k + c <= d - 2 => (u + 1) + k + c <= d - 1 + 0
    OBVIOUS
  <2>6. extra = 0 /\ take > 0 => usage' + ClaimCost + committed <= D1Queries - 1 + retried
    BY <1>1, <1>2, <1>3, <2>1, <2>5, WhileWriting
  <2>. QED BY <1>1, <1>2, <1>3, <1>4, <2>1, <2>3, <2>4, <2>6, WritesGoOn
<1>5. CASE Claimed(0, 0)
  <2>1. usage + 0 + (IF 0 = 0 THEN 0 ELSE 1) <= D1Queries
    BY <1>1, <1>2, <1>3, WhileWriting
  <2>2. phase # "checks" /\ sends = 0 /\ take' \in 0 .. Batch /\ 0 <= take' /\ (take' > 0 => fetches + take' <= Subrequests)
    BY <1>1, <1>2, WhileWriting
  <2>. QED BY <1>1, <1>5, <2>1, <2>2, ClaimedKeeps
<1>. QED BY <1>4, <1>5 DEF WriteTogether, Enters

LEMMA WriteAloneKeeps ==
    ASSUME BudgetInv, WriteAlone
    PROVE  BudgetInv'
<1>1. phase = "alone" /\ UNCHANGED <<checkVars, take, left, sends, token>>
  BY DEF WriteAlone
<1>2. phase \in WritePhases
  BY <1>1 DEF WritePhases
<1>3. /\ usage \in Nat /\ usage \in Int /\ ClaimCost \in Int /\ committed \in Int /\ D1Queries \in Int
      /\ extra \in Nat /\ retried \in Nat
  BY TailTypes, BudgetNumbers
<1>a. \A m, d \in Int : m <= d - 1 => m <= d
  OBVIOUS
<1>4. CASE /\ CanRetry /\ Spend(1) /\ phase' = phase
           /\ \/ retried' = retried + 1 /\ extra' = extra
              \/ extra' = extra + 1 /\ retried' = retried
  <2>1. usage' \in Nat /\ usage' = usage + 1 /\ usage' + ClaimCost <= D1Queries - 1
    BY <1>4, RetryLeavesRoom
  <2>2. usage' + ClaimCost \in Int /\ usage' + ClaimCost <= D1Queries
    BY <1>3, <2>1, <1>a
  <2>3. /\ retried' \in Nat /\ extra' \in Nat
        /\ extra' = 0 => extra = 0 /\ retried' = retried + 1
    BY <1>3, <1>4
  <2>4. extra' = 0 => usage' <= 4 + retried'
    BY <1>1, <1>2, <1>3, <2>1, <2>3, WhileWriting
  <2>5. \A u, k, c, d, r \in Int : u + k + c <= d - 1 + r => (u + 1) + k + c <= d - 1 + (r + 1)
    OBVIOUS
  <2>6. extra' = 0 /\ take > 0 => usage' + ClaimCost + committed <= D1Queries - 1 + retried'
    BY <1>1, <1>2, <1>3, <2>1, <2>3, <2>5, WhileWriting
  <2>. QED BY <1>1, <1>2, <1>4, <2>1, <2>2, <2>3, <2>4, <2>6, WritesGoOn
<1>5. CASE phase' = "tail" /\ UNCHANGED <<usage, retried, extra>>
  <2>1. usage' + ClaimCost \in Int /\ usage' + ClaimCost <= D1Queries - 1
    BY <1>1, <1>2, <1>3, <1>5, WhileWriting
  <2>2. usage' + ClaimCost <= D1Queries
    BY <1>3, <1>a, <2>1
  <2>. QED BY <1>1, <1>2, <1>3, <1>5, <2>1, <2>2, WritesGoOn
<1>. QED BY <1>4, <1>5 DEF WriteAlone, Enters

LEMMA WriteTailKeeps ==
    ASSUME BudgetInv, WriteTail
    PROVE  BudgetInv'
<1>1. phase = "tail" /\ UNCHANGED <<checkVars, take, retried, extra, sends, token>>
  BY DEF WriteTail
<1>2. phase \in WritePhases
  BY <1>1 DEF WritePhases
<1>3. /\ usage \in Nat /\ usage \in Int /\ ClaimCost \in Int /\ D1Queries \in Int
      /\ extra \in Nat /\ retried \in Nat /\ take \in Nat /\ take \in Int /\ ClaimCost >= take
  BY TailTypes, BudgetNumbers
<1>4. /\ phase # "checks" /\ sends = 0 /\ take' = take /\ take' \in 0 .. Batch
      /\ (take' > 0 => fetches + take' <= Subrequests)
  BY <1>1, <1>2, WhileWriting
<1>5. usage + ClaimCost <= D1Queries - 1
  BY <1>1, <1>2, WhileWriting
<1>6. CASE Claimed(take, 1)
  <2>1. \A u, k, d, t \in Int : u + k <= d - 1 /\ k >= t /\ t >= 0 => u + 1 + (IF t = 0 THEN 0 ELSE 1) <= d
    OBVIOUS
  <2>2. usage + 1 + (IF take = 0 THEN 0 ELSE 1) <= D1Queries
    BY <1>3, <1>5, <2>1
  <2>. QED BY <1>1, <1>3, <1>4, <1>6, <2>2, ClaimedKeeps
<1>7. CASE take = 0 /\ Claimed(0, 0)
  <2>1. usage + 0 + (IF 0 = 0 THEN 0 ELSE 1) <= D1Queries
    BY <1>3, <1>5, <1>7
  <2>. QED BY <1>1, <1>3, <1>4, <1>7, <2>1, ClaimedKeeps
<1>8. CASE usage' = usage + 1 /\ phase' = "retail" /\ UNCHANGED left
  <2>1. \A u, k, d \in Int : u + k <= d - 1 => (u + 1) + k <= d
    OBVIOUS
  <2>2. usage' \in Nat /\ usage' + ClaimCost <= D1Queries
    BY <1>3, <1>5, <1>8, <2>1
  <2>. QED BY <1>1, <1>2, <1>3, <1>8, <2>2, WritesGoOn
<1>. QED BY <1>6, <1>7, <1>8 DEF WriteTail, Spend, Enters

LEMMA TailAloneKeeps ==
    ASSUME BudgetInv, TailAlone
    PROVE  BudgetInv'
<1>1. phase = "retail" /\ UNCHANGED <<checkVars, take, retried, extra, sends, token>>
  BY DEF TailAlone
<1>2. phase \in WritePhases
  BY <1>1 DEF WritePhases
<1>3. /\ usage \in Nat /\ usage \in Int /\ ClaimCost \in Int /\ D1Queries \in Int
      /\ extra \in Nat /\ retried \in Nat /\ take \in Nat /\ take \in Int /\ ClaimCost >= take
  BY TailTypes, BudgetNumbers
<1>4. /\ phase # "checks" /\ sends = 0 /\ take' = take /\ take' \in 0 .. Batch
      /\ (take' > 0 => fetches + take' <= Subrequests) /\ usage + ClaimCost <= D1Queries
  BY <1>1, <1>2, WhileWriting
<1>5. CASE CanRetry /\ Spend(1) /\ UNCHANGED <<phase, left>>
  <2>1. usage' \in Nat /\ usage' = usage + 1 /\ usage' + ClaimCost <= D1Queries - 1
    BY <1>5, RetryLeavesRoom
  <2>2. \A m, d \in Int : m <= d - 1 => m <= d
    OBVIOUS
  <2>3. usage' + ClaimCost \in Int /\ usage' + ClaimCost <= D1Queries
    BY <1>3, <2>1, <2>2
  <2>. QED BY <1>1, <1>2, <1>3, <1>5, <2>1, <2>3, WritesGoOn
<1>6. CASE Claimed(take, 0)
  <2>1. \A u, k, d, t \in Int : u + k <= d /\ k >= t /\ t >= 0 => u + 0 + (IF t = 0 THEN 0 ELSE 1) <= d
    OBVIOUS
  <2>2. usage + 0 + (IF take = 0 THEN 0 ELSE 1) <= D1Queries
    BY <1>3, <1>4, <2>1
  <2>. QED BY <1>1, <1>3, <1>4, <1>6, <2>2, ClaimedKeeps
<1>. QED BY <1>5, <1>6 DEF TailAlone

\* What is known when the deliveries, the email and the record come.
LEMMA After ==
    ASSUME BudgetInv, phase \in {"deliver", "email", "finish", "release"}
    PROVE  /\ phase # "checks" /\ (take > 0 => fetches + take <= Subrequests)
           /\ take \in 0 .. Batch /\ left \in 0 .. take
           /\ usage \in Int /\ usage \in Nat /\ D1Queries \in Int /\ retried \in Nat /\ extra \in Nat
           /\ sends \in Nat /\ token \in BOOLEAN /\ TokenFetch \in {0, 1}
           /\ phase # "release" => usage <= D1Queries
           /\ phase = "release" => usage <= D1Queries + 1
           /\ phase \in {"deliver", "email"} => sends + left <= take + TokenFetch
           /\ phase \in {"finish", "release"} => sends <= take + TokenFetch + 1
<1>1. /\ (take > 0 => fetches + take <= Subrequests)
      /\ phase \in {"deliver", "email"} => sends + left <= take + TokenFetch
      /\ phase \in {"finish", "release"} => sends <= take + TokenFetch + 1
  BY DEF BudgetInv, SendsInv
<1>2. take \in 0 .. Batch /\ left \in 0 .. take
  BY DEF BudgetInv, BudgetTypeOK
<1>3. (phase # "release" => usage <= D1Queries) /\ (phase = "release" => usage <= D1Queries + 1)
  BY DEF BudgetInv, QueriesInv
<1>. QED BY <1>1, <1>2, <1>3, TailTypes, BudgetNumbers

LEMMA DeliverKeeps ==
    ASSUME BudgetInv, Deliver
    PROVE  BudgetInv'
<1>1. phase = "deliver" /\ UNCHANGED <<checkVars, take, retried, extra>>
  BY DEF Deliver
<1>2. /\ phase # "checks" /\ (take > 0 => fetches + take <= Subrequests)
      /\ take \in 0 .. Batch /\ left \in 0 .. take
      /\ usage \in Int /\ usage \in Nat /\ D1Queries \in Int /\ retried \in Nat /\ extra \in Nat
      /\ sends \in Nat /\ token \in BOOLEAN /\ TokenFetch \in {0, 1}
      /\ usage <= D1Queries /\ sends + left <= take + TokenFetch
  BY <1>1, After
<1>. TokenFetch' = (IF token' THEN 1 ELSE 0) /\ fetches' = fetches /\ take' = take
  BY <1>1 DEF TokenFetch, checkVars
<1>3. CASE /\ left > 0 /\ left' = left - 1 /\ phase' = phase
           /\ \E cost \in 1 .. DeliveryD1 : CanSpendD1(cost) /\ \E n \in 1 .. cost : Spend(n)
           /\ \E n \in 0 .. (IF token THEN 1 ELSE 2) : sends' = sends + n /\ token' = (token \/ n = 2)
  <2>0. PICK cost \in 1 .. DeliveryD1 : CanSpendD1(cost) /\ \E n \in 1 .. cost : Spend(n)
    BY <1>3
  <2>1. PICK n \in 1 .. cost : usage + 1 + cost <= D1Queries /\ usage' = usage + n
    BY <2>0 DEF CanSpendD1, Spend
  <2>2. cost \in Int /\ n \in Int /\ n >= 1 /\ n <= cost
    BY BudgetAssumption DEF BudgetAssumption
  <2>3. usage' \in Nat /\ usage' <= D1Queries
    BY <1>2, <2>1, <2>2
  <2>4. PICK m \in 0 .. (IF token THEN 1 ELSE 2) : sends' = sends + m /\ (token' <=> (token \/ m = 2)) /\ token' \in BOOLEAN
    BY <1>2, <1>3
  <2>5. sends' \in Nat /\ left' \in Nat /\ left' \in 0 .. take' /\ left' = left - 1 /\ left \in Int /\ take \in Int
    BY <1>2, <1>3, <2>4
  <2>9. sends' + left' <= take' + TokenFetch'
    <3>1. m <= 1 \/ (m = 2 /\ ~token /\ token')
      BY <2>4
    <3>2. CASE m <= 1
      <4>1. TokenFetch' >= TokenFetch /\ TokenFetch' \in Int /\ TokenFetch \in Int /\ m \in Int /\ sends \in Int
        BY <1>2, <2>4 DEF TokenFetch
      <4>2. \A s, l, t, f, g, k \in Int : s + l <= t + f /\ k <= 1 /\ g >= f => (s + k) + (l - 1) <= t + g
        OBVIOUS
      <4>. QED BY <1>2, <2>4, <2>5, <3>2, <4>1, <4>2
    <3>3. CASE m = 2 /\ ~token /\ token'
      <4>1. TokenFetch' = 1 /\ TokenFetch = 0 /\ sends \in Int
        BY <1>2, <3>3 DEF TokenFetch
      <4>2. \A s, l, t \in Int : s + l <= t + 0 => (s + 2) + (l - 1) <= t + 1
        OBVIOUS
      <4>. QED BY <1>2, <2>4, <2>5, <3>3, <4>1, <4>2
    <3>. QED BY <3>1, <3>2, <3>3
  <2>10. SendsInv' /\ QueriesInv'
    BY <1>1, <1>2, <1>3, <2>3, <2>9 DEF SendsInv, QueriesInv, EarlyPhases, WritePhases
  <2>. QED BY <1>1, <1>2, <1>3, <2>3, <2>4, <2>5, <2>10, LaterKeeps DEF Phases
<1>4. CASE left' = 0 /\ phase' = "email" /\ UNCHANGED <<usage, sends, token>>
  <2>1. TokenFetch' = TokenFetch
    BY <1>4 DEF TokenFetch
  <2>2. sends' + left' <= take' + TokenFetch'
    <3>1. \A s, l, t, f \in Int : s + l <= t + f /\ l >= 0 => s + 0 <= t + f
      OBVIOUS
    <3>2. sends \in Int /\ left \in Int /\ left >= 0 /\ take \in Int /\ TokenFetch \in Int
      BY <1>2
    <3>. QED BY <1>2, <1>4, <2>1, <3>1, <3>2
  <2>3. SendsInv' /\ QueriesInv'
    BY <1>2, <1>4, <2>2 DEF SendsInv, QueriesInv, EarlyPhases, WritePhases
  <2>4. left' \in 0 .. take'
    BY <1>2, <1>4
  <2>. QED BY <1>1, <1>2, <1>4, <2>3, <2>4, LaterKeeps DEF Phases
<1>. QED BY <1>3, <1>4 DEF Deliver, Enters

LEMMA EmailKeeps ==
    ASSUME BudgetInv, Email
    PROVE  BudgetInv'
<1>1. phase = "email" /\ phase' = "finish" /\ UNCHANGED <<checkVars, take, left, retried, extra, token>>
  BY DEF Email, Enters
<1>2. /\ phase # "checks" /\ (take > 0 => fetches + take <= Subrequests)
      /\ take \in 0 .. Batch /\ left \in 0 .. take
      /\ usage \in Int /\ usage \in Nat /\ D1Queries \in Int /\ retried \in Nat /\ extra \in Nat
      /\ sends \in Nat /\ token \in BOOLEAN /\ TokenFetch \in {0, 1}
      /\ usage <= D1Queries /\ sends + left <= take + TokenFetch
  BY <1>1, After
<1>3. TokenFetch' = TokenFetch /\ fetches' = fetches /\ take' = take
  BY <1>1 DEF TokenFetch, checkVars
<1>4. usage' \in Nat /\ usage' <= D1Queries /\ sends' \in {sends, sends + 1}
  <2>1. CASE UNCHANGED <<usage, sends>>
    BY <1>2, <2>1
  <2>2. CASE CanSpendD1(EmailD1) /\ \E n \in 0 .. EmailD1, s \in 0 .. 1 : Spend(n) /\ sends' = sends + s
    <3>1. PICK n \in 0 .. EmailD1, s \in 0 .. 1 : usage' = usage + n /\ sends' = sends + s
      BY <2>2 DEF Spend
    <3>2. EmailD1 \in Int /\ usage + 1 + EmailD1 <= D1Queries
      BY <2>2, BudgetNumbers DEF CanSpendD1
    <3>3. n \in Int /\ n >= 0 /\ n <= EmailD1 /\ s \in {0, 1}
      BY <3>2
    <3>4. usage' \in Nat /\ usage' <= D1Queries
      BY <1>2, <3>1, <3>2, <3>3
    <3>. QED BY <1>2, <3>1, <3>3, <3>4
  <2>. QED BY <2>1, <2>2 DEF Email
<1>5. sends' \in Nat /\ sends' <= take' + TokenFetch' + 1
  <2>1. sends \in Int /\ left \in Int /\ left >= 0 /\ take \in Int /\ TokenFetch \in Int
    BY <1>2
  <2>2. \A s, l, t, f \in Int : s + l <= t + f /\ l >= 0 => s <= t + f + 1 /\ s + 1 <= t + f + 1
    OBVIOUS
  <2>3. sends <= take + TokenFetch + 1 /\ sends + 1 <= take + TokenFetch + 1
    BY <1>2, <2>1, <2>2
  <2>. QED BY <1>2, <1>3, <1>4, <2>3
<1>6. SendsInv' /\ QueriesInv'
  BY <1>1, <1>2, <1>3, <1>4, <1>5 DEF SendsInv, QueriesInv, EarlyPhases, WritePhases
<1>. QED BY <1>1, <1>2, <1>3, <1>4, <1>5, <1>6, LaterKeeps DEF Phases

LEMMA FinishRunKeeps ==
    ASSUME BudgetInv, FinishRun
    PROVE  BudgetInv'
<1>1. /\ phase \in {"finish", "release"} /\ UNCHANGED <<checkVars, tailVars>> /\ usage' = usage + 1
      /\ \/ phase' = "over"
         \/ phase = "finish" /\ phase' = "release"
  BY DEF FinishRun, Spend, Enters
<1>2. /\ phase # "checks" /\ (take > 0 => fetches + take <= Subrequests)
      /\ take \in 0 .. Batch /\ left \in 0 .. take
      /\ usage \in Int /\ usage \in Nat /\ D1Queries \in Int /\ retried \in Nat /\ extra \in Nat
      /\ sends \in Nat /\ token \in BOOLEAN
      /\ (phase # "release" => usage <= D1Queries) /\ (phase = "release" => usage <= D1Queries + 1)
      /\ sends <= take + TokenFetch + 1
  BY <1>1, After
<1>3. /\ TokenFetch' = TokenFetch /\ fetches' = fetches /\ take' = take /\ left' = left
      /\ retried' = retried /\ extra' = extra /\ sends' = sends /\ token' = token
  BY <1>1 DEF TokenFetch, checkVars, tailVars
<1>4. /\ usage' \in Nat /\ usage' <= D1Queries + 2
      /\ phase' = "release" => usage' <= D1Queries + 1
  BY <1>1, <1>2
<1>5. SendsInv' /\ QueriesInv'
  BY <1>1, <1>2, <1>3, <1>4 DEF SendsInv, QueriesInv, EarlyPhases, WritePhases
<1>. QED BY <1>1, <1>2, <1>3, <1>4, <1>5, LaterKeeps DEF Phases

-----------------------------------------------------------------------------
(* What a run spends: the theorems.                                        *)

LEMMA BudgetStarts ==
    ASSUME BudgetInit
    PROVE  BudgetInv
<1>. USE DEF BudgetInit
<1>1. D1Queries \in Nat /\ Subrequests \in Nat /\ NumChecks \in Nat /\ Batch \in Nat
  BY BudgetNumbers
<1>2. BudgetTypeOK
  <2>1. ticket \in [Checks -> [pc : {"due", "waiting", "woken", "probe", "recheck", "done", "deferred"},
                              reserved : Nat, held : BOOLEAN, made : Nat]]
    BY DEF Due
  <2>2. take \in 0 .. Batch /\ left \in 0 .. take
    BY <1>1
  <2>3. /\ usage \in Nat /\ committed \in Nat /\ reserved \in Int /\ fetches \in Int /\ phase \in Phases
        /\ retried \in Nat /\ extra \in Nat /\ sends \in Nat
    BY DEF Phases
  <2>4. token \in BOOLEAN
    OBVIOUS
  <2>. HIDE DEF BudgetInit
  <2>. QED BY <2>1, <2>2, <2>3, <2>4 DEF BudgetTypeOK
<1>3. \E f \in [0 .. NumChecks -> Int] : Totals(f)
  <2>1. Totals([i \in 0 .. NumChecks |-> 0])
    BY <1>1 DEF Totals, Checks, Due
  <2>. QED BY <2>1 DEF Totals
<1>4. Cardinality(Paid) <= committed
  <2>1. Paid = {}
    BY DEF Paid, In, Due
  <2>. QED BY <2>1, FS_EmptySet
<1>5. ChecksInv
  <2>1. \A c \in Checks : TicketOK(c)
    BY DEF TicketOK, Due
  <2>. QED BY <1>1, <1>3, <1>4, <2>1 DEF ChecksInv
<1>6. SendsInv
  BY DEF SendsInv, EarlyPhases, WritePhases
<1>7. QueriesInv
  BY DEF QueriesInv
<1>. QED BY <1>2, <1>5, <1>6, <1>7 DEF BudgetInv

LEMMA BudgetSteps ==
    ASSUME BudgetInv, [BudgetNext]_budgetVars
    PROVE  BudgetInv'
<1>1. CASE UNCHANGED budgetVars
  <2>. USE <1>1 DEF budgetVars
  <2>1. BudgetTypeOK'
    BY DEF BudgetInv, BudgetTypeOK
  <2>2. ChecksInv'
    BY ChecksRest DEF BudgetInv, ChecksInv, checkVars
  <2>3. SendsInv'
    BY DEF BudgetInv, SendsInv, TokenFetch
  <2>4. QueriesInv'
    BY DEF BudgetInv, QueriesInv, ClaimCost
  <2>. QED BY <2>1, <2>2, <2>3, <2>4 DEF BudgetInv
<1>2. ASSUME NEW c \in Checks, StartCheck(c) \/ ProbeEnds(c) \/ RecheckEnds(c)
      PROVE  BudgetInv'
  BY <1>2, StartCheckKeeps, ProbeEndsKeeps, RecheckEndsKeeps
<1>. QED BY <1>1, <1>2, ReadContextKeeps, RereadKeeps, WritePlanKeeps, WriteTogetherKeeps, WriteAloneKeeps,
            WriteTailKeeps, TailAloneKeeps, DeliverKeeps, EmailKeeps, FinishRunKeeps DEF BudgetNext

\* All that is said of a run's budget above stays true of it.
THEOREM BudgetInvariant == BudgetSpec => []BudgetInv
BY BudgetStarts, BudgetSteps, PTL DEF BudgetSpec

\* The types of RunBudget's variables: no count goes below zero, and a run
\* never has more deliveries in hand than it may claim.
THEOREM BudgetTypes == BudgetSpec => []BudgetTypeOK
<1>1. BudgetInv => BudgetTypeOK
  BY DEF BudgetInv
<1>. QED BY <1>1, BudgetInvariant, PTL

\* RunBudget.WithinCap, for every plan and any number of checks: holds and
\* fetches never pass the plan's, and the run passes its limits by two queries
\* and two fetches at most.
THEOREM RunsStayWithinCap == BudgetSpec => []WithinCap
<1>1. ASSUME BudgetInv
      PROVE  WithinCap
  <2>. USE <1>1
  <2>1. /\ usage \in Int /\ reserved \in Int /\ fetches \in Int /\ take \in Int /\ take >= 0 /\ left \in Int /\ left >= 0
        /\ sends \in Int /\ TokenFetch \in {0, 1} /\ D1Queries \in Int /\ Subrequests \in Int
    BY TailTypes, BudgetNumbers
  <2>2. phase \in Phases /\ D1Queries >= 4
    BY BudgetNumbers DEF BudgetInv, BudgetTypeOK
  <2>3. fetches + reserved <= Subrequests
    BY DEF BudgetInv, ChecksInv
  <2>4. usage <= D1Queries + 2
    <3>1. CASE phase \in {"alone", "tail", "retail"}
      <4>1. usage + ClaimCost <= D1Queries /\ ClaimCost \in Nat
        <5>1. usage + ClaimCost <= D1Queries - 1 \/ usage + ClaimCost <= D1Queries
          BY <3>1 DEF BudgetInv, QueriesInv
        <5>. QED BY <2>1, <5>1, TailTypes
      <4>. QED BY <2>1, <4>1
    <3>2. CASE phase \notin {"alone", "tail", "retail"}
      <4>1. \/ usage = 1 \/ usage <= D1Queries - 2 \/ usage <= D1Queries - 1 \/ usage <= D1Queries
            \/ usage <= D1Queries + 1 \/ usage <= D1Queries + 2
        BY <2>2, <3>2 DEF BudgetInv, QueriesInv, Phases
      <4>. QED BY <2>1, <2>2, <4>1
    <3>. QED BY <3>1, <3>2
  <2>5. sends = 0 \/ sends <= take + TokenFetch + 1
    <3>1. phase \in EarlyPhases \cup WritePhases => sends = 0
      BY DEF BudgetInv, SendsInv
    <3>2. phase \in {"finish", "release", "over"} => sends <= take + TokenFetch + 1
      BY DEF BudgetInv, SendsInv
    <3>3. phase \in {"deliver", "email"} => sends + left <= take + TokenFetch
      BY DEF BudgetInv, SendsInv
    <3>4. sends + left <= take + TokenFetch => sends <= take + TokenFetch + 1
      BY <2>1
    <3>. QED BY <2>2, <3>1, <3>2, <3>3, <3>4 DEF EarlyPhases, WritePhases, Phases
  <2>6. fetches + reserved + sends <= Subrequests + 2
    <3>1. CASE phase = "checks"
      <4>1. sends = 0
        BY <3>1 DEF BudgetInv, SendsInv, EarlyPhases, WritePhases
      <4>. QED BY <2>1, <2>3, <4>1
    <3>2. CASE phase # "checks"
      <4>1. reserved = 0
        BY <3>2, ChecksOver DEF BudgetInv, ChecksInv
      <4>2. take > 0 => fetches + take <= Subrequests
        BY DEF BudgetInv, SendsInv
      <4>3. \A f, s, t, k, m \in Int : /\ f <= m /\ t >= 0 /\ (t > 0 => f + t <= m) /\ k \in {0, 1}
                                      /\ (s = 0 \/ s <= t + k + 1)
                                      => f + 0 + s <= m + 2
        OBVIOUS
      <4>4. fetches <= Subrequests
        BY <2>1, <2>3, <4>1
      <4>. QED BY <2>1, <2>5, <4>1, <4>2, <4>3, <4>4
    <3>. QED BY <3>1, <3>2
  <2>. QED BY <2>3, <2>4, <2>6 DEF WithinCap
<1>. QED BY <1>1, BudgetInvariant, PTL

\* RunBudget.ReservesHold, for every plan and any number of checks: each
\* check's writes can be tried again on their own, and a run full of checks
\* keeps room for all the reserved deliveries but one.
THEOREM ReservesAreKept == BudgetSpec => []ReservesHold
<1>1. ASSUME BudgetInv
      PROVE  ReservesHold
  <2>. USE <1>1
  <2>1. /\ usage \in Int /\ committed \in Int /\ committed \in Nat /\ retried \in Int /\ retried \in Nat /\ ClaimCost \in Int
        /\ D1Queries \in Int /\ TailReserve \in Int /\ TailReserve >= 3 /\ take \in Nat /\ extra \in Nat
        /\ Reserve \in Int /\ Reserve >= 1
    BY TailTypes, BudgetNumbers
  <2>2. ASSUME phase = "alone", extra = 0, retried < Cardinality(In({"done"}))
        PROVE  CanRetry
    <3>1. Cardinality(In({"done"})) <= committed /\ Cardinality(In({"done"})) \in Int
      <4>1. In({"done"}) \subseteq Paid /\ Paid \subseteq Checks /\ In({"done"}) \subseteq Checks
        BY DEF Paid, In
      <4>2. IsFiniteSet(Paid) /\ Cardinality(Paid) \in Int /\ Cardinality(In({"done"})) \in Int
        BY <4>1, ChecksFinite
      <4>3. Cardinality(In({"done"})) <= Cardinality(Paid)
        BY <4>1, <4>2, FS_Subset
      <4>4. Cardinality(Paid) <= committed
        BY DEF BudgetInv, ChecksInv
      <4>. QED BY <2>1, <4>2, <4>3, <4>4
    <3>2. retried + 1 <= committed /\ committed >= 1
      BY <2>1, <2>2, <3>1
    <3>3. 1 + committed + TailReserve + Reserve <= D1Queries
      BY <2>1, <3>2 DEF BudgetInv, ChecksInv
    <3>4. usage + ClaimCost + 2 <= D1Queries
      <4>1. CASE take > 0
        <5>1. usage + ClaimCost + committed <= D1Queries - 1 + retried
          BY <2>2, <4>1 DEF BudgetInv, QueriesInv
        <5>2. \A u, k, c, d, r \in Int : u + k + c <= d - 1 + r /\ r + 1 <= c => u + k + 2 <= d
          OBVIOUS
        <5>. QED BY <2>1, <3>2, <5>1, <5>2
      <4>2. CASE take = 0
        <5>1. ClaimCost = 0
          BY <4>2, BudgetNumbers DEF ClaimCost
        <5>2. usage <= 4 + retried
          BY <2>2 DEF BudgetInv, QueriesInv
        <5>3. \A u, c, d, r, t, s \in Int :
                u <= 4 + r /\ r + 1 <= c /\ 1 + c + t + s <= d /\ t >= 3 /\ s >= 1 => u + 0 + 2 <= d
          OBVIOUS
        <5>. QED BY <2>1, <3>2, <3>3, <5>1, <5>2, <5>3
      <4>. QED BY <2>1, <4>1, <4>2
    <3>5. \A u, k, d \in Int : u + k + 2 <= d => u + 1 + (1 + k) <= d
      OBVIOUS
    <3>6. usage + 1 + (1 + ClaimCost) <= D1Queries
      BY <2>1, <3>4, <3>5
    <3>. QED BY <3>6 DEF CanRetry, CanSpendD1, ClaimCost
  <2>3. ASSUME phase = "plan", extra = 0, committed > 0
        PROVE  D1Left \div NotificationD1Cost >= NotificationReserve - 1
    <3>1. usage <= 2 /\ 1 + committed + TailReserve + Reserve <= D1Queries
      BY <2>3 DEF BudgetInv, QueriesInv, ChecksInv
    <3>2. NotificationD1Cost \in Nat \ {0} /\ NotificationReserve \in Nat \ {0}
      BY BudgetNumbers
    <3>. DEFINE m == NotificationReserve - 1
                n == NotificationD1Cost
    <3>3. m \in Nat /\ m * n + n = Reserve /\ m * n \in Int
      <4>1. m \in Nat /\ m * n \in Nat
        BY <3>2, Products
      <4>. QED BY <3>2, <4>1 DEF Reserve
    <3>4. D1Left \in Int /\ m * n <= D1Left
      <4>1. \A u, c, d, t, s, q, k \in Int :
              u <= 2 /\ 1 + c + t + s <= d /\ q + k = s /\ k >= 1 => q <= d - u - c - t
        OBVIOUS
      <4>2. n \in Int /\ n >= 1
        BY <3>2
      <4>. QED BY <2>1, <3>1, <3>3, <4>1, <4>2 DEF D1Left
    <3>5. m <= D1Left \div n
      BY <3>2, <3>3, <3>4, Products
    <3>6. D1Left \div n \in Int
      BY <3>2, <3>4, Products
    <3>. QED BY <3>3, <3>5, <3>6
  <2>. QED BY <2>2, <2>3 DEF ReservesHold
<1>. QED BY <1>1, BudgetInvariant, PTL

-----------------------------------------------------------------------------
(* The replaced key: the invariant.                                         *)

\* What was read of the deployed keys is what is deployed, or was before; the
\* previous key goes only after a report that nothing needs it.
KeysAreDeployed ==
    /\ \A p \in Clients : pass[p].call.keys <= step
    /\ \A q \in Requests : request[q].keys <= step
    /\ safe => step >= 3
    /\ step = 4 => safe

\* A row holds values of its own time: none under a key that is not out yet, and
\* after the report none under the old one, but what a request of before wrote.
RowOpens(r) ==
    /\ step <= 2 => r \in late \/ \A v \in stored[r] : v.key # "new"
    /\ safe => r \in late \/ \A v \in stored[r] : v.key # "old"

\* A plain value is a row's only one.
PlainAlone(r) == Plain \in stored[r] => stored[r] = {Plain}

\* Nothing is left to do for a row; once so on the new key, it stays so.
Clear(r) ==
    \/ r \in stale
    \/ stored[r] \subseteq {Sealed(3)}
    \/ \E v \in stored[r] : v.key = "lost"
Cleared(r) == step >= 3 => Clear(r)

\* The rows a cursor has behind it.
Behind(r, at) == ClassOf[r] < at.class \/ (ClassOf[r] = at.class /\ r <= at.after)

CallReads(c) ==
    /\ c.pc \in {"read", "write"} => c.at.class <= NumClasses /\ c.room > 0
    /\ c.pc = "write" => Cardinality(c.rows) <= c.room
CallClears(c) ==
    /\ c.keys = 3
    /\ \A r \in Places : Behind(r, c.at) => Clear(r)
    /\ c.pc = "write" => /\ \A r \in Places : Behind(r, NextCursor(c)) => Clear(r) \/ r \in c.rows
                         /\ \A r \in c.rows \ c.clean : Clear(r)

\* A pass that began on the new key has cleared what it has behind it.
PassOK(p) ==
    /\ CallReads(pass[p].call) /\ pass[p].cursor.class <= NumClasses
    /\ pass[p].onNew =>
         /\ step >= 3
         /\ \A r \in Places : Behind(r, pass[p].cursor) => Clear(r)
         /\ pass[p].call.pc # "rest" => CallClears(pass[p].call)

RotationInv ==
    /\ RotationTypeOK /\ KeysAreDeployed /\ asSaved = Places
    /\ \A r \in Places : RowOpens(r) /\ PlainAlone(r)
    /\ \A q \in Requests : Plain \notin request[q].carried
    /\ \A p \in Clients : PassOK(p)
    /\ cleared => step >= 3 /\ \A r \in Places : Clear(r)

-----------------------------------------------------------------------------
(* The replaced key: values, keys and pages.                                *)

LEMMA ClassesFollow ==
    /\ NumPlaces \in Nat \ {0} /\ NumClasses \in Nat \ {0} /\ Places \subseteq Nat
    /\ \A r \in Places : ClassOf[r] \in Nat \ {0} /\ ClassOf[r] <= NumClasses
<1>1. NumPlaces \in Nat \ {0} /\ NumPlaces \in Places
  BY RotationAssumption DEF Places
<1>2. \A r \in Places : r <= NumPlaces /\ r \in Nat
  BY <1>1 DEF Places
<1>. QED BY <1>1, <1>2, RotationAssumption DEF NumClasses

LEMMA SealedFacts ==
    ASSUME NEW n \in Steps
    PROVE  /\ Sealed(n) \in Value /\ Sealed(n) # Plain
           /\ n <= 2 => Sealed(n).key = "old"
           /\ n >= 3 => Sealed(n) = Sealed(3) /\ Sealed(n).key = "new"
  BY DEF Sealed, CurrentKey, Value, Plain, Steps

LEMMA ReplacedFacts ==
    ASSUME step \in Steps, NEW n \in Steps, n <= step
    PROVE  Replaced(n) <=> n <= 2 /\ step >= 3
  BY DEF Replaced, CurrentKey, Steps

LEMMA ValueKeys ==
    ASSUME NEW v \in Value
    PROVE  /\ v = Plain \/ (v.key \in {"old", "new", "lost"} /\ v.form \in {"v1", "v2"})
           /\ Plain.key = "none"
  BY DEF Value, Plain

LEMMA LastOfAll ==
    ASSUME NEW rs \in SUBSET Nat, NEW n \in Nat, rs # {}, \A r \in rs : r <= n
    PROVE  \E m \in rs : \A s \in rs : s <= m
<1>. DEFINE Less == {ss \in Nat \X Nat : ss[1] < ss[2]}
            Left == {i \in Nat : n - i \in rs}
<1>1. IsWellFoundedOn(Less, Nat)
  BY NatLessThanWellFounded DEF OpToRel
<1>2. Left \subseteq Nat /\ Left # {}
  <2>1. PICK r \in rs : TRUE
    OBVIOUS
  <2>2. n - r \in Nat /\ n - (n - r) = r
    OBVIOUS
  <2>. QED BY <2>2
<1>3. PICK i \in Left : \A j \in Left : ~(<<j, i>> \in Less)
  <2>. HIDE DEF Less, Left
  <2>. QED BY <1>1, <1>2, WFMin
<1>4. n - i \in rs
  BY <1>3
<1>5. ASSUME NEW s \in rs
      PROVE  s <= n - i
  <2>1. n - s \in Nat /\ n - (n - s) = s
    OBVIOUS
  <2>2. n - s \in Left
    BY <2>1
  <2>3. ~(n - s < i)
    BY <1>3, <2>2
  <2>. QED BY <1>4, <2>1, <2>3
<1>. QED BY <1>4, <1>5

\* The first rows are all, or as many as asked for, without a gap.
LEMMA PagesHaveNoGap ==
    ASSUME NEW rs \in SUBSET Places, NEW n \in Nat \ {0}, NEW f, f = FirstRows(rs, n)
    PROVE  /\ f \in SUBSET rs /\ IsFiniteSet(f) /\ Cardinality(f) <= n
           /\ Cardinality(f) < n => f = rs
           /\ f # {} => \E m \in f : /\ \A s \in f : s <= m
                                     /\ \A r \in rs : r <= m => r \in f
<1>. DEFINE Under(x) == {s \in rs : s < x}
<1>0. rs \subseteq Nat /\ NumPlaces \in Nat /\ \A r \in rs : r <= NumPlaces
  BY ClassesFollow DEF Places
<1>1. IsFiniteSet(rs)
  BY <1>0, FS_BoundedSetOfNaturals
<1>2. \A x : IsFiniteSet(Under(x)) /\ Cardinality(Under(x)) \in Nat
  <2>. TAKE x
  <2>1. Under(x) \in SUBSET rs
    OBVIOUS
  <2>. QED BY <1>1, <2>1, FS_Subset, FS_CardinalityType
<1>3. \A x \in rs : x \in f <=> Cardinality(Under(x)) < n
  BY DEF FirstRows
<1>4. f \in SUBSET rs
  BY DEF FirstRows
<1>5. IsFiniteSet(f) /\ Cardinality(f) \in Nat
  <2>. HIDE DEF Under
  <2>. QED BY <1>1, <1>4, FS_Subset, FS_CardinalityType
<1>6. ASSUME f # {}
      PROVE  \E m \in f : /\ \A s \in f : s <= m
                          /\ \A r \in rs : r <= m => r \in f
  <2>1. PICK m \in f : \A s \in f : s <= m
    BY <1>0, <1>4, <1>6, LastOfAll
  <2>2. ASSUME NEW r \in rs, r <= m
        PROVE  r \in f
    <3>1. Under(r) \in SUBSET Under(m)
      <4>1. r \in Nat /\ m \in Nat /\ r <= m
        BY <1>0, <1>4, <2>1, <2>2
      <4>2. ASSUME NEW y \in rs, y < r
            PROVE  y < m
        <5>1. y \in Nat
          BY <1>0, <4>2
        <5>. QED BY <4>1, <4>2, <5>1
      <4>. QED BY <4>2
    <3>2. Cardinality(Under(r)) <= Cardinality(Under(m))
      <4>. HIDE DEF Under
      <4>. QED BY <1>2, <3>1, FS_Subset
    <3>3. Cardinality(Under(m)) < n
      BY <1>3, <1>4
    <3>4. Cardinality(Under(r)) < n
      <4>. HIDE DEF Under
      <4>. QED BY <1>2, <3>2, <3>3
    <3>. QED BY <1>3, <3>4
  <2>. QED BY <2>1, <2>2
<1>7. Cardinality(f) <= n
  <2>1. CASE f = {}
    BY <2>1, FS_EmptySet
  <2>2. CASE f # {}
    <3>1. PICK m \in f : \A s \in f : s <= m
      BY <1>6, <2>2
    <3>2. f \ {m} \in SUBSET Under(m)
      <4>1. ASSUME NEW y \in f, y # m
            PROVE  y \in rs /\ y < m
        <5>1. y \in Nat /\ m \in Nat /\ y \in rs
          BY <1>0, <1>4
        <5>2. y <= m
          BY <3>1
        <5>. QED BY <4>1, <5>1, <5>2
      <4>. QED BY <4>1
    <3>3. Cardinality(f \ {m}) <= Cardinality(Under(m))
      <4>. HIDE DEF Under
      <4>. QED BY <1>2, <3>2, FS_Subset
    <3>4. Cardinality(f \ {m}) = Cardinality(f) - 1
      BY <1>5, <3>1, FS_RemoveElement
    <3>5. Cardinality(Under(m)) < n /\ Cardinality(Under(m)) \in Nat
      BY <1>2, <1>3, <1>4, <3>1
    <3>. HIDE DEF Under
    <3>. QED BY <1>5, <3>3, <3>4, <3>5
  <2>. QED BY <2>1, <2>2
<1>8. ASSUME Cardinality(f) < n
      PROVE  f = rs
  <2>. SUFFICES ASSUME rs \ f # {} PROVE FALSE
    BY <1>4
  <2>. DEFINE Less == {ss \in Nat \X Nat : ss[1] < ss[2]}
              Off == rs \ f
  <2>1. IsWellFoundedOn(Less, Nat)
    BY NatLessThanWellFounded DEF OpToRel
  <2>2. Off \subseteq Nat /\ Off # {}
    BY <1>0
  <2>3. PICK x \in Off : \A y \in Off : ~(<<y, x>> \in Less)
    <3>. HIDE DEF Less, Off
    <3>. QED BY <2>1, <2>2, WFMin
  <2>4. Under(x) \in SUBSET f
    <3>. SUFFICES ASSUME NEW y \in rs, y < x
                  PROVE  y \in f
      OBVIOUS
    <3>1. <<y, x>> \in Less
      BY <1>0, <2>2
    <3>. QED BY <2>3, <3>1
  <2>5. Cardinality(Under(x)) <= Cardinality(f)
    <3>. HIDE DEF Under
    <3>. QED BY <1>5, <2>4, FS_Subset
  <2>6. ~(Cardinality(Under(x)) < n) /\ Cardinality(Under(x)) \in Nat
    BY <1>2, <1>3, <2>3
  <2>. HIDE DEF Under
  <2>. QED BY <1>5, <1>8, <2>5, <2>6
<1>. QED BY <1>4, <1>5, <1>6, <1>7, <1>8
-----------------------------------------------------------------------------
(* The replaced key: rows.                                                  *)

\* A row written whole, or sealed, is right for its time.
LEMMA Rewritten ==
    ASSUME step \in Steps, step' = step, safe' = safe, safe => step >= 3,
           NEW n \in Steps, n <= step, NEW r \in Places,
           NEW kept \in SUBSET Value, Plain \notin kept,
           stored'[r] = {Sealed(n)} \cup kept,
           Replaced(n) \/ ~OnlyLost(kept) => r \in late' /\ r \in stale'
    PROVE  RowOpens(r)' /\ PlainAlone(r)' /\ Cleared(r)'
<1>1. Replaced(n) <=> n <= 2 /\ step >= 3
  BY ReplacedFacts
<1>2. /\ Sealed(n) # Plain
      /\ n <= 2 => Sealed(n).key = "old"
      /\ n >= 3 => Sealed(n) = Sealed(3) /\ Sealed(n).key = "new"
  BY SealedFacts
<1>3. PlainAlone(r)'
  BY <1>2 DEF PlainAlone
<1>4. CASE Replaced(n) \/ ~OnlyLost(kept)
  BY <1>3, <1>4 DEF RowOpens, Cleared, Clear
<1>5. CASE ~Replaced(n) /\ OnlyLost(kept)
  <2>1. \A v \in kept : v.key = "lost"
    BY <1>5 DEF OnlyLost
  <2>2. n \in Nat /\ step \in Nat /\ (n <= 2 \/ n >= 3)
    BY DEF Steps
  <2>3. RowOpens(r)'
    BY <1>1, <1>2, <1>5, <2>1, <2>2 DEF RowOpens
  <2>4. ASSUME step >= 3
        PROVE  Clear(r)'
    <3>1. Sealed(n) = Sealed(3)
      BY <1>1, <1>2, <1>5, <2>2, <2>4
    <3>2. CASE kept = {}
      BY <3>1, <3>2 DEF Clear
    <3>3. CASE kept # {}
      BY <2>1, <3>3 DEF Clear
    <3>. QED BY <3>2, <3>3
  <2>. QED BY <1>3, <2>3, <2>4 DEF Cleared
<1>. QED BY <1>4, <1>5

\* A step writes the rows `rs` and no other.
Writes(rs) ==
    /\ step' = step /\ safe' = safe
    /\ \A r \in Places \ rs : /\ stored'[r] = stored[r]
                              /\ r \in stale => r \in stale'
                              /\ r \in late => r \in late'
    /\ \A r \in rs : RowOpens(r)' /\ PlainAlone(r)' /\ Cleared(r)'

LEMMA WrittenStay ==
    ASSUME RotationInv, NEW rs, Writes(rs), NEW r \in Places
    PROVE  RowOpens(r)' /\ PlainAlone(r)' /\ (step >= 3 /\ Clear(r) => Clear(r)')
<1>1. CASE r \in rs
  BY <1>1 DEF Writes, Cleared
<1>2. CASE r \notin rs
  <2>1. /\ stored'[r] = stored[r] /\ step' = step /\ safe' = safe
        /\ r \in stale => r \in stale'
        /\ r \in late => r \in late'
    BY <1>2 DEF Writes
  <2>2. RowOpens(r) /\ PlainAlone(r)
    BY DEF RotationInv
  <2>3. RowOpens(r)'
    BY <2>1, <2>2 DEF RowOpens
  <2>4. PlainAlone(r)'
    BY <2>1, <2>2 DEF PlainAlone
  <2>5. Clear(r) => Clear(r)'
    BY <2>1 DEF Clear
  <2>. QED BY <2>3, <2>4, <2>5
<1>. QED BY <1>1, <1>2

-----------------------------------------------------------------------------
(* The replaced key: cursors and calls.                                     *)

LEMMA NothingBehindStart ==
    ASSUME NEW r \in Places
    PROVE  ~Behind(r, Start)
<1>1. ClassOf[r] \in Nat \ {0} /\ r \in Nat \ {0}
  BY ClassesFollow DEF Places
<1>. QED BY <1>1 DEF Behind, Start

LEMMA AllBehindTheEnd ==
    ASSUME NEW r \in Places, NEW at \in Cursors, at.class > NumClasses
    PROVE  Behind(r, at)
<1>1. ClassOf[r] \in Nat /\ ClassOf[r] <= NumClasses /\ NumClasses \in Nat
  BY ClassesFollow
<1>2. at.class \in Nat
  BY ClassesFollow DEF Cursors
<1>. QED BY <1>1, <1>2 DEF Behind

LEMMA StartIsCursor == Start \in Cursors /\ Start.class = 1 /\ 1 <= NumClasses
  BY ClassesFollow DEF Start, Cursors

CallRecords == [pc : {"rest", "read", "write", "answer"}, keys : Steps, at : Cursors,
          room : 0 .. RowLimit, rows : SUBSET Places, clean : SUBSET Places]

LEMMA RowsAreFinite ==
    ASSUME NEW rs \in SUBSET Places
    PROVE  IsFiniteSet(rs) /\ Cardinality(rs) \in Nat /\ rs \subseteq Nat
<1>1. rs \subseteq Nat /\ NumPlaces \in Nat /\ \A r \in rs : r <= NumPlaces
  BY ClassesFollow DEF Places
<1>2. IsFiniteSet(rs)
  BY <1>1, FS_BoundedSetOfNaturals
<1>. QED BY <1>1, <1>2, FS_CardinalityType

LEMMA SameNextCursor ==
    ASSUME NEW c, NEW d, c.rows = d.rows, c.room = d.room, c.at = d.at
    PROVE  NextCursor(c) = NextCursor(d)
  BY DEF NextCursor

\* Where the cursor goes after a page.
LEMMA NextCursorIs ==
    ASSUME NEW c \in CallRecords, c.at.class <= NumClasses, c.room > 0
    PROVE  /\ NextCursor(c) \in Cursors
           /\ Cardinality(c.rows) < c.room =>
                NextCursor(c).class = c.at.class + 1 /\ NextCursor(c).after = 0
           /\ ~(Cardinality(c.rows) < c.room) =>
                /\ NextCursor(c).class = c.at.class
                /\ NextCursor(c).after \in c.rows
                /\ \A s \in c.rows : s <= NextCursor(c).after
<1>1. /\ c.rows \in SUBSET Places /\ c.room \in 0 .. RowLimit /\ RowLimit \in Nat
      /\ c.at \in Cursors
  BY RotationAssumption DEF CallRecords
<1>2. /\ c.at.class \in Nat /\ c.at.class >= 1 /\ c.room \in Nat
      /\ c.at.after \in 0 .. NumPlaces /\ NumPlaces \in Nat /\ NumClasses \in Nat
  BY <1>1, ClassesFollow DEF Cursors
<1>3. CASE Cardinality(c.rows) < c.room
  <2>1. NextCursor(c) = [class |-> c.at.class + 1, after |-> 0]
    BY <1>3 DEF NextCursor
  <2>2. c.at.class + 1 \in 1 .. NumClasses + 1 /\ 0 \in 0 .. NumPlaces
    BY <1>2
  <2>. QED BY <1>3, <2>1, <2>2 DEF Cursors
<1>4. CASE ~(Cardinality(c.rows) < c.room)
  <2>1. c.rows # {}
    BY <1>2, <1>4, FS_EmptySet
  <2>2. c.rows \subseteq Nat /\ \A r \in c.rows : r <= NumPlaces
    BY <1>1, RowsAreFinite DEF Places
  <2>. DEFINE m == CHOOSE r \in c.rows : \A s \in c.rows : s <= r
  <2>3. \E r \in c.rows : \A s \in c.rows : s <= r
    BY <1>2, <2>1, <2>2, LastOfAll
  <2>4. m \in c.rows /\ \A s \in c.rows : s <= m
    BY <2>3
  <2>5. NextCursor(c) = [c.at EXCEPT !.after = m]
    BY <1>4 DEF NextCursor
  <2>. HIDE DEF m
  <2>6. m \in 0 .. NumPlaces
    BY <1>2, <2>2, <2>4
  <2>7. /\ NextCursor(c) \in Cursors
        /\ NextCursor(c).class = c.at.class /\ NextCursor(c).after = m
    BY <1>1, <2>5, <2>6 DEF Cursors
  <2>. QED BY <1>4, <2>4, <2>7
<1>. QED BY <1>3, <1>4

\* A page leaves out no row of its class before where the cursor goes next.
LEMMA PageIsWhole ==
    ASSUME stored \in [Places -> SUBSET Value], NEW c \in CallRecords,
           c.at.class <= NumClasses, c.room > 0, c.rows = Page(c.at, c.room)
    PROVE  /\ Cardinality(c.rows) <= c.room
           /\ \A r \in Places : Behind(r, NextCursor(c)) => \/ Behind(r, c.at)
                                                            \/ stored[r] = {} \/ r \in c.rows
<1>. DEFINE rs == {r \in Places : stored[r] # {} /\ ClassOf[r] = c.at.class /\ r > c.at.after}
<1>1. c.rows = FirstRows(rs, c.room)
  BY DEF Page
<1>2. c.room \in Nat \ {0} /\ c.at.class \in Nat /\ c.at.after \in Nat
  BY RotationAssumption, ClassesFollow DEF CallRecords, Cursors
<1>3. rs \in SUBSET Places
  OBVIOUS
<1>4. \A r \in Places : r \in rs <=> stored[r] # {} /\ ClassOf[r] = c.at.class /\ r > c.at.after
  OBVIOUS
<1>. HIDE DEF rs
<1>5. /\ c.rows \in SUBSET rs /\ Cardinality(c.rows) <= c.room
      /\ Cardinality(c.rows) < c.room => c.rows = rs
      /\ c.rows # {} => \E m \in c.rows : /\ \A s \in c.rows : s <= m
                                          /\ \A r \in rs : r <= m => r \in c.rows
  <2>. HIDE DEF FirstRows
  <2>. QED BY <1>1, <1>2, <1>3, PagesHaveNoGap
<1>6. ASSUME NEW r \in Places, Behind(r, NextCursor(c)), ~Behind(r, c.at), stored[r] # {}
      PROVE  r \in c.rows
  <2>1. ClassOf[r] \in Nat \ {0} /\ r \in Nat \ {0}
    BY ClassesFollow DEF Places
  <2>2. CASE Cardinality(c.rows) < c.room
    <3>1. NextCursor(c).class = c.at.class + 1 /\ NextCursor(c).after = 0
      BY <2>2, NextCursorIs
    <3>2. ClassOf[r] = c.at.class /\ r > c.at.after
      BY <1>2, <1>6, <2>1, <3>1 DEF Behind
    <3>. QED BY <1>4, <1>5, <1>6, <2>2, <3>2
  <2>3. CASE ~(Cardinality(c.rows) < c.room)
    <3>1. /\ NextCursor(c).class = c.at.class
          /\ NextCursor(c).after \in c.rows
          /\ \A s \in c.rows : s <= NextCursor(c).after
      BY <2>3, NextCursorIs
    <3>2. PICK m \in c.rows : /\ \A s \in c.rows : s <= m
                              /\ \A s \in rs : s <= m => s \in c.rows
      BY <1>5, <3>1
    <3>3. NextCursor(c).after \in Nat /\ m \in Nat
      BY <1>3, <1>5, <3>1, ClassesFollow
    <3>4. NextCursor(c).after <= m
      BY <3>1, <3>2
    <3>5. ClassOf[r] = c.at.class /\ r > c.at.after /\ r <= m
      BY <1>2, <1>6, <2>1, <3>1, <3>3, <3>4 DEF Behind
    <3>. QED BY <1>4, <1>6, <3>2, <3>5
  <2>. QED BY <2>2, <2>3
<1>. QED BY <1>5, <1>6
-----------------------------------------------------------------------------
(* The replaced key: what a step of one leaves true of the others.          *)

PassRecords == [cursor : Cursors, onNew : BOOLEAN, call : CallRecords]
RequestRecords == [pc : {"rest", "open", "edit"}, keys : Steps, place : Places,
                   carried : SUBSET Value]

LEMMA RotationTypes ==
    RotationTypeOK <=>
        /\ step \in Steps /\ stored \in [Places -> SUBSET Value]
        /\ pass \in [Clients -> PassRecords] /\ request \in [Requests -> RequestRecords]
        /\ safe \in BOOLEAN /\ cleared \in BOOLEAN
        /\ {stale, late, harmed, asSaved} \subseteq SUBSET Places
  BY DEF RotationTypeOK, PassRecords, CallRecords, RequestRecords

\* A client's call goes on, with the rows `rs` rewritten under it.
SameCall(p, rs) ==
    /\ pass'[p].cursor = pass[p].cursor /\ pass'[p].onNew = pass[p].onNew
    /\ pass'[p].call.pc = pass[p].call.pc /\ pass'[p].call.keys = pass[p].call.keys
    /\ pass'[p].call.at = pass[p].call.at /\ pass'[p].call.room = pass[p].call.room
    /\ pass'[p].call.rows = pass[p].call.rows
    /\ pass[p].call.clean \ rs \subseteq pass'[p].call.clean

LEMMA PassStays ==
    ASSUME NEW p \in Clients, NEW rs, SameCall(p, rs), PassOK(p), pass[p] \in PassRecords,
           step \in Steps, step' \in Steps, step <= step',
           \A r \in Places : step >= 3 /\ Clear(r) => Clear(r)',
           \A r \in rs : step >= 3 => Clear(r)'
    PROVE  PassOK(p)'
<1>1. CallReads(pass[p].call)' /\ pass'[p].cursor.class <= NumClasses
  BY DEF PassOK, SameCall, CallReads
<1>2. ASSUME pass'[p].onNew
      PROVE  /\ step' >= 3
             /\ \A r \in Places : Behind(r, pass'[p].cursor) => Clear(r)'
             /\ pass'[p].call.pc # "rest" => CallClears(pass[p].call)'
  <2>1. /\ step >= 3 /\ step' >= 3
        /\ \A r \in Places : Behind(r, pass[p].cursor) => Clear(r)
        /\ pass[p].call.pc # "rest" => CallClears(pass[p].call)
    BY <1>2 DEF PassOK, SameCall, Steps
  <2>2. \A r \in Places : Clear(r) => Clear(r)'
    BY <2>1
  <2>3. \A r \in Places : Behind(r, pass'[p].cursor) => Clear(r)'
    BY <2>1, <2>2 DEF SameCall
  <2>4. ASSUME pass'[p].call.pc # "rest"
        PROVE  CallClears(pass[p].call)'
    <3>1. CallClears(pass[p].call)
      BY <2>1, <2>4 DEF SameCall
    <3>2. NextCursor(pass'[p].call) = NextCursor(pass[p].call)
      BY SameNextCursor DEF SameCall
    <3>3. pass'[p].call.keys = 3
      BY <3>1 DEF CallClears, SameCall
    <3>4. \A r \in Places : Behind(r, pass'[p].call.at) => Clear(r)'
      BY <2>2, <3>1 DEF CallClears, SameCall
    <3>5. ASSUME pass'[p].call.pc = "write"
          PROVE  /\ \A r \in Places : Behind(r, NextCursor(pass'[p].call)) => Clear(r)' \/ r \in pass'[p].call.rows
                 /\ \A r \in pass'[p].call.rows \ pass'[p].call.clean : Clear(r)'
      <4>1. /\ \A r \in Places : Behind(r, NextCursor(pass[p].call)) => Clear(r) \/ r \in pass[p].call.rows
            /\ \A r \in pass[p].call.rows \ pass[p].call.clean : Clear(r)
        BY <3>1, <3>5 DEF CallClears, SameCall
      <4>2. \A r \in Places : Behind(r, NextCursor(pass'[p].call)) => Clear(r)' \/ r \in pass'[p].call.rows
        BY <2>2, <3>2, <4>1 DEF SameCall
      <4>3. pass[p].call.rows \in SUBSET Places
        BY DEF PassRecords, CallRecords
      <4>4. \A r \in pass'[p].call.rows \ pass'[p].call.clean : Clear(r)'
        BY <2>1, <2>2, <4>1, <4>3 DEF SameCall
      <4>. QED BY <4>2, <4>4
    <3>. QED BY <3>3, <3>4, <3>5 DEF CallClears
  <2>. QED BY <2>1, <2>3, <2>4
<1>. QED BY <1>1, <1>2 DEF PassOK

\* What is true of each row, call and request after a step.
LEMMA StepKeeps ==
    ASSUME RotationInv, NEW rs \in SUBSET Places, Writes(rs),
           stored' \in [Places -> SUBSET Value], {stale', late', harmed'} \subseteq SUBSET Places,
           asSaved' = Places, pass' \in [Clients -> PassRecords], request' \in [Requests -> RequestRecords],
           \A p \in Clients : SameCall(p, rs) \/ (PassOK(p)' /\ pass'[p].call.keys <= step),
           \A q \in Requests : request'[q].keys <= step /\ Plain \notin request'[q].carried,
           cleared' \in BOOLEAN,
           cleared' => cleared \/ (step >= 3 /\ \A r \in Places : Clear(r))
    PROVE  RotationInv'
<1>1. /\ step \in Steps /\ safe \in BOOLEAN /\ pass \in [Clients -> PassRecords]
      /\ step' = step /\ safe' = safe
  BY RotationTypes DEF RotationInv, Writes
<1>2. RotationTypeOK'
  BY <1>1 DEF RotationTypeOK, PassRecords, CallRecords, RequestRecords
<1>3. KeysAreDeployed'
  BY <1>1 DEF RotationInv, KeysAreDeployed, SameCall
<1>4. \A r \in Places : RowOpens(r)' /\ PlainAlone(r)' /\ (step >= 3 /\ Clear(r) => Clear(r)')
  BY WrittenStay
<1>5. ASSUME NEW p \in Clients
      PROVE  PassOK(p)'
  <2>1. CASE SameCall(p, rs)
    <3>1. \A r \in rs : step >= 3 => Clear(r)'
      BY <1>1 DEF Writes, Cleared
    <3>2. PassOK(p) /\ pass[p] \in PassRecords /\ step <= step' /\ step' \in Steps
      BY <1>1 DEF RotationInv, Steps
    <3>. QED BY <1>1, <1>4, <2>1, <3>1, <3>2, PassStays
  <2>. QED BY <2>1
<1>6. cleared' => step' >= 3 /\ \A r \in Places : Clear(r)'
  BY <1>1, <1>4 DEF RotationInv
<1>. QED BY <1>2, <1>3, <1>4, <1>5, <1>6 DEF RotationInv

LEMMA NoneWritten ==
    ASSUME UNCHANGED <<step, stored, safe, historyVars>>
    PROVE  Writes({})
  BY DEF Writes, historyVars

LEMMA CallsUnclean ==
    ASSUME pass \in [Clients -> PassRecords], NEW rs \in SUBSET Places, NEW ps, ps = Unclean(pass, rs)
    PROVE  /\ ps \in [Clients -> PassRecords]
           /\ pass' = ps => \A p \in Clients : SameCall(p, rs)
           /\ \A p \in Clients : ps[p].cursor = pass[p].cursor /\ ps[p].onNew = pass[p].onNew
<1>1. ps = [p \in Clients |-> [pass[p] EXCEPT !.call.clean = pass[p].call.clean \ rs]]
  BY DEF Unclean
<1>2. \A p \in Clients : pass[p] \in PassRecords
  OBVIOUS
<1>3. ASSUME NEW p \in Clients
      PROVE  /\ ps[p] \in PassRecords
             /\ ps[p].cursor = pass[p].cursor /\ ps[p].onNew = pass[p].onNew
             /\ ps[p].call = [pass[p].call EXCEPT !.clean = pass[p].call.clean \ rs]
  <2>1. ps[p] = [pass[p] EXCEPT !.call.clean = pass[p].call.clean \ rs]
    BY <1>1
  <2>. QED BY <1>2, <2>1 DEF PassRecords, CallRecords
<1>4. ps \in [Clients -> PassRecords]
  BY <1>1, <1>3
<1>5. ASSUME pass' = ps, NEW p \in Clients
      PROVE  SameCall(p, rs)
  <2>1. pass[p].call \in CallRecords
    BY <1>2 DEF PassRecords
  <2>. QED BY <1>3, <1>5, <2>1 DEF SameCall, CallRecords
<1>. QED BY <1>3, <1>4, <1>5

-----------------------------------------------------------------------------
(* The replaced key: the pass.                                              *)

\* A step of a client alone.
LEMMA PassMoves ==
    ASSUME RotationInv, NEW p \in Clients, UNCHANGED <<step, stored, request, safe, historyVars>>,
           pass' = [pass EXCEPT ![p] = pass'[p]], pass'[p] \in PassRecords,
           PassOK(p)', pass'[p].call.keys <= step, cleared' \in BOOLEAN,
           cleared' => cleared \/ (step >= 3 /\ \A r \in Places : Clear(r))
    PROVE  RotationInv'
<1>1. /\ stored \in [Places -> SUBSET Value] /\ {stale, late, harmed} \subseteq SUBSET Places
      /\ pass \in [Clients -> PassRecords] /\ request \in [Requests -> RequestRecords] /\ asSaved = Places
  BY RotationTypes DEF RotationInv
<1>2. Writes({})
  BY NoneWritten
<1>3. pass' \in [Clients -> PassRecords]
  BY <1>1
<1>4. \A o \in Clients : SameCall(o, {}) \/ (PassOK(o)' /\ pass'[o].call.keys <= step)
  <2>. TAKE o \in Clients
  <2>1. o = p \/ pass'[o] = pass[o]
    BY <1>1
  <2>. QED BY <2>1 DEF SameCall
<1>5. \A q \in Requests : request'[q].keys <= step /\ Plain \notin request'[q].carried
  BY DEF RotationInv, KeysAreDeployed
<1>6. /\ stored' \in [Places -> SUBSET Value] /\ {stale', late', harmed'} \subseteq SUBSET Places
      /\ asSaved' = Places /\ request' \in [Requests -> RequestRecords]
  BY <1>1 DEF historyVars
<1>. QED BY <1>2, <1>3, <1>4, <1>5, <1>6, StepKeeps

LEMMA NoCallIsCall == NoCall \in CallRecords /\ NoCall.pc = "rest" /\ NoCall.keys = 1
  BY StartIsCursor, RotationAssumption DEF NoCall, CallRecords, Steps

LEMMA CallEndsKeeps ==
    ASSUME RotationInv, NEW p \in Clients, CallEnds(p)
    PROVE  RotationInv'
<1>1. pass \in [Clients -> PassRecords] /\ step \in Steps /\ cleared \in BOOLEAN /\ PassOK(p)
  BY RotationTypes DEF RotationInv
<1>2. pass' = [pass EXCEPT ![p].call = NoCall]
  BY DEF CallEnds
<1>3. pass'[p] = [pass[p] EXCEPT !.call = NoCall] /\ pass' = [pass EXCEPT ![p] = pass'[p]]
  BY <1>1, <1>2
<1>4. /\ pass'[p].cursor = pass[p].cursor /\ pass'[p].onNew = pass[p].onNew /\ pass'[p].call = NoCall
      /\ pass'[p] \in PassRecords
  <2>1. pass[p] \in PassRecords
    BY <1>1
  <2>. QED BY <1>3, <2>1, NoCallIsCall DEF PassRecords
<1>5. UNCHANGED <<step, stored, request, safe, cleared, historyVars>>
  BY DEF CallEnds
<1>6. PassOK(p)'
  BY <1>1, <1>4, <1>5, NoCallIsCall DEF PassOK, CallReads, Clear, historyVars
<1>7. pass'[p].call.keys <= step
  BY <1>1, <1>4, NoCallIsCall DEF Steps
<1>. QED BY <1>1, <1>3, <1>4, <1>5, <1>6, <1>7, PassMoves

LEMMA RestartsKeeps ==
    ASSUME RotationInv, NEW p \in Clients, Restarts(p)
    PROVE  RotationInv'
<1>1. /\ pass \in [Clients -> PassRecords] /\ step \in Steps /\ cleared \in BOOLEAN /\ PassOK(p)
      /\ pass[p].call.keys <= step
  BY RotationTypes DEF RotationInv, KeysAreDeployed
<1>2. pass' = [pass EXCEPT ![p].cursor = Start] /\ pass[p].call.pc = "rest"
  BY DEF Restarts
<1>3. pass'[p] = [pass[p] EXCEPT !.cursor = Start] /\ pass' = [pass EXCEPT ![p] = pass'[p]]
  BY <1>1, <1>2
<1>4. /\ pass'[p].cursor = Start /\ pass'[p].onNew = pass[p].onNew /\ pass'[p].call = pass[p].call
      /\ pass'[p] \in PassRecords
  <2>1. pass[p] \in PassRecords
    BY <1>1
  <2>. QED BY <1>3, <2>1, StartIsCursor DEF PassRecords
<1>5. UNCHANGED <<step, stored, request, safe, cleared, historyVars>>
  BY DEF Restarts
<1>6. PassOK(p)'
  BY <1>1, <1>2, <1>4, <1>5, StartIsCursor, NothingBehindStart DEF PassOK, CallReads
<1>. QED BY <1>1, <1>3, <1>4, <1>5, <1>6, PassMoves

LEMMA NewCall ==
    ASSUME NEW a, NEW b, NEW c, NEW d
    PROVE  [NoCall EXCEPT !.pc = a, !.keys = b, !.at = c, !.room = d]
             = [pc |-> a, keys |-> b, at |-> c, room |-> d, rows |-> {}, clean |-> {}]
<1>. DEFINE x == [NoCall EXCEPT !.pc = a]
            y == [x EXCEPT !.keys = b]
            z == [y EXCEPT !.at = c]
<1>1. x = [pc |-> a, keys |-> 1, at |-> Start, room |-> 0, rows |-> {}, clean |-> {}]
  BY DEF NoCall
<1>. HIDE DEF x
<1>2. y = [pc |-> a, keys |-> b, at |-> Start, room |-> 0, rows |-> {}, clean |-> {}]
  BY <1>1
<1>. HIDE DEF y
<1>3. z = [pc |-> a, keys |-> b, at |-> c, room |-> 0, rows |-> {}, clean |-> {}]
  BY <1>2
<1>. HIDE DEF z
<1>4. [z EXCEPT !.room = d] = [pc |-> a, keys |-> b, at |-> c, room |-> d, rows |-> {}, clean |-> {}]
  BY <1>3
<1>. QED BY <1>4, Zenon DEF x, y, z

LEMMA BeginCallKeeps ==
    ASSUME RotationInv, NEW p \in Clients, BeginCall(p)
    PROVE  RotationInv'
<1>1. /\ pass \in [Clients -> PassRecords] /\ step \in Steps /\ cleared \in BOOLEAN /\ PassOK(p)
      /\ pass[p] \in PassRecords
  BY RotationTypes DEF RotationInv
<1>. DEFINE c == [NoCall EXCEPT !.pc = "read", !.keys = step, !.at = pass[p].cursor, !.room = RowLimit]
            n == step = 3 /\ (pass[p].onNew \/ pass[p].cursor = Start)
<1>2. pass' = [pass EXCEPT ![p].call = c, ![p].onNew = n]
  BY DEF BeginCall
<1>3. /\ c.pc = "read" /\ c.keys = step /\ c.at = pass[p].cursor /\ c.room = RowLimit /\ c \in CallRecords
  <2>1. pass[p].cursor \in Cursors
    BY <1>1 DEF PassRecords
  <2>2. c = [pc |-> "read", keys |-> step, at |-> pass[p].cursor, room |-> RowLimit,
             rows |-> {}, clean |-> {}]
    BY NewCall, Zenon
  <2>3. RowLimit \in 0 .. RowLimit
    BY RotationAssumption
  <2>. HIDE DEF c
  <2>. QED BY <1>1, <2>1, <2>2, <2>3 DEF CallRecords
<1>4. n \in BOOLEAN /\ (n <=> step = 3 /\ (pass[p].onNew \/ pass[p].cursor = Start))
  OBVIOUS
<1>. HIDE DEF c, n
<1>5. pass'[p] = [pass[p] EXCEPT !.call = c, !.onNew = n] /\ pass' = [pass EXCEPT ![p] = pass'[p]]
  BY <1>1, <1>2
<1>6. /\ pass'[p].cursor = pass[p].cursor /\ pass'[p].onNew = n /\ pass'[p].call = c
      /\ pass'[p] \in PassRecords
  BY <1>1, <1>3, <1>4, <1>5 DEF PassRecords
<1>7. UNCHANGED <<step, stored, request, safe, cleared, historyVars>>
  BY DEF BeginCall
<1>8. \A r \in Places : Clear(r)' <=> Clear(r)
  BY <1>7 DEF Clear, historyVars
<1>9. ASSUME n
      PROVE  step = 3 /\ \A r \in Places : Behind(r, pass[p].cursor) => Clear(r)
    BY <1>1, <1>4, <1>9, NothingBehindStart DEF PassOK
<1>10. CallReads(c) /\ pass[p].cursor.class <= NumClasses
  BY <1>1, <1>3, RotationAssumption DEF PassOK, CallReads
<1>11. PassOK(p)'
  <2>1. CallReads(pass'[p].call) /\ pass'[p].cursor.class <= NumClasses
    BY <1>6, <1>10
  <2>2. ASSUME pass'[p].onNew
        PROVE  /\ step' >= 3
               /\ \A r \in Places : Behind(r, pass'[p].cursor) => Clear(r)'
               /\ CallClears(pass[p].call)'
    <3>1. step = 3 /\ \A r \in Places : Behind(r, pass[p].cursor) => Clear(r)'
      BY <1>6, <1>8, <1>9, <2>2
    <3>2. CallClears(pass[p].call)'
      BY <1>3, <1>6, <3>1 DEF CallClears
    <3>. QED BY <1>6, <1>7, <3>1, <3>2
  <2>. QED BY <2>1, <2>2 DEF PassOK, CallReads
<1>12. pass'[p].call.keys <= step
  BY <1>1, <1>3, <1>6 DEF Steps
<1>. QED BY <1>1, <1>5, <1>6, <1>7, <1>11, <1>12, PassMoves

LEMMA SelectRowsKeeps ==
    ASSUME RotationInv, NEW p \in Clients, SelectRows(p)
    PROVE  RotationInv'
<1>1. /\ pass \in [Clients -> PassRecords] /\ step \in Steps /\ cleared \in BOOLEAN /\ PassOK(p)
      /\ pass[p] \in PassRecords /\ pass[p].call.keys <= step /\ stored \in [Places -> SUBSET Value]
  BY RotationTypes DEF RotationInv, KeysAreDeployed
<1>. DEFINE c == pass[p].call
            rows == Page(c.at, c.room)
            d == [c EXCEPT !.pc = "write", !.rows = rows, !.clean = rows]
<1>2. c \in CallRecords /\ c.pc = "read" /\ rows \in SUBSET Places
  BY <1>1 DEF PassRecords, SelectRows, Page, FirstRows
<1>3. pass' = [pass EXCEPT ![p].call.pc = "write", ![p].call.rows = rows, ![p].call.clean = rows]
  BY DEF SelectRows
<1>4. UNCHANGED <<step, stored, request, safe, cleared, historyVars>>
  BY DEF SelectRows
<1>. HIDE DEF rows
<1>5. pass'[p] = [pass[p] EXCEPT !.call = d] /\ pass' = [pass EXCEPT ![p] = pass'[p]]
  BY <1>1, <1>3
<1>6. /\ d \in CallRecords /\ d.pc = "write" /\ d.rows = rows /\ d.clean = rows
      /\ d.at = c.at /\ d.room = c.room /\ d.keys = c.keys
  BY <1>2 DEF CallRecords
<1>7. c.at.class <= NumClasses /\ c.room > 0
  BY <1>1, <1>2 DEF PassOK, CallReads
<1>. HIDE DEF c, d
<1>8. /\ pass'[p].cursor = pass[p].cursor /\ pass'[p].onNew = pass[p].onNew /\ pass'[p].call = d
      /\ pass'[p] \in PassRecords
  BY <1>1, <1>5, <1>6 DEF PassRecords
<1>9. /\ Cardinality(rows) <= c.room
      /\ \A r \in Places : Behind(r, NextCursor(d)) => Behind(r, c.at) \/ stored[r] = {} \/ r \in rows
  <2>1. rows = Page(c.at, c.room)
    BY DEF rows
  <2>. HIDE DEF Page, Behind, NextCursor
  <2>. QED BY <1>1, <1>6, <1>7, <2>1, PageIsWhole
<1>10. \A r \in Places : /\ Clear(r)' <=> Clear(r)
                         /\ stored[r] = {} => Clear(r)
  BY <1>4 DEF Clear, historyVars
<1>11. CallReads(d)
  BY <1>6, <1>7, <1>9 DEF CallReads
<1>12. ASSUME pass[p].onNew
       PROVE  /\ step >= 3 /\ \A r \in Places : Behind(r, pass[p].cursor) => Clear(r)
              /\ CallClears(pass[p].call)'
  <2>1. /\ step >= 3 /\ \A r \in Places : Behind(r, pass[p].cursor) => Clear(r)
        /\ c.keys = 3 /\ \A r \in Places : Behind(r, c.at) => Clear(r)
    BY <1>1, <1>2, <1>12 DEF PassOK, CallClears, c
  <2>2. \A r \in Places : Behind(r, NextCursor(d)) => Clear(r)' \/ r \in d.rows
    BY <1>6, <1>9, <1>10, <2>1
  <2>3. CallClears(pass[p].call)'
    BY <1>6, <1>8, <1>10, <2>1, <2>2 DEF CallClears
  <2>. QED BY <2>1, <2>3
<1>13. PassOK(p)'
  <2>1. CallReads(pass'[p].call) /\ pass'[p].cursor.class <= NumClasses
    BY <1>1, <1>8, <1>11 DEF PassOK
  <2>2. pass'[p].onNew => /\ step' >= 3
                          /\ \A r \in Places : Behind(r, pass'[p].cursor) => Clear(r)'
                          /\ CallClears(pass[p].call)'
    BY <1>4, <1>8, <1>10, <1>12
  <2>. QED BY <2>1, <2>2 DEF PassOK, CallReads
<1>14. pass'[p].call.keys <= step
  BY <1>1, <1>6, <1>8 DEF c
<1>. QED BY <1>1, <1>4, <1>5, <1>8, <1>13, <1>14, PassMoves

LEMMA AnsweredKeeps ==
    ASSUME RotationInv, NEW p \in Clients, Answered(p)
    PROVE  RotationInv'
<1>1. /\ pass \in [Clients -> PassRecords] /\ step \in Steps /\ cleared \in BOOLEAN /\ PassOK(p)
      /\ pass[p] \in PassRecords
  BY RotationTypes DEF RotationInv
<1>. DEFINE at == pass[p].call.at
            done == at.class > NumClasses
            cursor == IF done THEN Start ELSE at
<1>2. /\ pass[p].call.pc = "answer"
      /\ pass' = [pass EXCEPT ![p].call = NoCall, ![p].cursor = cursor]
      /\ cleared' = (cleared \/ (done /\ pass[p].onNew))
      /\ UNCHANGED <<step, stored, request, safe, historyVars>>
  BY DEF Answered
<1>3. at \in Cursors /\ at.class \in Nat /\ NumClasses \in Nat /\ pass[p].onNew \in BOOLEAN
  BY <1>1, ClassesFollow DEF PassRecords, CallRecords, Cursors
<1>4. cursor \in Cursors /\ cursor.class <= NumClasses /\ (cursor = Start \/ (cursor = at /\ ~done))
  BY <1>3, StartIsCursor
<1>5. done => \A r \in Places : Behind(r, at)
  BY <1>3, AllBehindTheEnd
<1>6. pass[p].onNew => step >= 3 /\ \A r \in Places : Behind(r, at) => Clear(r)
  BY <1>1, <1>2 DEF PassOK, CallClears
<1>7. cleared' \in BOOLEAN /\ (cleared' => cleared \/ (step >= 3 /\ \A r \in Places : Clear(r)))
  BY <1>1, <1>2, <1>3, <1>5, <1>6
<1>. HIDE DEF cursor, done, at
<1>8. pass'[p] = [pass[p] EXCEPT !.call = NoCall, !.cursor = cursor] /\ pass' = [pass EXCEPT ![p] = pass'[p]]
  BY <1>1, <1>2
<1>9. /\ pass'[p].cursor = cursor /\ pass'[p].onNew = pass[p].onNew /\ pass'[p].call = NoCall
      /\ pass'[p] \in PassRecords
  BY <1>1, <1>4, <1>8, NoCallIsCall DEF PassRecords
<1>10. \A r \in Places : Clear(r)' <=> Clear(r)
  BY <1>2 DEF Clear, historyVars
<1>11. PassOK(p)'
  <2>1. pass[p].onNew => \A r \in Places : Behind(r, cursor) => Clear(r)'
    BY <1>4, <1>6, <1>10, NothingBehindStart
  <2>. QED BY <1>2, <1>4, <1>6, <1>9, <2>1, NoCallIsCall DEF PassOK, CallReads
<1>12. pass'[p].call.keys <= step
  BY <1>1, <1>9, NoCallIsCall DEF Steps
<1>. QED BY <1>1, <1>2, <1>7, <1>8, <1>9, <1>11, <1>12, PassMoves

\* Where a call is after its batch of updates.
LEMMA AdvancedIs ==
    ASSUME NEW c \in CallRecords, c.at.class <= NumClasses, c.room > 0, Cardinality(c.rows) <= c.room
    PROVE  LET d == Advanced(c) IN
           /\ d \in CallRecords /\ d.keys = c.keys /\ d.at = NextCursor(c) /\ d.pc \in {"read", "answer"}
           /\ CallReads(d)
<1>. DEFINE at == NextCursor(c)
            room == c.room - Cardinality(c.rows)
            d == Advanced(c)
<1>1. at \in Cursors
  BY NextCursorIs
<1>2. c.rows \in SUBSET Places /\ c.room \in 0 .. RowLimit /\ RowLimit \in Nat /\ c.keys \in Steps
  BY RotationAssumption DEF CallRecords
<1>3. Cardinality(c.rows) \in Nat
  BY <1>2, RowsAreFinite
<1>4. room \in 0 .. RowLimit
  BY <1>2, <1>3
<1>5. at.class \in Nat /\ NumClasses \in Nat
  BY <1>1, ClassesFollow DEF Cursors
<1>6. d = [pc |-> IF at.class > NumClasses \/ room = 0 THEN "answer" ELSE "read", keys |-> c.keys,
           at |-> at, room |-> room, rows |-> {}, clean |-> {}]
  BY NewCall, Zenon DEF Advanced
<1>. HIDE DEF at, room, d
<1>7. d \in CallRecords /\ d.keys = c.keys /\ d.at = at /\ d.room = room /\ d.pc \in {"read", "answer"}
  BY <1>1, <1>2, <1>4, <1>6 DEF CallRecords
<1>8. d.pc = "read" => at.class <= NumClasses /\ room > 0
  BY <1>2, <1>4, <1>5, <1>6
<1>. QED BY <1>7, <1>8 DEF CallReads, d, at

\* A row of the page that is not written has nothing left to do.
LEMMA KeptRowIsClear ==
    ASSUME stored \in [Places -> SUBSET Value], NEW r \in Places, ~Rekeys(r, 3)
    PROVE  Clear(r)
<1>1. CASE stored[r] = {} \/ stored[r] = {Sealed(3)}
  BY <1>1 DEF Clear
<1>2. CASE Unopened(r, 3) # {}
  <2>1. PICK v \in stored[r] : ~OpensWith(v, 3)
    BY <1>2 DEF Unopened
  <2>2. v \in Value /\ v # Plain /\ v.key \notin {"new", "old"}
    BY <2>1 DEF OpensWith, Keyring, CurrentKey
  <2>. QED BY <2>1, <2>2, ValueKeys DEF Clear
<1>. QED BY <1>1, <1>2 DEF Rekeys

LEMMA WriteRowsKeeps ==
    ASSUME RotationInv, NEW p \in Clients, WriteRows(p)
    PROVE  RotationInv'
<1>1. /\ stored \in [Places -> SUBSET Value] /\ {stale, late, harmed} \subseteq SUBSET Places
      /\ pass \in [Clients -> PassRecords] /\ request \in [Requests -> RequestRecords] /\ asSaved = Places
      /\ step \in Steps /\ cleared \in BOOLEAN /\ PassOK(p) /\ pass[p] \in PassRecords
      /\ pass[p].call.keys <= step
  BY RotationTypes DEF RotationInv, KeysAreDeployed
<1>. DEFINE c == pass[p].call
            written == {r \in c.rows : Swaps(c, r) /\ Rekeys(r, c.keys)}
<1>2. /\ c.pc = "write"
      /\ stored' = [r \in Places |-> IF r \in written THEN {Sealed(c.keys)} ELSE stored[r]]
      /\ asSaved' = asSaved \ (written \ c.clean)
      /\ MarksRows(written, Replaced(c.keys))
      /\ \/ pass' = [Unclean(pass, written) EXCEPT ![p].call = Advanced(c)]
         \/ pass' = [Unclean(pass, written) EXCEPT ![p].call = NoCall]
      /\ UNCHANGED <<step, request, safe, cleared, harmed>>
  BY DEF WriteRows
<1>3. c \in CallRecords /\ c.keys \in Steps /\ c.rows \in SUBSET Places
  BY <1>1 DEF PassRecords, CallRecords
<1>4. /\ written \in SUBSET Places /\ written \subseteq c.clean
      /\ \A r \in c.rows \cap c.clean : r \in written \/ ~Rekeys(r, c.keys)
  BY <1>3 DEF Swaps
<1>5. c.at.class <= NumClasses /\ c.room > 0 /\ Cardinality(c.rows) <= c.room /\ c.keys <= step
  BY <1>1, <1>2 DEF PassOK, CallReads
<1>. HIDE DEF written
<1>6. /\ stale' \in SUBSET Places /\ late' \in SUBSET Places
      /\ \A r \in Places \ written : (r \in stale => r \in stale') /\ (r \in late => r \in late')
      /\ Replaced(c.keys) => written \subseteq stale' /\ written \subseteq late'
  BY <1>1, <1>2, <1>4 DEF MarksRows
<1>7. /\ stored' \in [Places -> SUBSET Value] /\ asSaved' = Places
      /\ \A r \in written : stored'[r] = {Sealed(c.keys)} \cup {}
      /\ \A r \in Places \ written : stored'[r] = stored[r]
  <2>1. Sealed(c.keys) \in Value
    BY <1>3, SealedFacts
  <2>. QED BY <1>1, <1>2, <1>4, <2>1
<1>8. Writes(written)
  <2>1. ASSUME NEW r \in written
        PROVE  RowOpens(r)' /\ PlainAlone(r)' /\ Cleared(r)'
    <3>1. OnlyLost({})
      BY DEF OnlyLost
    <3>2. safe => step >= 3
      BY DEF RotationInv, KeysAreDeployed
    <3>3. {} \in SUBSET Value /\ Plain \notin {}
      OBVIOUS
    <3>4. Replaced(c.keys) \/ ~OnlyLost({}) => r \in late' /\ r \in stale'
      BY <1>6, <3>1
    <3>. HIDE DEF c
    <3>. QED BY <1>1, <1>2, <1>3, <1>4, <1>5, <1>7, <3>2, <3>3, <3>4, Rewritten DEF c
  <2>. QED BY <1>2, <1>6, <1>7, <2>1 DEF Writes
<1>9. \A r \in Places : step >= 3 /\ Clear(r) => Clear(r)'
  BY <1>8, <1>4, WrittenStay
<1>. DEFINE ps == Unclean(pass, written)
<1>10. /\ ps \in [Clients -> PassRecords]
       /\ \A o \in Clients : ps[o].cursor = pass[o].cursor /\ ps[o].onNew = pass[o].onNew
  BY <1>1, <1>4, CallsUnclean
<1>11. PICK d \in {Advanced(c), NoCall} : pass' = [ps EXCEPT ![p].call = d]
  BY <1>2
<1>. HIDE DEF ps
<1>12. /\ d \in CallRecords /\ CallReads(d) /\ d.keys <= step
       /\ d.pc # "rest" => d.keys = c.keys /\ d.at = NextCursor(c) /\ d.pc # "write"
  <2>1. CASE d = NoCall
    BY <1>1, <2>1, NoCallIsCall DEF CallReads, Steps
  <2>2. CASE d = Advanced(c)
    <3>. HIDE DEF c
    <3>. QED BY <1>3, <1>5, <2>2, AdvancedIs
  <2>. QED BY <2>1, <2>2
<1>13. /\ pass' \in [Clients -> PassRecords]
       /\ pass'[p].cursor = pass[p].cursor /\ pass'[p].onNew = pass[p].onNew /\ pass'[p].call = d
       /\ \A o \in Clients \ {p} : pass'[o] = ps[o]
  <2>1. \A o \in Clients : ps[o] \in PassRecords
    BY <1>10
  <2>2. /\ pass'[p] = [ps[p] EXCEPT !.call = d]
        /\ \A o \in Clients \ {p} : pass'[o] = ps[o]
        /\ DOMAIN pass' = Clients /\ pass' = [o \in Clients |-> pass'[o]]
    BY <1>10, <1>11
  <2>3. /\ pass'[p] \in PassRecords /\ pass'[p].cursor = ps[p].cursor
        /\ pass'[p].onNew = ps[p].onNew /\ pass'[p].call = d
    BY <1>12, <2>1, <2>2 DEF PassRecords
  <2>. QED BY <1>10, <2>1, <2>2, <2>3
<1>14. ASSUME NEW o \in Clients, o # p
       PROVE  SameCall(o, written)
  <2>1. ps[o] = [pass[o] EXCEPT !.call.clean = pass[o].call.clean \ written]
    BY DEF ps, Unclean
  <2>2. pass[o] \in PassRecords
    BY <1>1
  <2>3. pass[o].call \in CallRecords /\ ps[o].call = [pass[o].call EXCEPT !.clean = pass[o].call.clean \ written]
    BY <2>1, <2>2 DEF PassRecords
  <2>. QED BY <1>10, <1>13, <1>14, <2>3 DEF SameCall, CallRecords
<1>15. PassOK(p)'
  <2>1. ASSUME pass[p].onNew
        PROVE  /\ step >= 3 /\ c.keys = 3
               /\ \A r \in Places : Behind(r, pass[p].cursor) => Clear(r)'
               /\ \A r \in Places : Behind(r, NextCursor(c)) => Clear(r)'
    <3>1. /\ step >= 3 /\ c.keys = 3
          /\ \A r \in Places : Behind(r, pass[p].cursor) => Clear(r)
          /\ \A r \in Places : Behind(r, NextCursor(c)) => Clear(r) \/ r \in c.rows
          /\ \A r \in c.rows \ c.clean : Clear(r)
      BY <1>1, <1>2, <2>1 DEF PassOK, CallClears
    <3>2. ASSUME NEW r \in c.rows
          PROVE  Clear(r)'
      <4>1. r \in Places
        BY <1>3
      <4>2. CASE r \in written
        BY <1>2, <1>8, <3>1, <4>2 DEF Writes, Cleared
      <4>3. CASE r \notin written
        <5>1. r \notin c.clean \/ ~Rekeys(r, 3)
          BY <1>4, <3>1, <4>3
        <5>2. Clear(r)
          BY <1>1, <3>1, <4>1, <5>1, KeptRowIsClear
        <5>. QED BY <1>9, <3>1, <4>1, <5>2
      <4>. QED BY <4>2, <4>3
    <3>. QED BY <1>9, <3>1, <3>2
  <2>2. CallReads(pass'[p].call) /\ pass'[p].cursor.class <= NumClasses
    BY <1>1, <1>12, <1>13 DEF PassOK
  <2>3. ASSUME pass'[p].onNew
        PROVE  /\ step' >= 3 /\ \A r \in Places : Behind(r, pass'[p].cursor) => Clear(r)'
               /\ pass'[p].call.pc # "rest" => CallClears(pass[p].call)'
    <3>. HIDE DEF c
    <3>1. pass'[p].call.pc # "rest" => CallClears(pass[p].call)'
      BY <1>12, <1>13, <2>1, <2>3 DEF CallClears
    <3>. QED BY <1>2, <1>13, <2>1, <2>3, <3>1
  <2>. QED BY <2>2, <2>3 DEF PassOK, CallReads
<1>16. \A o \in Clients : SameCall(o, written) \/ (PassOK(o)' /\ pass'[o].call.keys <= step)
  BY <1>12, <1>13, <1>14, <1>15
<1>17. \A q \in Requests : request'[q].keys <= step /\ Plain \notin request'[q].carried
  BY <1>2 DEF RotationInv, KeysAreDeployed
<1>18. /\ {stale', late', harmed'} \subseteq SUBSET Places /\ request' \in [Requests -> RequestRecords]
       /\ cleared' \in BOOLEAN /\ cleared' = cleared
  BY <1>1, <1>2, <1>6
<1>. QED BY <1>4, <1>7, <1>8, <1>13, <1>16, <1>17, <1>18, StepKeeps

-----------------------------------------------------------------------------
(* The replaced key: the app's requests.                                    *)

\* A step of a request alone.
LEMMA RequestMoves ==
    ASSUME RotationInv, NEW q \in Requests, UNCHANGED <<step, stored, pass, safe, cleared, historyVars>>,
           NEW x \in RequestRecords, request' = [request EXCEPT ![q] = x],
           x.keys <= step, Plain \notin x.carried
    PROVE  RotationInv'
<1>1. /\ stored \in [Places -> SUBSET Value] /\ {stale, late, harmed} \subseteq SUBSET Places
      /\ pass \in [Clients -> PassRecords] /\ request \in [Requests -> RequestRecords] /\ asSaved = Places
      /\ cleared \in BOOLEAN
  BY RotationTypes DEF RotationInv
<1>2. Writes({})
  BY NoneWritten
<1>3. \A p \in Clients : SameCall(p, {})
  BY DEF SameCall
<1>4. /\ request' \in [Requests -> RequestRecords]
      /\ \A o \in Requests : request'[o] = x \/ request'[o] = request[o]
  BY <1>1
<1>5. \A o \in Requests : request[o].keys <= step /\ Plain \notin request[o].carried
  BY DEF RotationInv, KeysAreDeployed
<1>6. \A o \in Requests : request'[o].keys <= step /\ Plain \notin request'[o].carried
  BY <1>4, <1>5
<1>7. /\ stored' \in [Places -> SUBSET Value] /\ {stale', late', harmed'} \subseteq SUBSET Places
      /\ asSaved' = Places /\ pass' \in [Clients -> PassRecords] /\ cleared' \in BOOLEAN /\ cleared' = cleared
  BY <1>1 DEF historyVars
<1>. QED BY <1>2, <1>3, <1>4, <1>6, <1>7, StepKeeps

LEMMA NoRequestIs ==
    /\ NoRequest \in RequestRecords /\ NoRequest.keys = 1 /\ NoRequest.carried = {}
<1>1. 1 \in Places /\ 1 \in Steps
  BY RotationAssumption DEF Places, Steps
<1>. QED BY <1>1 DEF NoRequest, RequestRecords

LEMMA RequestStepsKeep ==
    ASSUME RotationInv, NEW q \in Requests,
           Arrives(q) \/ Leaves(q) \/ \E r \in Places : ReadsRow(q, r)
    PROVE  RotationInv'
<1>1. /\ step \in Steps /\ request \in [Requests -> RequestRecords] /\ stored \in [Places -> SUBSET Value]
      /\ request[q] \in RequestRecords /\ request[q].keys <= step
  BY RotationTypes DEF RotationInv, KeysAreDeployed
<1>2. CASE Arrives(q)
  <2>. DEFINE x == [NoRequest EXCEPT !.pc = "open", !.keys = step]
  <2>1. x \in RequestRecords /\ x.keys = step /\ x.carried = {}
    BY <1>1, NoRequestIs DEF RequestRecords
  <2>2. request' = [request EXCEPT ![q] = x]
    BY <1>2 DEF Arrives
  <2>3. UNCHANGED <<step, stored, pass, safe, cleared, historyVars>>
    BY <1>2 DEF Arrives
  <2>. HIDE DEF x
  <2>4. x.keys <= step /\ Plain \notin x.carried
    BY <1>1, <2>1 DEF Steps
  <2>. QED BY <2>1, <2>2, <2>3, <2>4, RequestMoves
<1>3. CASE Leaves(q)
  <2>1. request' = [request EXCEPT ![q] = NoRequest]
    BY <1>3 DEF Leaves
  <2>2. UNCHANGED <<step, stored, pass, safe, cleared, historyVars>>
    BY <1>3 DEF Leaves
  <2>3. NoRequest.keys <= step /\ Plain \notin NoRequest.carried
    BY <1>1, NoRequestIs DEF Steps
  <2>. QED BY <2>1, <2>2, <2>3, NoRequestIs, RequestMoves
<1>4. ASSUME NEW r \in Places, ReadsRow(q, r)
      PROVE  RotationInv'
  <2>. DEFINE us == Unopened(r, request[q].keys)
              x == [request[q] EXCEPT !.pc = "edit", !.place = r, !.carried = us]
  <2>1. us \in SUBSET Value /\ Plain \notin us
    BY <1>1 DEF Unopened, OpensWith
  <2>2. request' = [request EXCEPT ![q].pc = "edit", ![q].place = r, ![q].carried = us]
    BY <1>4 DEF ReadsRow
  <2>. HIDE DEF us
  <2>3. x \in RequestRecords /\ x.keys = request[q].keys /\ x.carried = us
    BY <1>1, <2>1 DEF RequestRecords
  <2>4. request' = [request EXCEPT ![q] = x]
    BY <1>1, <2>2
  <2>5. UNCHANGED <<step, stored, pass, safe, cleared, historyVars>>
    BY <1>4 DEF ReadsRow
  <2>. HIDE DEF x
  <2>6. x.keys <= step /\ Plain \notin x.carried
    BY <1>1, <2>1, <2>3
  <2>. QED BY <2>3, <2>4, <2>5, <2>6, RequestMoves
<1>. QED BY <1>2, <1>3, <1>4

\* A write of one row by a request, or its deletion.
LEMMA RowMoves ==
    ASSUME RotationInv, NEW r \in Places, Writes({r}), step' = step, safe' = safe, cleared' = cleared,
           stored' \in [Places -> SUBSET Value], {stale', late', harmed'} \subseteq SUBSET Places,
           asSaved' = Places, pass' = Unclean(pass, {r}),
           request' \in [Requests -> RequestRecords],
           \A o \in Requests : request'[o] = NoRequest \/ request'[o] = request[o]
    PROVE  RotationInv'
<1>1. pass \in [Clients -> PassRecords] /\ step \in Steps /\ cleared \in BOOLEAN
  BY RotationTypes DEF RotationInv
<1>2. pass' \in [Clients -> PassRecords] /\ \A p \in Clients : SameCall(p, {r})
  BY <1>1, CallsUnclean
<1>3. \A o \in Requests : request[o].keys <= step /\ Plain \notin request[o].carried
  BY DEF RotationInv, KeysAreDeployed
<1>4. 1 <= step
  BY <1>1 DEF Steps
<1>5. \A o \in Requests : request'[o].keys <= step /\ Plain \notin request'[o].carried
  BY <1>3, <1>4, NoRequestIs
<1>. QED BY <1>1, <1>2, <1>5, StepKeeps

\* The row is written whole, under the key of the request.
LEMMA RowIsRight ==
    ASSUME RotationInv, NEW n \in Steps, n <= step, NEW r \in Places, step' = step, safe' = safe,
           NEW kept \in SUBSET Value, Plain \notin kept,
           stored' = [stored EXCEPT ![r] = {Sealed(n)} \cup kept],
           \A o \in Places \ {r} : (o \in stale => o \in stale') /\ (o \in late => o \in late'),
           Replaced(n) \/ ~OnlyLost(kept) => r \in late' /\ r \in stale'
    PROVE  Writes({r}) /\ stored' \in [Places -> SUBSET Value]
<1>1. /\ step \in Steps /\ stored \in [Places -> SUBSET Value] /\ (safe => step >= 3)
  BY RotationTypes DEF RotationInv, KeysAreDeployed
<1>2. Sealed(n) \in Value
  BY SealedFacts
<1>3. /\ stored'[r] = {Sealed(n)} \cup kept
      /\ \A o \in Places \ {r} : stored'[o] = stored[o]
      /\ stored' \in [Places -> SUBSET Value]
  BY <1>1, <1>2
<1>4. RowOpens(r)' /\ PlainAlone(r)' /\ Cleared(r)'
  BY <1>1, <1>3, Rewritten
<1>. QED BY <1>3, <1>4 DEF Writes

LEMMA MarkedRows ==
    ASSUME NEW r \in Places, NEW replaced \in BOOLEAN, MarksRows({r}, replaced),
           {stale, late} \subseteq SUBSET Places
    PROVE  /\ {stale', late'} \subseteq SUBSET Places
           /\ \A o \in Places \ {r} : (o \in stale => o \in stale') /\ (o \in late => o \in late')
           /\ replaced => r \in late' /\ r \in stale'
  BY DEF MarksRows

LEMMA SavesRowKeeps ==
    ASSUME RotationInv, NEW q \in Requests, SavesRow(q)
    PROVE  RotationInv'
<1>1. /\ step \in Steps /\ request \in [Requests -> RequestRecords] /\ stored \in [Places -> SUBSET Value]
      /\ request[q] \in RequestRecords /\ request[q].keys <= step /\ Plain \notin request[q].carried
      /\ {stale, late, harmed} \subseteq SUBSET Places /\ asSaved = Places
  BY RotationTypes DEF RotationInv, KeysAreDeployed
<1>. DEFINE r == request[q].place
            n == request[q].keys
<1>2. r \in Places /\ n \in Steps /\ n <= step /\ request[q].carried \in SUBSET Value
  BY <1>1 DEF RequestRecords
<1>3. PICK kept \in {{}, request[q].carried} :
         IF stored[r] = {} THEN UNCHANGED <<stored, pass, historyVars>>
         ELSE /\ stored' = [stored EXCEPT ![r] = {Sealed(n)} \cup kept]
              /\ pass' = Unclean(pass, {r})
              /\ MarksRows({r}, Replaced(n) \/ ~OnlyLost(kept))
              /\ harmed' = IF OnlyLost(request[q].carried \ kept) THEN harmed ELSE harmed \cup {r}
              /\ asSaved' = asSaved \cup {r}
  BY DEF SavesRow
<1>4. request' = [request EXCEPT ![q] = NoRequest] /\ UNCHANGED <<step, safe, cleared>>
  BY DEF SavesRow
<1>5. kept \in SUBSET Value /\ Plain \notin kept
  BY <1>1, <1>2
<1>6. CASE stored[r] = {}
  <2>1. UNCHANGED <<step, stored, pass, safe, cleared, historyVars>>
    BY <1>3, <1>4, <1>6
  <2>2. NoRequest.keys <= step /\ Plain \notin NoRequest.carried
    BY <1>1, NoRequestIs DEF Steps
  <2>. QED BY <1>4, <2>1, <2>2, NoRequestIs, RequestMoves
<1>7. CASE stored[r] # {}
  <2>. DEFINE replaced == Replaced(n) \/ ~OnlyLost(kept)
  <2>1. /\ stored' = [stored EXCEPT ![r] = {Sealed(n)} \cup kept]
        /\ pass' = Unclean(pass, {r})
        /\ MarksRows({r}, replaced)
        /\ harmed' \in SUBSET Places
        /\ asSaved' = Places
    BY <1>1, <1>2, <1>3, <1>7
  <2>2. replaced \in BOOLEAN
    BY DEF Replaced, OnlyLost
  <2>. HIDE DEF r, n
  <2>3. /\ {stale', late'} \subseteq SUBSET Places
        /\ \A o \in Places \ {r} : (o \in stale => o \in stale') /\ (o \in late => o \in late')
        /\ replaced => r \in late' /\ r \in stale'
    <3>. HIDE DEF replaced
    <3>. QED BY <1>1, <1>2, <2>1, <2>2, MarkedRows
  <2>4. Writes({r}) /\ stored' \in [Places -> SUBSET Value]
    BY <1>2, <1>4, <1>5, <2>1, <2>3, RowIsRight
  <2>5. /\ request' \in [Requests -> RequestRecords]
        /\ \A o \in Requests : request'[o] = NoRequest \/ request'[o] = request[o]
    BY <1>1, <1>4, NoRequestIs
  <2>. QED BY <1>2, <1>4, <2>1, <2>3, <2>4, <2>5, RowMoves
<1>. QED BY <1>6, <1>7

LEMMA InsertsRowKeeps ==
    ASSUME RotationInv, NEW q \in Requests, NEW r \in Places, InsertsRow(q, r)
    PROVE  RotationInv'
<1>1. /\ step \in Steps /\ request \in [Requests -> RequestRecords] /\ stored \in [Places -> SUBSET Value]
      /\ request[q] \in RequestRecords /\ request[q].keys <= step /\ pass \in [Clients -> PassRecords]
      /\ {stale, late, harmed} \subseteq SUBSET Places /\ asSaved = Places /\ cleared \in BOOLEAN
  BY RotationTypes DEF RotationInv, KeysAreDeployed
<1>. DEFINE n == request[q].keys
<1>2. n \in Steps /\ n <= step
  BY <1>1 DEF RequestRecords
<1>3. /\ request' = [request EXCEPT ![q] = NoRequest] /\ UNCHANGED <<step, pass, safe, cleared, harmed>>
      /\ stored' = [stored EXCEPT ![r] = {Sealed(n)} \cup {}]
      /\ MarksRows({r}, Replaced(n)) /\ asSaved' = Places
  BY <1>1 DEF InsertsRow
<1>4. Replaced(n) \in BOOLEAN /\ OnlyLost({}) /\ {} \in SUBSET Value /\ Plain \notin {}
  BY DEF Replaced, OnlyLost
<1>. HIDE DEF n
<1>5. /\ {stale', late'} \subseteq SUBSET Places
      /\ \A o \in Places \ {r} : (o \in stale => o \in stale') /\ (o \in late => o \in late')
      /\ Replaced(n) => r \in late' /\ r \in stale'
  BY <1>1, <1>3, <1>4, MarkedRows
<1>6. Replaced(n) \/ ~OnlyLost({}) => r \in late' /\ r \in stale'
  BY <1>4, <1>5
<1>7. Writes({r}) /\ stored' \in [Places -> SUBSET Value]
  BY <1>2, <1>3, <1>4, <1>5, <1>6, RowIsRight
<1>8. \A o \in Requests : request'[o] \in RequestRecords /\ request'[o].keys <= step
                          /\ Plain \notin request'[o].carried
  <2>. TAKE o \in Requests
  <2>1. /\ request[o].keys <= step /\ Plain \notin request[o].carried /\ request[o] \in RequestRecords
        /\ 1 <= step
    BY <1>1 DEF RotationInv, KeysAreDeployed, Steps
  <2>2. request'[o] = NoRequest \/ request'[o] = request[o]
    BY <1>1, <1>3
  <2>. QED BY <2>1, <2>2, NoRequestIs
<1>9. request' \in [Requests -> RequestRecords]
  BY <1>1, <1>3, NoRequestIs
<1>10. \A p \in Clients : SameCall(p, {r})
  BY <1>3 DEF SameCall
<1>11. pass' \in [Clients -> PassRecords] /\ {stale', late', harmed'} \subseteq SUBSET Places
  BY <1>1, <1>3, <1>5
<1>. QED BY <1>1, <1>3, <1>7, <1>8, <1>9, <1>10, <1>11, StepKeeps

LEMMA SealsOnReadKeeps ==
    ASSUME RotationInv, NEW q \in Requests, NEW r \in Places, SealsOnRead(q, r)
    PROVE  RotationInv'
<1>1. /\ step \in Steps /\ request \in [Requests -> RequestRecords] /\ stored \in [Places -> SUBSET Value]
      /\ request[q] \in RequestRecords /\ request[q].keys <= step
      /\ {stale, late, harmed} \subseteq SUBSET Places /\ asSaved = Places /\ PlainAlone(r)
  BY RotationTypes DEF RotationInv, KeysAreDeployed
<1>. DEFINE n == request[q].keys
<1>2. n \in Steps /\ n <= step
  BY <1>1 DEF RequestRecords
<1>3. /\ Plain \in stored[r] /\ request' = [request EXCEPT ![q] = NoRequest]
      /\ stored' = [stored EXCEPT ![r] = (stored[r] \ {Plain}) \cup {Sealed(n)}]
      /\ pass' = Unclean(pass, {r})
      /\ stale' = IF Replaced(n) THEN stale \cup {r} ELSE stale
      /\ late' = IF Replaced(n) THEN late \cup {r} ELSE late
      /\ UNCHANGED <<step, safe, cleared, harmed, asSaved>>
  BY DEF SealsOnRead
<1>4. (stored[r] \ {Plain}) \cup {Sealed(n)} = {Sealed(n)} \cup {}
  BY <1>1, <1>3 DEF PlainAlone
<1>5. stored' = [stored EXCEPT ![r] = {Sealed(n)} \cup {}]
  BY <1>3, <1>4
<1>6. OnlyLost({}) /\ {} \in SUBSET Value /\ Plain \notin {}
  BY DEF OnlyLost
<1>7. /\ {stale', late', harmed'} \subseteq SUBSET Places
      /\ \A o \in Places \ {r} : (o \in stale => o \in stale') /\ (o \in late => o \in late')
      /\ Replaced(n) => r \in late' /\ r \in stale'
  BY <1>1, <1>3
<1>. HIDE DEF n
<1>8. Replaced(n) \/ ~OnlyLost({}) => r \in late' /\ r \in stale'
  BY <1>6, <1>7
<1>9. Writes({r}) /\ stored' \in [Places -> SUBSET Value]
  BY <1>2, <1>3, <1>5, <1>6, <1>7, <1>8, RowIsRight
<1>10. /\ request' \in [Requests -> RequestRecords]
       /\ \A o \in Requests : request'[o] = NoRequest \/ request'[o] = request[o]
  BY <1>1, <1>3, NoRequestIs
<1>. QED BY <1>1, <1>3, <1>7, <1>9, <1>10, RowMoves

LEMMA DeletesRowKeeps ==
    ASSUME RotationInv, NEW r \in Places, DeletesRow(r)
    PROVE  RotationInv'
<1>1. /\ request \in [Requests -> RequestRecords] /\ stored \in [Places -> SUBSET Value]
      /\ {stale, late, harmed} \subseteq SUBSET Places /\ asSaved = Places
  BY RotationTypes DEF RotationInv
<1>2. /\ stored' = [stored EXCEPT ![r] = {}] /\ pass' = Unclean(pass, {r})
      /\ stale' = stale \ {r} /\ late' = late \ {r} /\ harmed' = harmed \ {r}
      /\ UNCHANGED <<step, request, safe, cleared, asSaved>>
  BY DEF DeletesRow
<1>3. /\ stored' \in [Places -> SUBSET Value] /\ stored'[r] = {}
      /\ \A o \in Places \ {r} : stored'[o] = stored[o]
  BY <1>1, <1>2
<1>4. RowOpens(r)' /\ PlainAlone(r)' /\ Cleared(r)'
  BY <1>3 DEF RowOpens, PlainAlone, Cleared, Clear
<1>5. Writes({r})
  BY <1>2, <1>3, <1>4 DEF Writes
<1>. QED BY <1>1, <1>2, <1>3, <1>5, RowMoves

-----------------------------------------------------------------------------
(* The replaced key: the owner and the report.                              *)

\* Nothing changes but what the owner did, or was told.
LEMMA OwnerKeeps ==
    ASSUME RotationInv, UNCHANGED <<stored, pass, request, cleared, stale, harmed, asSaved>>,
           step' \in Steps, step <= step', safe' \in BOOLEAN, late' \in SUBSET Places,
           safe' => step' >= 3, step' = 4 => safe',
           \A r \in Places : RowOpens(r)'
    PROVE  RotationInv'
<1>1. /\ step \in Steps /\ pass \in [Clients -> PassRecords] /\ request \in [Requests -> RequestRecords]
      /\ stored \in [Places -> SUBSET Value] /\ cleared \in BOOLEAN
      /\ {stale, late, harmed} \subseteq SUBSET Places /\ asSaved = Places
  BY RotationTypes DEF RotationInv
<1>2. RotationTypeOK'
  BY <1>1 DEF RotationTypeOK, PassRecords, CallRecords, RequestRecords
<1>3. KeysAreDeployed'
  <2>1. /\ \A p \in Clients : pass[p].call.keys <= step /\ pass[p].call.keys \in Nat
        /\ \A q \in Requests : request[q].keys <= step /\ request[q].keys \in Nat
    BY <1>1 DEF RotationInv, KeysAreDeployed, PassRecords, CallRecords, RequestRecords, Steps
  <2>2. step \in Nat /\ step' \in Nat
    BY <1>1 DEF Steps
  <2>. QED BY <2>1, <2>2 DEF KeysAreDeployed
<1>4. \A r \in Places : PlainAlone(r)' /\ (Clear(r) => Clear(r)')
  BY DEF RotationInv, PlainAlone, Clear
<1>5. ASSUME NEW p \in Clients
      PROVE  PassOK(p)'
  <2>1. SameCall(p, {}) /\ PassOK(p) /\ pass[p] \in PassRecords
    BY <1>1 DEF SameCall, RotationInv
  <2>. QED BY <1>1, <1>4, <2>1, PassStays
<1>6. cleared' => step' >= 3 /\ \A r \in Places : Clear(r)'
  BY <1>1, <1>4 DEF RotationInv, Steps
<1>. QED BY <1>1, <1>2, <1>3, <1>4, <1>5, <1>6 DEF RotationInv

LEMMA OwnerStepsKeep ==
    ASSUME RotationInv, OwnerSteps
    PROVE  RotationInv'
<1>1. /\ step \in Steps /\ safe \in BOOLEAN /\ late \in SUBSET Places
      /\ safe => step >= 3
  BY RotationTypes DEF RotationInv, KeysAreDeployed
<1>2. UNCHANGED <<stored, pass, request, safe, cleared, historyVars>>
  BY DEF OwnerSteps
<1>3. /\ step' \in Steps /\ step <= step' /\ (step' = 4 => safe) /\ (step' <= 2 => step <= 2)
  BY <1>1 DEF OwnerSteps, SetsPrevious, SetsMaster, DeletesPrevious, Steps
<1>4. safe' => step' >= 3
  BY <1>1, <1>2, <1>3 DEF Steps
<1>5. ASSUME NEW r \in Places
      PROVE  RowOpens(r)'
  <2>1. RowOpens(r)
    BY DEF RotationInv
  <2>. QED BY <1>2, <1>3, <2>1 DEF RowOpens, historyVars
<1>. QED BY <1>1, <1>2, <1>3, <1>4, <1>5, OwnerKeeps DEF historyVars

LEMMA NonCurrentIsFinite ==
    ASSUME stored \in [Places -> SUBSET Value]
    PROVE  IsFiniteSet(NonCurrent)
<1>1. IsFiniteSet(Places) /\ IsFiniteSet(Value)
  <2>1. IsFiniteSet({"old", "new", "lost"}) /\ IsFiniteSet({"v1", "v2"})
    <3>1. \A x : IsFiniteSet({x})
      BY FS_Singleton
    <3>2. \A S, T : IsFiniteSet(S) /\ IsFiniteSet(T) => IsFiniteSet(S \cup T)
      BY FS_Union
    <3>3. IsFiniteSet({"old"} \cup {"new"}) /\ IsFiniteSet({"v1"} \cup {"v2"})
      BY <3>1, <3>2
    <3>4. IsFiniteSet(({"old"} \cup {"new"}) \cup {"lost"})
      BY <3>1, <3>2, <3>3
    <3>5. ({"old"} \cup {"new"}) \cup {"lost"} = {"old", "new", "lost"} /\ {"v1"} \cup {"v2"} = {"v1", "v2"}
      OBVIOUS
    <3>. QED BY <3>3, <3>4, <3>5
  <2>. DEFINE f == [x \in {"old", "new", "lost"} \X {"v1", "v2"} |-> [key |-> x[1], form |-> x[2]]]
              Keyed == [key : {"old", "new", "lost"}, form : {"v1", "v2"}]
  <2>2. IsFiniteSet({"old", "new", "lost"} \X {"v1", "v2"})
    BY <2>1, FS_Product
  <2>3. f \in Surjection({"old", "new", "lost"} \X {"v1", "v2"}, Keyed)
    <3>1. \A x \in {"old", "new", "lost"} \X {"v1", "v2"} : f[x] \in Keyed
      OBVIOUS
    <3>2. ASSUME NEW v \in Keyed
          PROVE  \E x \in {"old", "new", "lost"} \X {"v1", "v2"} : f[x] = v
      <4>1. <<v.key, v.form>> \in {"old", "new", "lost"} \X {"v1", "v2"}
        OBVIOUS
      <4>2. f[<<v.key, v.form>>] = v
        BY <4>1
      <4>. QED BY <4>1, <4>2
    <3>3. f \in [{"old", "new", "lost"} \X {"v1", "v2"} -> Keyed]
      BY <3>1
    <3>. HIDE DEF f, Keyed
    <3>. QED BY <3>2, <3>3 DEF Surjection
  <2>4. IsFiniteSet(Keyed)
    <3>. HIDE DEF f, Keyed
    <3>. QED BY <2>2, <2>3, FS_Surjection
  <2>5. Value = Keyed \cup {Plain}
    BY DEF Value, Plain
  <2>6. IsFiniteSet({Plain})
    BY FS_Singleton
  <2>7. IsFiniteSet(Value)
    <3>. HIDE DEF Keyed
    <3>. QED BY <2>4, <2>5, <2>6, FS_Union
  <2>. QED BY <2>7, RowsAreFinite
<1>2. IsFiniteSet(Places \X Value)
  BY <1>1, FS_Product
<1>3. NonCurrent \in SUBSET (Places \X Value)
  BY DEF NonCurrent
<1>. QED BY <1>2, <1>3, FS_Subset

LEMMA ReportsKeep ==
    ASSUME RotationInv, Reports
    PROVE  RotationInv'
<1>1. /\ step \in Steps /\ stored \in [Places -> SUBSET Value]
  BY RotationTypes DEF RotationInv
<1>2. step = 3 /\ UNCHANGED <<step, stored, pass, request, cleared, stale, harmed, asSaved>> /\ late' = {}
  BY DEF Reports
<1>3. PICK checked \in SUBSET NonCurrent : safe' = (DependsOnPrevious(checked) = 0)
  BY DEF Reports
<1>4. safe' \in BOOLEAN /\ (safe' => DependsOnPrevious(checked) = 0)
  BY <1>3
<1>5. ASSUME safe', NEW r \in Places, NEW v \in stored[r]
      PROVE  v.key # "old"
  <2>. SUFFICES ASSUME v.key = "old" PROVE FALSE
    OBVIOUS
  <2>. DEFINE old == {rv \in checked : rv[2].key = "old"}
              rest == NonCurrent \ checked
              rv == <<r, v>>
  <2>1. v \in Value /\ v.form \in {"v1", "v2"}
    <3>1. v \in Value
      BY <1>1
    <3>. QED BY <3>1, ValueKeys
  <2>2. rv \in NonCurrent
    BY <2>1 DEF NonCurrent
  <2>3. rv \in old \/ rv \in rest
    BY <2>2
  <2>4. IsFiniteSet(NonCurrent)
    BY <1>1, NonCurrentIsFinite
  <2>5. old \in SUBSET NonCurrent /\ rest \in SUBSET NonCurrent
    OBVIOUS
  <2>6. Cardinality(old) + Cardinality(rest) = 0
    BY <1>4, <1>5 DEF DependsOnPrevious, Opened
  <2>. HIDE DEF old, rest, rv
  <2>7. IsFiniteSet(old) /\ IsFiniteSet(rest)
    BY <2>4, <2>5, FS_Subset
  <2>8. Cardinality(old) \in Nat /\ Cardinality(rest) \in Nat
    BY <2>7, FS_CardinalityType
  <2>9. Cardinality(old) = 0 /\ Cardinality(rest) = 0
    BY <2>6, <2>8
  <2>10. old = {} /\ rest = {}
    BY <2>7, <2>9, FS_EmptySet
  <2>. QED BY <2>3, <2>10
<1>6. \A r \in Places : RowOpens(r)'
  BY <1>2, <1>5 DEF RowOpens
<1>7. step' \in Steps /\ step <= step' /\ late' \in SUBSET Places /\ step' # 4 /\ step' >= 3
  BY <1>1, <1>2
<1>. QED BY <1>2, <1>4, <1>6, <1>7, OwnerKeeps

LEMMA RotationBegins ==
    ASSUME RotationInit
    PROVE  RotationInv
<1>1. /\ step = 1 /\ stored \in [Places -> SomeRows]
      /\ pass = [p \in Clients |-> [cursor |-> Start, onNew |-> FALSE, call |-> NoCall]]
      /\ request = [q \in Requests |-> NoRequest]
      /\ safe = FALSE /\ cleared = FALSE
      /\ stale = {} /\ late = {} /\ harmed = {} /\ asSaved = Places
  BY DEF RotationInit
<1>2. step \in Steps
  BY <1>1 DEF Steps
<1>3. \A rs \in SomeRows : /\ rs \subseteq Value
                           /\ \A v \in rs : v.key # "new"
                           /\ Plain \in rs => rs = {Plain}
  <2>1. Sealed(1) = [key |-> "old", form |-> "v2"]
    BY DEF Sealed, CurrentKey
  <2>. QED BY <2>1 DEF SomeRows, Value, Plain
<1>4. stored \in [Places -> SUBSET Value] /\ \A r \in Places : stored[r] \in SomeRows
  BY <1>1, <1>3
<1>5. [cursor |-> Start, onNew |-> FALSE, call |-> NoCall] \in PassRecords
  BY StartIsCursor, NoCallIsCall DEF PassRecords
<1>6. pass \in [Clients -> PassRecords] /\ request \in [Requests -> RequestRecords]
  BY <1>1, <1>5, NoRequestIs
<1>7. RotationTypeOK
  BY <1>1, <1>2, <1>4, <1>6, RotationTypes
<1>8. \A p \in Clients : pass[p].cursor = Start /\ pass[p].onNew = FALSE /\ pass[p].call = NoCall
  BY <1>1
<1>9. \A p \in Clients : PassOK(p)
  BY <1>8, StartIsCursor, NoCallIsCall DEF PassOK, CallReads
<1>10. KeysAreDeployed
  BY <1>1, <1>8, NoCallIsCall, NoRequestIs DEF KeysAreDeployed
<1>11. \A r \in Places : RowOpens(r) /\ PlainAlone(r)
  BY <1>1, <1>3, <1>4 DEF RowOpens, PlainAlone
<1>12. \A q \in Requests : Plain \notin request[q].carried
  BY <1>1, NoRequestIs
<1>. QED BY <1>1, <1>7, <1>9, <1>10, <1>11, <1>12 DEF RotationInv

(* What each row, call and request of a rotation may rely on, for any rows,  *)
(* classes, clients and requests.                                           *)
THEOREM RotationInvariant == RotationSpec => []RotationInv
<1>1. RotationInit => RotationInv
  BY RotationBegins
<1>2. RotationInv /\ [RotationNext]_rotationVars => RotationInv'
  <2>. SUFFICES ASSUME RotationInv, [RotationNext]_rotationVars PROVE RotationInv'
    OBVIOUS
  <2>1. CASE UNCHANGED rotationVars
    <3>1. UNCHANGED <<step, safe, stored, pass, request, cleared, stale, late, harmed, asSaved>>
      BY <2>1 DEF rotationVars
    <3>2. RotationTypeOK'
      BY <3>1 DEF RotationInv, RotationTypeOK
    <3>3. \A r \in Places : RowOpens(r)'
      BY <3>1 DEF RotationInv, RowOpens
    <3>4. step' \in Steps /\ step <= step' /\ safe' \in BOOLEAN /\ late' \in SUBSET Places
      BY <3>1 DEF RotationInv, RotationTypeOK, Steps
    <3>5. (safe' => step' >= 3) /\ (step' = 4 => safe')
      BY <3>1 DEF RotationInv, KeysAreDeployed
    <3>. QED BY <3>1, <3>3, <3>4, <3>5, OwnerKeeps
  <2>2. ASSUME NEW p \in Clients,
               Restarts(p) \/ BeginCall(p) \/ SelectRows(p) \/ WriteRows(p) \/ Answered(p) \/ CallEnds(p)
        PROVE  RotationInv'
    BY <2>2, RestartsKeeps, BeginCallKeeps, SelectRowsKeeps, WriteRowsKeeps, AnsweredKeeps, CallEndsKeeps
  <2>3. ASSUME NEW q \in Requests,
               \/ Arrives(q) \/ SavesRow(q) \/ Leaves(q)
               \/ \E r \in Places : ReadsRow(q, r) \/ InsertsRow(q, r) \/ SealsOnRead(q, r)
        PROVE  RotationInv'
    BY <2>3, RequestStepsKeep, SavesRowKeeps, InsertsRowKeeps, SealsOnReadKeeps
  <2>4. ASSUME NEW r \in Places, DeletesRow(r)
        PROVE  RotationInv'
    BY <2>4, DeletesRowKeeps
  <2>5. CASE OwnerSteps
    BY <2>5, OwnerStepsKeep
  <2>6. CASE Reports
    BY <2>6, ReportsKeep
  <2>. QED BY <2>1, <2>2, <2>3, <2>4, <2>5, <2>6 DEF RotationNext
<1>. QED BY <1>1, <1>2, PTL DEF RotationSpec

(* Rotating the key loses nothing, and after a whole pass nothing needs the  *)
(* old key (RotationIsSafe), however many rows there are, wherever pages and *)
(* classes end, and whatever the clients, the app's requests and the owner    *)
(* do to each other (lib/rekey.ts, docs/SECURITY.md).                        *)
THEOREM RotationKeepsAll == RotationSpec => []RotationIsSafe
<1>1. RotationInv => RotationIsSafe
  <2>. SUFFICES ASSUME RotationInv PROVE RotationIsSafe
    OBVIOUS
  <2>1. step \in Steps /\ stored \in [Places -> SUBSET Value] /\ asSaved = Places /\ (step = 4 => safe)
    BY RotationTypes DEF RotationInv, KeysAreDeployed
  <2>2. ASSUME NEW r \in Places \ (late \cup harmed), NEW v \in stored[r], v.key # "lost"
        PROVE  OpensWith(v, step)
    <3>1. v \in Value /\ RowOpens(r) /\ r \notin late
      BY <2>1 DEF RotationInv
    <3>2. v = Plain \/ v.key \in {"old", "new"}
      BY <2>2, <3>1, ValueKeys
    <3>3. (step <= 2 => v.key # "new") /\ (step = 4 => v.key # "old")
      BY <2>1, <3>1 DEF RowOpens
    <3>4. step \in {1, 2, 3, 4}
      BY <2>1 DEF Steps
    <3>. QED BY <3>2, <3>3, <3>4 DEF OpensWith, Keyring, CurrentKey
  <2>3. ValuesSurvive
    BY <2>1, <2>2 DEF ValuesSurvive
  <2>4. PassClears
    BY DEF RotationInv, PassClears, Clear
  <2>. QED BY <2>3, <2>4 DEF RotationIsSafe
<1>. QED BY <1>1, RotationInvariant, PTL

-----------------------------------------------------------------------------
(* The history: the invariant.                                              *)

Landed(d) == {h \in landed : DayOf(h) = d}
DaysIn(m) == {d \in AllDays : MonthOf(d) = m}
DaySums(m) == UNION {fullDays[d] : d \in DaysIn(m)}

\* Where the present pass, or the next one, cuts the tiers.
NextCut == now.hour + (IF now.past THEN 1 ELSE 0)
Cut == IF upkeep.pc = "rest" THEN NextCut ELSE upkeep.cut
StaysOpenDay(d) == DayStart(d) >= Cut - HourlyDays * HoursInDay
StaysOpenMonth(m) == MonthStart(m) >= Cut - DailyDays * HoursInDay

\* The days before `day`, and the months before `month`, are as they should be,
\* but for those a late check reached and those that are sealed.
DaysRight(day) ==
    \A d \in AllDays \ slipped.days : d < day /\ StaysOpenDay(d) => days[d] = Landed(d)
MonthsRight(month) ==
    \A m \in AllMonths \ slipped.months : m < month /\ StaysOpenMonth(m) => months[m] = DaySums(m)

PassTimes ==
    /\ since <= now.hour
    /\ upkeep.pc # "rest" => /\ since <= upkeep.at /\ upkeep.at <= now.hour /\ upkeep.since = since
                             /\ upkeep.at <= upkeep.cut /\ upkeep.cut <= NextCut
    /\ upkeep.pc = "days" => upkeep.whole

RowsCover ==
    /\ \A h \in landed \ hours : h < Cut - HourlyDays * HoursInDay
    /\ \A d \in AllDays : days[d] \subseteq Landed(d)
    /\ \A m \in AllMonths : StaysOpenMonth(m) => months[m] \subseteq UNION {days[d] : d \in DaysIn(m)}
    /\ \A d \in slipped.days : MonthOf(d) \in slipped.months

\* What the next pass leaves alone is right, once the last one landed whole, and
\* so is what the present one has done.
PassesRight ==
    /\ since # Never => DaysRight(DayOf(since)) /\ MonthsRight(MonthOf(DayOf(since)))
    /\ upkeep.pc \in {"months", "prune"} /\ upkeep.whole => DaysRight(DayOf(upkeep.at))
    /\ upkeep.pc = "prune" /\ upkeep.whole => MonthsRight(MonthOf(DayOf(upkeep.at)))

RollupInv == RollupTypeOK /\ PassTimes /\ RowsCover /\ PassesRight /\ BucketsAddUp

-----------------------------------------------------------------------------
(* The history: hours, days and months.                                     *)

LEMMA Division ==
    ASSUME NEW n \in Nat \ {0}
    PROVE  /\ \A h \in Int : h \div n \in Int
           /\ \A d \in Int : d * n \in Int
           /\ \A h, d \in Int : d <= h \div n <=> d * n <= h
           /\ \A d, e \in Int : d <= e <=> d * n <= e * n
           /\ \A g, h \in Int : g <= h => g \div n <= h \div n
<1>1. \A h \in Int : h \div n \in Int /\ (h \div n) * n <= h /\ h < (h \div n) * n + n
  OBVIOUS
<1>2. \A d, e \in Int : d <= e => d * n <= e * n
  OBVIOUS
<1>3. \A d, e \in Int : d < e => d * n + n <= e * n
  OBVIOUS
<1>4. \A d \in Int : d * n \in Int
  OBVIOUS
<1>5. ASSUME NEW h \in Int, NEW d \in Int
      PROVE  d <= h \div n <=> d * n <= h
  <2>1. h \div n \in Int /\ (h \div n) * n <= h /\ h < (h \div n) * n + n
    BY <1>1
  <2>2. d <= h \div n => d * n <= (h \div n) * n
    BY <1>2, <2>1
  <2>3. h \div n < d => (h \div n) * n + n <= d * n
    BY <1>3, <2>1
  <2>4. d * n \in Int /\ (h \div n) * n \in Int
    BY <1>4, <2>1
  <2>. QED BY <2>1, <2>2, <2>3, <2>4
<1>6. \A d, e \in Int : d <= e <=> d * n <= e * n
  <2>. SUFFICES ASSUME NEW d \in Int, NEW e \in Int, e < d PROVE ~(d * n <= e * n)
    BY <1>2
  <2>1. e * n + n <= d * n
    BY <1>3
  <2>. QED BY <1>4, <2>1
<1>7. \A g, h \in Int : g <= h => g \div n <= h \div n
  <2>. SUFFICES ASSUME NEW g \in Int, NEW h \in Int, g <= h PROVE g \div n <= h \div n
    OBVIOUS
  <2>1. g \div n \in Int /\ (g \div n) * n <= g /\ (g \div n) * n \in Int
    BY <1>1, <1>4
  <2>2. (g \div n) * n <= h
    BY <2>1
  <2>. QED BY <1>5, <2>1, <2>2
<1>. QED BY <1>1, <1>4, <1>5, <1>6, <1>7

LEMMA DayFacts ==
    /\ \A h \in Int : DayOf(h) \in Int
    /\ \A d \in Int : DayStart(d) \in Int
    /\ \A h, d \in Int : d <= DayOf(h) <=> DayStart(d) <= h
    /\ \A d, e \in Int : d <= e <=> DayStart(d) <= DayStart(e)
    /\ \A g, h \in Int : g <= h => DayOf(g) <= DayOf(h)
<1>1. HoursInDay \in Nat \ {0}
  BY RollupAssumption
<1>. QED BY <1>1, Division DEF DayOf, DayStart

LEMMA MonthFacts ==
    /\ \A d \in Int : MonthOf(d) \in Int
    /\ \A m \in Int : MonthStart(m) \in Int
    /\ \A d, m \in Int : m <= MonthOf(d) <=> MonthStart(m) <= DayStart(d)
    /\ \A d, e \in Int : d <= e => MonthOf(d) <= MonthOf(e)
<1>. DEFINE n == DaysInMonth
<1>1. n \in Nat \ {0}
  BY RollupAssumption
<1>2. \A m \in Int : MonthStart(m) = DayStart(m * n)
  BY DEF MonthStart, DayStart
<1>. HIDE DEF n
<1>3. /\ \A d \in Int : d \div n \in Int /\ d * n \in Int
      /\ \A d, m \in Int : m <= d \div n <=> m * n <= d
      /\ \A d, e \in Int : d <= e => d \div n <= e \div n
  BY <1>1, Division
<1>4. \A d, m \in Int : m * n <= d <=> MonthStart(m) <= DayStart(d)
  BY <1>2, <1>3, DayFacts
<1>5. \A m \in Int : MonthStart(m) \in Int
  BY <1>2, <1>3, DayFacts
<1>. QED BY <1>3, <1>4, <1>5 DEF MonthOf, n

LEMMA SpanFacts ==
    /\ LastHour \in Nat /\ HoursInDay \in Nat \ {0} /\ HourlyDays \in Nat \ {0} /\ DailyDays \in Nat \ {0}
    /\ Hours \subseteq Int /\ AllDays \subseteq Int /\ AllMonths \subseteq Int /\ CheckHours \subseteq Hours
    /\ \A h \in Hours : DayOf(h) \in AllDays
    /\ \A d \in AllDays : MonthOf(d) \in AllMonths
    /\ HourlyDays * HoursInDay \in Int /\ DailyDays * HoursInDay \in Int
    /\ HourlyDays <= DailyDays => HourlyDays * HoursInDay <= DailyDays * HoursInDay
<1>1. /\ LastHour \in Nat /\ HoursInDay \in Nat \ {0} /\ HourlyDays \in Nat \ {0} /\ DailyDays \in Nat \ {0}
      /\ CheckHours \subseteq Hours /\ Hours \subseteq Int
  BY RollupAssumption DEF Hours
<1>2. AllDays \subseteq Int
  BY <1>1, DayFacts DEF AllDays
<1>3. AllMonths \subseteq Int
  BY <1>2, MonthFacts DEF AllMonths
<1>4. HourlyDays * HoursInDay \in Int /\ DailyDays * HoursInDay \in Int
  BY <1>1
<1>5. HourlyDays <= DailyDays => HourlyDays * HoursInDay <= DailyDays * HoursInDay
  BY <1>1
<1>. QED BY <1>1, <1>2, <1>3, <1>4, <1>5 DEF AllDays, AllMonths

\* A day's hours begin with it.
LEMMA HourInDay ==
    ASSUME NEW h \in Int
    PROVE  DayStart(DayOf(h)) <= h
  BY DayFacts

LEMMA DayInMonth ==
    ASSUME NEW d \in Int
    PROVE  MonthStart(MonthOf(d)) <= DayStart(d)
  BY MonthFacts

LEMMA MonthsInOrder ==
    ASSUME NEW k \in Int, NEW m \in Int, k <= m
    PROVE  MonthStart(k) <= MonthStart(m)
<1>1. DaysInMonth \in Nat \ {0} /\ HoursInDay \in Nat \ {0}
  BY RollupAssumption
<1>2. k * DaysInMonth <= m * DaysInMonth /\ k * DaysInMonth \in Int /\ m * DaysInMonth \in Int
  BY <1>1, Division
<1>3. DayStart(k * DaysInMonth) <= DayStart(m * DaysInMonth)
  BY <1>2, DayFacts
<1>. QED BY <1>3 DEF MonthStart, DayStart

LEMMA RollupTypes ==
    ASSUME RollupInv
    PROVE  /\ now.hour \in Hours /\ now.past \in BOOLEAN /\ now = [hour |-> now.hour, past |-> now.past]
           /\ hours \subseteq landed /\ landed \subseteq Hours
           /\ days \in [AllDays -> SUBSET Hours] /\ fullDays \in [AllDays -> SUBSET Hours]
           /\ months \in [AllMonths -> SUBSET Hours] /\ fullMonths \in [AllMonths -> SUBSET Hours]
           /\ since \in Hours \cup {Never} /\ since \in Int
           /\ upkeep.at \in Hours /\ upkeep.at \in Int /\ upkeep.cut \in Int /\ upkeep.cut \in 0 .. LastHour + 1
           /\ upkeep.since \in Hours \cup {Never} /\ upkeep.whole \in BOOLEAN
           /\ upkeep.pc \in {"rest", "days", "months", "prune"}
           /\ slipped.days \subseteq AllDays /\ slipped.months \subseteq AllMonths
           /\ NextCut \in Int /\ Cut \in Int /\ now.hour \in Int
<1>1. RollupTypeOK
  BY DEF RollupInv
<1>2. /\ now \in [hour : Hours, past : BOOLEAN]
      /\ upkeep \in [pc : {"rest", "days", "months", "prune"}, at : Hours,
                     cut : 0 .. LastHour + 1, since : Hours \cup {Never}, whole : BOOLEAN]
      /\ slipped \in [days : SUBSET AllDays, months : SUBSET AllMonths]
  BY <1>1 DEF RollupTypeOK
<1>3. /\ now.hour \in Hours /\ now.past \in BOOLEAN /\ now = [hour |-> now.hour, past |-> now.past]
  BY <1>2
<1>4. /\ upkeep.at \in Hours /\ upkeep.cut \in 0 .. LastHour + 1
      /\ upkeep.since \in Hours \cup {Never} /\ upkeep.whole \in BOOLEAN
      /\ upkeep.pc \in {"rest", "days", "months", "prune"}
  BY <1>2
<1>5. /\ slipped.days \subseteq AllDays /\ slipped.months \subseteq AllMonths
  BY <1>2
<1>6. /\ now.hour \in Int /\ upkeep.at \in Int /\ upkeep.cut \in Int
  BY <1>3, <1>4, SpanFacts
<1>7. NextCut \in Int /\ Cut \in Int
  BY <1>3, <1>6 DEF NextCut, Cut
<1>8. since \in Hours \cup {Never} /\ since \in Int
  BY <1>1, SpanFacts DEF RollupTypeOK, Never
<1>. QED BY <1>1, <1>3, <1>4, <1>5, <1>6, <1>7, <1>8 DEF RollupTypeOK

-----------------------------------------------------------------------------
(* The history: what a pass reads and writes.                               *)

\* The pass's floors are the cuts of the state, and its windows begin with a day
\* and a month that the last whole pass began in, or an earlier one.
LEMMA Windows ==
    ASSUME RollupInv, upkeep.pc # "rest", NEW u, u = upkeep
    PROVE  /\ HourlyFloor(u) \in Int /\ DailyFloor(u) \in Int
           /\ \A d : OpenDay(u, d) <=> StaysOpenDay(d)
           /\ \A m : OpenMonth(u, m) <=> StaysOpenMonth(m)
           /\ DayBefore(u) \in Int /\ MonthOf(DayBefore(u)) \in Int
           /\ DaysWindow(u) \in Int /\ MonthsWindow(u) \in Int
           /\ \/ DaysWindow(u) = HourlyFloor(u) /\ MonthsWindow(u) = DailyFloor(u)
              \/ /\ since # Never
                 /\ \E f \in Int :
                      /\ f <= DayBefore(u) /\ f <= DayOf(since)
                      /\ MonthOf(f) \in Int
                      /\ MonthOf(f) <= MonthOf(DayBefore(u)) /\ MonthOf(f) <= MonthOf(DayOf(since))
                      /\ DaysWindow(u) \in {HourlyFloor(u), DayStart(f)}
                      /\ DaysWindow(u) >= HourlyFloor(u)
                      /\ MonthsWindow(u) \in {DailyFloor(u), MonthStart(MonthOf(f))}
                      /\ MonthsWindow(u) >= DailyFloor(u)
<1>1. /\ u.at \in Int /\ u.cut \in Int /\ since \in Int /\ u.since = since
      /\ HoursInDay \in Nat \ {0} /\ HourlyDays * HoursInDay \in Int /\ DailyDays * HoursInDay \in Int
  BY RollupTypes, SpanFacts DEF RollupInv, PassTimes
<1>2. Cut = u.cut
  BY DEF Cut
<1>3. HourlyFloor(u) \in Int /\ DailyFloor(u) \in Int
  BY <1>1 DEF HourlyFloor, DailyFloor
<1>4. /\ \A d : OpenDay(u, d) <=> StaysOpenDay(d)
      /\ \A m : OpenMonth(u, m) <=> StaysOpenMonth(m)
  BY <1>2 DEF OpenDay, OpenMonth, StaysOpenDay, StaysOpenMonth, HourlyFloor, DailyFloor
<1>. DEFINE b == u.at - HoursInDay
<1>5. b \in Int /\ DayBefore(u) = DayOf(b)
  BY <1>1 DEF DayBefore
<1>6. From(u) \in Int /\ From(u) <= since /\ From(u) <= b
  BY <1>1, <1>5 DEF From
<1>. HIDE DEF b
<1>. DEFINE f == DayOf(From(u))
<1>7. /\ f \in Int /\ DayOf(b) \in Int /\ DayOf(since) \in Int
      /\ f <= DayOf(b) /\ f <= DayOf(since)
  BY <1>1, <1>5, <1>6, DayFacts
<1>. HIDE DEF f
<1>8. /\ MonthOf(f) \in Int /\ MonthOf(DayOf(b)) \in Int
      /\ MonthOf(f) <= MonthOf(DayOf(b)) /\ MonthOf(f) <= MonthOf(DayOf(since))
  BY <1>7, MonthFacts
<1>9. DayStart(f) \in Int /\ MonthStart(MonthOf(f)) \in Int
  BY <1>7, <1>8, DayFacts, MonthFacts
<1>10. CASE since = Never
  <2>1. DaysWindow(u) = HourlyFloor(u) /\ MonthsWindow(u) = DailyFloor(u)
    BY <1>1, <1>10 DEF DaysWindow, MonthsWindow
  <2>. QED BY <1>3, <1>4, <1>5, <1>7, <1>8, <2>1
<1>11. CASE since # Never
  <2>1. /\ DaysWindow(u) = Latest(HourlyFloor(u), DayStart(f))
        /\ MonthsWindow(u) = Latest(DailyFloor(u), MonthStart(MonthOf(f)))
    BY <1>1, <1>11 DEF DaysWindow, MonthsWindow, f
  <2>2. /\ DaysWindow(u) \in {HourlyFloor(u), DayStart(f)} /\ DaysWindow(u) >= HourlyFloor(u)
        /\ MonthsWindow(u) \in {DailyFloor(u), MonthStart(MonthOf(f))} /\ MonthsWindow(u) >= DailyFloor(u)
    BY <1>3, <1>9, <2>1 DEF Latest
  <2>. QED BY <1>3, <1>4, <1>5, <1>7, <1>8, <1>9, <1>11, <2>2
<1>. QED BY <1>10, <1>11

\* An open day's row becomes its hours, or stays: then it is of before the last
\* whole pass.  The pass always reads the last day.
LEMMA DaysRolled ==
    ASSUME RollupInv, upkeep.pc = "days", NEW d \in AllDays, NEW x, x = HourToDay(upkeep)[d]
    PROVE  /\ ~OpenDay(upkeep, d) => x = days[d]
           /\ OpenDay(upkeep, d) =>
                \/ x = Landed(d)
                \/ x = days[d] /\ since # Never /\ d < DayOf(since) /\ d < DayBefore(upkeep)
<1>. DEFINE u == upkeep
            w == DaysWindow(u)
            hs == HoursOf(d, w)
<1>1. HourToDay(u)[d] = IF OpenDay(u, d) /\ hs # {} THEN hs ELSE days[d]
  BY DEF HourToDay
<1>2. /\ landed \subseteq Int /\ hours \subseteq landed /\ d \in Int /\ DayStart(d) \in Int
      /\ \A h \in landed \ hours : h < HourlyFloor(u)
      /\ days[d] \subseteq Landed(d)
  BY RollupTypes, SpanFacts, DayFacts DEF RollupInv, RowsCover, Cut, HourlyFloor
<1>3. hs = {h \in hours : DayOf(h) = d /\ h >= w}
  BY DEF HoursOf
<1>. HIDE DEF hs
<1>4. w \in Int /\ HourlyFloor(u) \in Int /\ DayBefore(u) \in Int
  BY Windows
<1>5. \A h \in landed : h \in Int /\ (DayOf(h) = d => DayStart(d) <= h)
  BY <1>2, HourInDay
<1>6. ASSUME OpenDay(u, d), w <= DayStart(d)
      PROVE  HourToDay(u)[d] = Landed(d)
  <2>1. DayStart(d) >= HourlyFloor(u)
    BY <1>6 DEF OpenDay
  <2>2. ASSUME NEW h \in landed, DayOf(h) = d
        PROVE  h \in hours /\ h >= w
    <3>1. h \in Int /\ DayStart(d) <= h
      BY <1>5, <2>2
    <3>2. ~(h < HourlyFloor(u)) /\ h >= w
      BY <1>2, <1>4, <1>6, <2>1, <3>1
    <3>. QED BY <1>2, <3>2
  <2>3. hs = Landed(d)
    BY <1>2, <1>3, <2>2 DEF Landed
  <2>. QED BY <1>1, <1>2, <1>6, <2>3
<1>7. ASSUME OpenDay(u, d), ~(w <= DayStart(d))
      PROVE  /\ HourToDay(u)[d] = days[d] /\ since # Never
             /\ d < DayOf(since) /\ d < DayBefore(u)
  <2>1. DayStart(d) >= HourlyFloor(u)
    BY <1>7 DEF OpenDay
  <2>2. w # HourlyFloor(u)
    BY <1>4, <1>7, <2>1
  <2>3. since # Never /\ \E f \in Int :
          f <= DayBefore(u) /\ f <= DayOf(since) /\ w \in {HourlyFloor(u), DayStart(f)}
    BY <2>2, Windows
  <2>4. PICK f \in Int : f <= DayBefore(u) /\ f <= DayOf(since) /\ w = DayStart(f)
    BY <2>2, <2>3
  <2>5. d < f
    BY <1>2, <1>4, <1>7, <2>4, DayFacts
  <2>6. hs = {}
    <3>. SUFFICES ASSUME NEW h \in hs PROVE FALSE
      OBVIOUS
    <3>1. h \in Int /\ DayOf(h) = d /\ h >= DayStart(f)
      BY <1>2, <1>3, <2>4
    <3>2. f <= DayOf(h)
      BY <1>4, <2>4, <3>1, DayFacts
    <3>. QED BY <1>2, <2>5, <3>1, <3>2
  <2>7. DayOf(since) \in Int
    BY RollupTypes, DayFacts
  <2>8. d < DayOf(since) /\ d < DayBefore(u)
    BY <1>2, <1>4, <2>4, <2>5, <2>7
  <2>. QED BY <1>1, <2>3, <2>6, <2>8
<1>. QED BY <1>1, <1>2, <1>4, <1>6, <1>7

\* An open month's row becomes its days, or stays.
LEMMA MonthsRolled ==
    ASSUME RollupInv, upkeep.pc = "months", NEW m \in AllMonths, NEW x, x = DayToMonth(upkeep)[m]
    PROVE  /\ ~OpenMonth(upkeep, m) => x = months[m]
           /\ OpenMonth(upkeep, m) =>
                \/ x = UNION {days[d] : d \in DaysIn(m)}
                \/ /\ x = months[m] /\ since # Never
                   /\ m < MonthOf(DayOf(since)) /\ m < MonthOf(DayBefore(upkeep))
<1>. DEFINE u == upkeep
            w == MonthsWindow(u)
            ds == DaysOf(m, w)
            sum == UNION {days[d] : d \in DaysIn(m)}
<1>1. DayToMonth(u)[m] = IF OpenMonth(u, m) /\ ds # {} THEN UNION {days[d] : d \in ds} ELSE months[m]
  BY DEF DayToMonth
<1>2. /\ m \in Int /\ MonthStart(m) \in Int
      /\ OpenMonth(u, m) => months[m] \subseteq sum
  <2>1. OpenMonth(u, m) <=> StaysOpenMonth(m)
    BY Windows
  <2>. QED BY <2>1, SpanFacts, MonthFacts DEF RollupInv, RowsCover
<1>3. ds = {d \in AllDays : MonthOf(d) = m /\ DayStart(d) >= w /\ days[d] # {}}
  BY DEF DaysOf
<1>. HIDE DEF ds
<1>4. w \in Int /\ DailyFloor(u) \in Int /\ DayBefore(u) \in Int /\ MonthOf(DayBefore(u)) \in Int
  BY Windows
<1>5. \A d \in AllDays : d \in Int /\ DayStart(d) \in Int /\ (MonthOf(d) = m => MonthStart(m) <= DayStart(d))
  BY SpanFacts, DayInMonth, DayFacts
<1>6. ASSUME OpenMonth(u, m), w <= MonthStart(m)
      PROVE  DayToMonth(u)[m] = sum
  <2>1. \A d \in AllDays : MonthOf(d) = m => DayStart(d) >= w
    BY <1>2, <1>4, <1>5, <1>6
  <2>2. ds = {d \in DaysIn(m) : days[d] # {}}
    BY <1>3, <2>1 DEF DaysIn
  <2>3. UNION {days[d] : d \in ds} = sum
    BY <2>2
  <2>4. ds = {} => sum = {}
    BY <2>2
  <2>. QED BY <1>1, <1>2, <1>6, <2>3, <2>4
<1>7. ASSUME OpenMonth(u, m), ~(w <= MonthStart(m))
      PROVE  /\ DayToMonth(u)[m] = months[m] /\ since # Never
             /\ m < MonthOf(DayOf(since)) /\ m < MonthOf(DayBefore(u))
  <2>1. MonthStart(m) >= DailyFloor(u)
    BY <1>7 DEF OpenMonth
  <2>2. w # DailyFloor(u)
    BY <1>2, <1>4, <1>7, <2>1
  <2>3. since # Never /\ \E f \in Int :
          /\ MonthOf(f) \in Int /\ MonthOf(f) <= MonthOf(DayBefore(u))
          /\ MonthOf(f) <= MonthOf(DayOf(since)) /\ w \in {DailyFloor(u), MonthStart(MonthOf(f))}
    BY <2>2, Windows
  <2>4. PICK f \in Int : /\ MonthOf(f) \in Int /\ MonthOf(f) <= MonthOf(DayBefore(u))
                         /\ MonthOf(f) <= MonthOf(DayOf(since)) /\ w = MonthStart(MonthOf(f))
    BY <2>2, <2>3
  <2>. DEFINE k == MonthOf(f)
  <2>5. m < k
    <3>1. k <= m => MonthStart(k) <= MonthStart(m)
      <4>1. ASSUME k <= m PROVE MonthStart(k) <= MonthStart(m)
        BY <1>2, <2>4, <4>1, MonthsInOrder
      <4>. QED BY <4>1
    <3>. QED BY <1>2, <1>4, <1>7, <2>4, <3>1
  <2>6. ds = {}
    <3>. SUFFICES ASSUME NEW d \in ds PROVE FALSE
      OBVIOUS
    <3>1. d \in Int /\ MonthOf(d) = m /\ DayStart(d) >= MonthStart(k)
      BY <1>3, <1>5, <2>4
    <3>2. k <= MonthOf(d)
      BY <1>4, <1>5, <2>4, <3>1, MonthFacts
    <3>. QED BY <1>2, <2>4, <2>5, <3>1, <3>2
  <2>7. MonthOf(DayOf(since)) \in Int
    BY RollupTypes, DayFacts, MonthFacts
  <2>8. m < MonthOf(DayOf(since)) /\ m < MonthOf(DayBefore(u))
    BY <1>2, <1>4, <2>4, <2>5, <2>7
  <2>. QED BY <1>1, <2>3, <2>6, <2>8
<1>. QED BY <1>1, <1>2, <1>4, <1>6, <1>7

-----------------------------------------------------------------------------
(* The history: the steps.                                                  *)

LEMMA OpenEarlier ==
    ASSUME Cut \in Int, Cut' \in Int, Cut <= Cut'
    PROVE  /\ \A d \in AllDays : StaysOpenDay(d)' => StaysOpenDay(d)
           /\ \A m \in AllMonths : StaysOpenMonth(m)' => StaysOpenMonth(m)
<1>1. /\ \A d \in AllDays : DayStart(d) \in Int
      /\ \A m \in AllMonths : MonthStart(m) \in Int
      /\ HourlyDays * HoursInDay \in Int /\ DailyDays * HoursInDay \in Int
  BY SpanFacts, DayFacts, MonthFacts
<1>. QED BY <1>1 DEF StaysOpenDay, StaysOpenMonth

\* Only the time, or where the pass is, changes.
LEMMA QuietKeeps ==
    ASSUME RollupInv, UNCHANGED <<hours, days, months, since, landed, fullDays, fullMonths, slipped>>,
           RollupTypeOK', PassTimes', Cut \in Int, Cut' \in Int, Cut <= Cut',
           upkeep'.pc \in {"months", "prune"} /\ upkeep'.whole =>
               upkeep.pc = upkeep'.pc /\ upkeep.whole /\ upkeep'.at = upkeep.at
    PROVE  RollupInv'
<1>1. /\ \A d \in AllDays : StaysOpenDay(d)' => StaysOpenDay(d)
      /\ \A m \in AllMonths : StaysOpenMonth(m)' => StaysOpenMonth(m)
  BY OpenEarlier
<1>2. \A d : Landed(d)' = Landed(d)
  BY DEF Landed
<1>3. \A m : DaySums(m)' = DaySums(m)
  BY DEF DaySums
<1>4. RowsCover'
  <2>1. \A h \in landed : h \in Int
    BY RollupTypes, SpanFacts
  <2>2. \A h \in landed \ hours : h < Cut' - HourlyDays * HoursInDay
    BY <2>1, SpanFacts DEF RollupInv, RowsCover
  <2>3. /\ \A d \in AllDays : days[d] \subseteq Landed(d)
        /\ \A m \in AllMonths : StaysOpenMonth(m) => months[m] \subseteq UNION {days[d] : d \in DaysIn(m)}
        /\ \A d \in slipped.days : MonthOf(d) \in slipped.months
    BY DEF RollupInv, RowsCover
  <2>. QED BY <1>1, <1>2, <2>2, <2>3 DEF RowsCover
<1>5. PassesRight'
  <2>3. PassesRight
    BY DEF RollupInv
  <2>4. since' # Never => DaysRight(DayOf(since))' /\ MonthsRight(MonthOf(DayOf(since)))'
    <3>1. ASSUME since # Never PROVE DaysRight(DayOf(since))'
      BY <1>1, <1>2, <2>3, <3>1 DEF PassesRight, DaysRight
    <3>2. ASSUME since # Never PROVE MonthsRight(MonthOf(DayOf(since)))'
      BY <1>1, <1>3, <2>3, <3>2 DEF PassesRight, MonthsRight
    <3>. QED BY <3>1, <3>2
  <2>5. ASSUME upkeep'.pc \in {"months", "prune"}, upkeep'.whole
        PROVE  DaysRight(DayOf(upkeep.at))'
    BY <1>1, <1>2, <2>3, <2>5 DEF PassesRight, DaysRight
  <2>6. ASSUME upkeep'.pc = "prune", upkeep'.whole
        PROVE  MonthsRight(MonthOf(DayOf(upkeep.at)))'
    BY <1>1, <1>3, <2>3, <2>6 DEF PassesRight, MonthsRight
  <2>. QED BY <2>4, <2>5, <2>6 DEF PassesRight
<1>6. BucketsAddUp'
  BY DEF RollupInv, BucketsAddUp
<1>. QED BY <1>4, <1>5, <1>6 DEF RollupInv

LEMMA TickKeeps ==
    ASSUME RollupInv, Tick
    PROVE  RollupInv'
<1>1. /\ now' = IF now.past THEN [hour |-> now.hour + 1, past |-> FALSE] ELSE [now EXCEPT !.past = TRUE]
      /\ now'.hour \in Hours
      /\ UNCHANGED <<hours, days, months, since, upkeep, landed, fullDays, fullMonths, slipped>>
  BY DEF Tick
<1>2. now.hour \in Int /\ now.past \in BOOLEAN /\ now = [hour |-> now.hour, past |-> now.past]
  BY RollupTypes
<1>3. \/ now.past = TRUE /\ now'.hour = now.hour + 1 /\ now'.past = FALSE
      \/ now.past = FALSE /\ now'.hour = now.hour /\ now'.past = TRUE
  BY <1>1, <1>2
<1>4. now' \in [hour : Hours, past : BOOLEAN]
  BY <1>1, <1>2
<1>5. NextCut \in Int /\ NextCut' \in Int /\ NextCut <= NextCut' /\ now.hour <= now'.hour /\ now'.hour \in Int
  BY <1>2, <1>3 DEF NextCut
<1>6. Cut \in Int /\ Cut' \in Int /\ Cut <= Cut'
  BY <1>1, <1>5, RollupTypes DEF Cut
<1>7. RollupTypeOK'
  BY <1>1, <1>4 DEF RollupInv, RollupTypeOK
<1>8. PassTimes'
  <2>1. /\ since <= now.hour /\ since \in Int /\ upkeep.at \in Int /\ upkeep.cut \in Int
        /\ PassTimes
    BY RollupTypes DEF RollupInv, PassTimes
  <2>. QED BY <1>1, <1>2, <1>5, <2>1 DEF PassTimes
<1>. QED BY <1>1, <1>6, <1>7, <1>8, QuietKeeps

LEMMA RestIsType ==
    NoPass \in [pc : {"rest", "days", "months", "prune"}, at : Hours,
                cut : 0 .. LastHour + 1, since : Hours \cup {Never}, whole : BOOLEAN]
<1>1. 0 \in Hours /\ 0 \in 0 .. LastHour + 1
  BY SpanFacts DEF Hours
<1>. QED BY <1>1 DEF NoPass

LEMMA BeginPassKeeps ==
    ASSUME RollupInv, BeginPass
    PROVE  RollupInv'
<1>1. /\ upkeep.pc = "rest"
      /\ upkeep' = [pc |-> "days", at |-> now.hour, cut |-> NextCut, since |-> since, whole |-> TRUE]
      /\ UNCHANGED <<now, hours, days, months, since, landed, fullDays, fullMonths, slipped>>
  BY DEF BeginPass, NextCut
<1>2. now.hour \in Int /\ now.hour \in Hours /\ now.past \in BOOLEAN /\ NextCut \in Int /\ since \in Hours \cup {Never}
  BY RollupTypes
<1>3. NextCut \in 0 .. LastHour + 1 /\ now.hour <= NextCut
  BY <1>2, SpanFacts DEF NextCut, Hours
<1>4. Cut' = NextCut /\ Cut = NextCut /\ NextCut' = NextCut
  BY <1>1 DEF Cut, NextCut
<1>5. RollupTypeOK'
  BY <1>1, <1>2, <1>3 DEF RollupInv, RollupTypeOK
<1>6. PassTimes'
  BY <1>1, <1>2, <1>3, <1>4 DEF RollupInv, PassTimes
<1>. QED BY <1>1, <1>2, <1>4, <1>5, <1>6, QuietKeeps

LEMMA StatementFailsKeeps ==
    ASSUME RollupInv, StatementFails
    PROVE  RollupInv'
<1>1. /\ UNCHANGED <<now, hours, days, months, since, landed, fullDays, fullMonths, slipped>>
      /\ upkeep.pc \in {"days", "months"}
      /\ \/ upkeep' = [upkeep EXCEPT !.pc = "months", !.whole = FALSE]
         \/ upkeep' = [upkeep EXCEPT !.pc = "prune", !.whole = FALSE]
  BY DEF StatementFails
<1>2. upkeep \in [pc : {"rest", "days", "months", "prune"}, at : Hours,
                  cut : 0 .. LastHour + 1, since : Hours \cup {Never}, whole : BOOLEAN]
  BY DEF RollupInv, RollupTypeOK
<1>3. /\ upkeep'.pc \in {"months", "prune"} /\ upkeep'.whole = FALSE /\ upkeep'.at = upkeep.at
      /\ upkeep'.cut = upkeep.cut /\ upkeep'.since = upkeep.since
      /\ upkeep' \in [pc : {"rest", "days", "months", "prune"}, at : Hours,
                      cut : 0 .. LastHour + 1, since : Hours \cup {Never}, whole : BOOLEAN]
  BY <1>1, <1>2
<1>4. Cut' = Cut /\ Cut \in Int /\ NextCut' = NextCut
  BY <1>1, <1>3, RollupTypes DEF Cut, NextCut
<1>5. RollupTypeOK'
  BY <1>1, <1>3 DEF RollupInv, RollupTypeOK
<1>6. PassTimes'
  BY <1>1, <1>3, <1>4 DEF RollupInv, PassTimes
<1>. QED BY <1>1, <1>3, <1>4, <1>5, <1>6, QuietKeeps

LEMMA RunDiesKeeps ==
    ASSUME RollupInv, RunDies
    PROVE  RollupInv'
<1>1. /\ UNCHANGED <<now, hours, days, months, since, landed, fullDays, fullMonths, slipped>>
      /\ upkeep.pc # "rest" /\ upkeep' = NoPass
  BY DEF RunDies
<1>2. upkeep'.pc = "rest" /\ upkeep'.whole = TRUE
  BY <1>1 DEF NoPass
<1>3. Cut = upkeep.cut /\ Cut' = NextCut /\ NextCut' = NextCut
  BY <1>1, <1>2 DEF Cut, NextCut
<1>4. Cut \in Int /\ Cut' \in Int /\ Cut <= Cut'
  BY <1>1, <1>3, RollupTypes DEF RollupInv, PassTimes
<1>5. RollupTypeOK'
  BY <1>1, RestIsType DEF RollupInv, RollupTypeOK
<1>6. PassTimes'
  BY <1>1, <1>2 DEF RollupInv, PassTimes
<1>. QED BY <1>1, <1>2, <1>4, <1>5, <1>6, QuietKeeps

LEMMA CheckLandsKeeps ==
    ASSUME RollupInv, NEW h \in CheckHours, CheckLands(h)
    PROVE  RollupInv'
<1>1. /\ h \notin landed /\ hours' = hours \cup {h} /\ landed' = landed \cup {h}
      /\ slipped' = IF DayOf(h) < PassDay
                    THEN [days |-> slipped.days \cup {DayOf(h)},
                          months |-> slipped.months \cup {MonthOf(DayOf(h))}]
                    ELSE slipped
      /\ UNCHANGED <<now, days, months, since, upkeep, fullDays, fullMonths>>
  BY DEF CheckLands
<1>2. /\ h \in Hours /\ h \in Int /\ DayOf(h) \in AllDays /\ DayOf(h) \in Int /\ MonthOf(DayOf(h)) \in AllMonths
      /\ slipped.days \subseteq AllDays /\ slipped.months \subseteq AllMonths
      /\ since \in Int /\ upkeep.at \in Int
  BY RollupTypes, SpanFacts
<1>3. /\ slipped.days \subseteq slipped'.days /\ slipped.months \subseteq slipped'.months
      /\ DayOf(h) < PassDay => DayOf(h) \in slipped'.days
      /\ slipped' \in [days : SUBSET AllDays, months : SUBSET AllMonths]
      /\ \A d \in slipped'.days : d \in slipped.days \/ (d = DayOf(h) /\ MonthOf(d) \in slipped'.months)
  <2>1. slipped \in [days : SUBSET AllDays, months : SUBSET AllMonths]
    BY DEF RollupInv, RollupTypeOK
  <2>. QED BY <1>1, <1>2, <2>1
<1>4. RollupTypeOK'
  BY <1>1, <1>2, <1>3 DEF RollupInv, RollupTypeOK
<1>5. Cut' = Cut /\ NextCut' = NextCut
  BY <1>1 DEF Cut, NextCut
<1>6. PassTimes'
  BY <1>1, <1>5 DEF RollupInv, PassTimes
<1>7. /\ \A d : StaysOpenDay(d)' <=> StaysOpenDay(d)
      /\ \A m : StaysOpenMonth(m)' <=> StaysOpenMonth(m)
      /\ \A m : DaySums(m)' = DaySums(m)
  BY <1>1, <1>5 DEF StaysOpenDay, StaysOpenMonth, DaySums
<1>8. \A d : /\ Landed(d) \subseteq Landed(d)'
             /\ d # DayOf(h) => Landed(d)' = Landed(d)
  BY <1>1 DEF Landed
<1>9. RowsCover'
  <2>1. \A g \in landed' \ hours' : g < Cut' - HourlyDays * HoursInDay
    BY <1>1, <1>5 DEF RollupInv, RowsCover
  <2>2. \A d \in AllDays : days'[d] \subseteq Landed(d)'
    BY <1>1, <1>8 DEF RollupInv, RowsCover
  <2>3. \A m \in AllMonths : StaysOpenMonth(m)' => months'[m] \subseteq UNION {days'[d] : d \in DaysIn(m)}
    BY <1>1, <1>7 DEF RollupInv, RowsCover
  <2>4. \A d \in slipped'.days : MonthOf(d) \in slipped'.months
    BY <1>3 DEF RollupInv, RowsCover
  <2>. QED BY <2>1, <2>2, <2>3, <2>4 DEF RowsCover
<1>10. /\ since # Never => ~(DayOf(h) < DayOf(since)) \/ DayOf(h) < PassDay
       /\ upkeep.pc \notin {"rest", "days"} => ~(DayOf(h) < DayOf(upkeep.at)) \/ DayOf(h) < PassDay
  <2>. DEFINE a == DayOf(IF since = Never THEN 0 ELSE since)
              b == IF upkeep.pc \in {"rest", "days"} THEN 0 ELSE DayOf(upkeep.at)
  <2>1. PassDay = Latest(a, b)
    BY DEF PassDay
  <2>2. a \in Int /\ b \in Int
    BY <1>2, DayFacts
  <2>3. since # Never => a = DayOf(since)
    OBVIOUS
  <2>4. upkeep.pc \notin {"rest", "days"} => b = DayOf(upkeep.at)
    OBVIOUS
  <2>. HIDE DEF a, b
  <2>5. PassDay >= a /\ PassDay >= b /\ PassDay \in Int
    BY <2>1, <2>2 DEF Latest
  <2>. QED BY <1>2, <2>2, <2>3, <2>4, <2>5
<1>11. PassesRight'
  <2>1. PassesRight
    BY DEF RollupInv
  <2>2. ASSUME since # Never
        PROVE  DaysRight(DayOf(since))' /\ MonthsRight(MonthOf(DayOf(since)))'
    <3>1. DaysRight(DayOf(since)) /\ MonthsRight(MonthOf(DayOf(since)))
      BY <2>1, <2>2 DEF PassesRight
    <3>2. DaysRight(DayOf(since))'
      BY <1>1, <1>3, <1>7, <1>8, <1>10, <2>2, <3>1 DEF DaysRight
    <3>3. MonthsRight(MonthOf(DayOf(since)))'
      BY <1>1, <1>3, <1>7, <3>1 DEF MonthsRight
    <3>. QED BY <3>2, <3>3
  <2>3. ASSUME upkeep.pc \in {"months", "prune"}, upkeep.whole
        PROVE  DaysRight(DayOf(upkeep.at))'
    <3>1. DaysRight(DayOf(upkeep.at))
      BY <2>1, <2>3 DEF PassesRight
    <3>. QED BY <1>1, <1>3, <1>7, <1>8, <1>10, <2>3, <3>1 DEF DaysRight
  <2>4. ASSUME upkeep.pc = "prune", upkeep.whole
        PROVE  MonthsRight(MonthOf(DayOf(upkeep.at)))'
    <3>1. MonthsRight(MonthOf(DayOf(upkeep.at)))
      BY <2>1, <2>4 DEF PassesRight
    <3>. QED BY <1>1, <1>3, <1>7, <3>1 DEF MonthsRight
  <2>. QED BY <1>1, <2>2, <2>3, <2>4 DEF PassesRight
<1>12. BucketsAddUp'
  BY <1>1, <1>3 DEF RollupInv, BucketsAddUp
<1>. QED BY <1>4, <1>6, <1>9, <1>11, <1>12 DEF RollupInv

LEMMA RollMoves ==
    ASSUME RollupInv, NEW pc \in {"months", "prune"}, UpkeepAt(pc), UNCHANGED <<now, since>>,
           upkeep.pc # "rest"
    PROVE  /\ upkeep'.pc = pc /\ upkeep'.at = upkeep.at /\ upkeep'.whole = upkeep.whole
           /\ upkeep' \in [pc : {"rest", "days", "months", "prune"}, at : Hours,
                           cut : 0 .. LastHour + 1, since : Hours \cup {Never}, whole : BOOLEAN]
           /\ Cut' = Cut /\ PassTimes'
<1>1. /\ upkeep \in [pc : {"rest", "days", "months", "prune"}, at : Hours,
                     cut : 0 .. LastHour + 1, since : Hours \cup {Never}, whole : BOOLEAN]
      /\ upkeep' = [upkeep EXCEPT !.pc = pc]
  BY DEF RollupInv, RollupTypeOK, UpkeepAt
<1>2. /\ upkeep'.pc = pc /\ upkeep'.at = upkeep.at /\ upkeep'.whole = upkeep.whole
      /\ upkeep'.cut = upkeep.cut /\ upkeep'.since = upkeep.since
      /\ upkeep' \in [pc : {"rest", "days", "months", "prune"}, at : Hours,
                      cut : 0 .. LastHour + 1, since : Hours \cup {Never}, whole : BOOLEAN]
  BY <1>1
<1>3. Cut' = Cut /\ NextCut' = NextCut
  BY <1>2 DEF Cut, NextCut
<1>4. PassTimes'
  BY <1>2, <1>3 DEF RollupInv, PassTimes
<1>. QED BY <1>2, <1>3, <1>4

\* Every open day is right after the day pass, but for those a late check reached
\* and the pass did not read; the days of a finished month stay as they were.
LEMMA RollDaysKeeps ==
    ASSUME RollupInv, RollDays
    PROVE  RollupInv'
<1>1. /\ upkeep.pc = "days" /\ UpkeepAt("months")
      /\ days' = HourToDay(upkeep)
      /\ fullDays' = [d \in AllDays |-> IF OpenDay(upkeep, d) THEN Landed(d) ELSE fullDays[d]]
      /\ slipped' = [slipped EXCEPT !.days = {d \in @ : d < DayBefore(upkeep) \/ ~OpenDay(upkeep, d)}]
      /\ UNCHANGED <<now, hours, months, since, landed, fullMonths>>
  BY DEF RollDays, Landed
<1>2. /\ upkeep'.pc = "months" /\ upkeep'.at = upkeep.at
      /\ upkeep' \in [pc : {"rest", "days", "months", "prune"}, at : Hours,
                      cut : 0 .. LastHour + 1, since : Hours \cup {Never}, whole : BOOLEAN]
      /\ Cut' = Cut /\ PassTimes'
  BY <1>1, RollMoves
<1>3. /\ slipped'.days = {d \in slipped.days : d < DayBefore(upkeep) \/ ~OpenDay(upkeep, d)}
      /\ slipped'.months = slipped.months
      /\ slipped' \in [days : SUBSET AllDays, months : SUBSET AllMonths]
  BY <1>1 DEF RollupInv, RollupTypeOK
<1>4. /\ \A d : StaysOpenDay(d)' <=> StaysOpenDay(d)
      /\ \A m : StaysOpenMonth(m)' <=> StaysOpenMonth(m)
      /\ \A d : Landed(d)' = Landed(d)
      /\ \A d : OpenDay(upkeep, d) <=> StaysOpenDay(d)
  <2>1. /\ \A d : StaysOpenDay(d)' <=> StaysOpenDay(d)
        /\ \A m : StaysOpenMonth(m)' <=> StaysOpenMonth(m)
        /\ \A d : Landed(d)' = Landed(d)
    BY <1>1, <1>2 DEF StaysOpenDay, StaysOpenMonth, Landed
  <2>. QED BY <1>1, <2>1, Windows
<1>5. ASSUME NEW d \in AllDays
      PROVE  /\ ~OpenDay(upkeep, d) => days'[d] = days[d] /\ fullDays'[d] = fullDays[d]
             /\ OpenDay(upkeep, d) =>
                  /\ fullDays'[d] = Landed(d)
                  /\ \/ days'[d] = Landed(d)
                     \/ days'[d] = days[d] /\ since # Never /\ d < DayOf(since) /\ d < DayBefore(upkeep)
  <2>1. days'[d] = HourToDay(upkeep)[d]
    BY <1>1
  <2>2. fullDays'[d] = IF OpenDay(upkeep, d) THEN Landed(d) ELSE fullDays[d]
    BY <1>1
  <2>. QED BY <1>1, <2>1, <2>2, DaysRolled
<1>6. /\ \A d \in AllDays : days[d] \subseteq Landed(d)
      /\ since # Never => DaysRight(DayOf(since)) /\ MonthsRight(MonthOf(DayOf(since)))
      /\ \A d \in AllDays \ slipped.days : days[d] = fullDays[d]
      /\ \A d \in slipped.days : MonthOf(d) \in slipped.months
  BY DEF RollupInv, RowsCover, PassesRight, BucketsAddUp
<1>7. ASSUME NEW d \in AllDays \ slipped'.days, OpenDay(upkeep, d)
      PROVE  days'[d] = Landed(d)
  <2>1. CASE d < DayBefore(upkeep) /\ since # Never /\ d < DayOf(since) /\ days'[d] = days[d]
    <3>1. d \notin slipped.days
      BY <1>3, <2>1
    <3>. QED BY <1>4, <1>6, <1>7, <2>1, <3>1 DEF DaysRight
  <2>. QED BY <1>5, <1>7, <2>1
<1>8. RollupTypeOK'
  <2>1. \A d \in AllDays : Landed(d) \subseteq Hours /\ days[d] \subseteq Hours /\ fullDays[d] \subseteq Hours
    BY RollupTypes DEF Landed
  <2>2. \A d \in AllDays : days'[d] \subseteq Hours /\ fullDays'[d] \subseteq Hours
    BY <1>5, <2>1
  <2>3. DOMAIN days' = AllDays /\ DOMAIN fullDays' = AllDays
        /\ days' = [d \in AllDays |-> days'[d]] /\ fullDays' = [d \in AllDays |-> fullDays'[d]]
    BY <1>1 DEF HourToDay
  <2>4. days' \in [AllDays -> SUBSET Hours] /\ fullDays' \in [AllDays -> SUBSET Hours]
    BY <2>2, <2>3
  <2>. QED BY <1>1, <1>2, <1>3, <2>4 DEF RollupInv, RollupTypeOK
<1>9. RowsCover'
  <2>1. \A d \in AllDays : days'[d] \subseteq Landed(d)' /\ days[d] \subseteq days'[d]
    BY <1>4, <1>5, <1>6
  <2>2. \A m \in AllMonths : StaysOpenMonth(m) => months[m] \subseteq UNION {days[d] : d \in DaysIn(m)}
    BY DEF RollupInv, RowsCover
  <2>3. \A m : UNION {days[d] : d \in DaysIn(m)} \subseteq UNION {days'[d] : d \in DaysIn(m)}
    BY <2>1 DEF DaysIn
  <2>4. \A m \in AllMonths : StaysOpenMonth(m)' => months'[m] \subseteq UNION {days'[d] : d \in DaysIn(m)}
    BY <1>1, <1>4, <2>2, <2>3
  <2>5. \A h \in landed' \ hours' : h < Cut' - HourlyDays * HoursInDay
    BY <1>1, <1>2 DEF RollupInv, RowsCover
  <2>6. \A d \in slipped'.days : MonthOf(d) \in slipped'.months
    BY <1>3, <1>6
  <2>. QED BY <2>1, <2>4, <2>5, <2>6 DEF RowsCover
<1>10. \A n : DaysRight(n)'
  BY <1>4, <1>7 DEF DaysRight
<1>11. ASSUME since # Never PROVE MonthsRight(MonthOf(DayOf(since)))'
  <2>1. ASSUME NEW m \in AllMonths \ slipped.months, m < MonthOf(DayOf(since)), StaysOpenMonth(m)
        PROVE  months[m] = DaySums(m)'
    <3>1. ASSUME NEW d \in DaysIn(m)
          PROVE  fullDays'[d] = fullDays[d]
      <4>1. d \in AllDays /\ d \notin slipped.days /\ MonthOf(d) = m
        BY <1>6, <2>1, <3>1 DEF DaysIn
      <4>2. d \in Int /\ DayOf(since) \in Int
        BY <4>1, SpanFacts, DayFacts, RollupTypes
      <4>3. MonthOf(d) \in Int /\ MonthOf(DayOf(since)) \in Int
        BY <4>2, MonthFacts
      <4>4. DayOf(since) <= d => MonthOf(DayOf(since)) <= MonthOf(d)
        BY <4>2, MonthFacts
      <4>5. d < DayOf(since)
        BY <2>1, <4>1, <4>2, <4>3, <4>4
      <4>6. StaysOpenDay(d) => fullDays[d] = Landed(d)
        BY <1>6, <1>11, <4>1, <4>5 DEF DaysRight
      <4>. QED BY <1>4, <1>5, <4>1, <4>6
    <3>2. DaySums(m)' = DaySums(m)
      BY <3>1 DEF DaySums
    <3>3. months[m] = DaySums(m)
      BY <1>6, <1>11, <2>1 DEF MonthsRight
    <3>. QED BY <3>2, <3>3
  <2>. QED BY <1>1, <1>3, <1>4, <2>1 DEF MonthsRight
<1>12. PassesRight'
  BY <1>1, <1>2, <1>10, <1>11 DEF PassesRight
<1>13. BucketsAddUp'
  <2>1. ASSUME NEW d \in AllDays \ slipped'.days PROVE days'[d] = fullDays'[d]
    <3>1. CASE OpenDay(upkeep, d)
      BY <1>5, <1>7, <3>1
    <3>2. CASE ~OpenDay(upkeep, d)
      BY <1>3, <1>5, <1>6, <3>2
    <3>. QED BY <3>1, <3>2
  <2>2. \A m \in AllMonths \ slipped'.months : months'[m] = fullMonths'[m]
    BY <1>1, <1>3 DEF RollupInv, BucketsAddUp
  <2>. QED BY <2>1, <2>2 DEF BucketsAddUp
<1>. QED BY <1>2, <1>8, <1>9, <1>12, <1>13 DEF RollupInv

LEMMA RollMonthsKeeps ==
    ASSUME RollupInv, RollMonths
    PROVE  RollupInv'
<1>1. /\ upkeep.pc = "months" /\ UpkeepAt("prune")
      /\ months' = DayToMonth(upkeep)
      /\ fullMonths' = [m \in AllMonths |-> IF OpenMonth(upkeep, m) THEN DaySums(m) ELSE fullMonths[m]]
      /\ slipped' = [slipped EXCEPT !.months =
            {m \in @ : \/ m < MonthOf(DayBefore(upkeep)) \/ ~OpenMonth(upkeep, m)
                       \/ \E d \in slipped.days : MonthOf(d) = m}]
      /\ UNCHANGED <<now, hours, days, since, landed, fullDays>>
  BY DEF RollMonths, DaySums, DaysIn
<1>2. /\ upkeep'.pc = "prune" /\ upkeep'.at = upkeep.at /\ upkeep'.whole = upkeep.whole
      /\ upkeep' \in [pc : {"rest", "days", "months", "prune"}, at : Hours,
                      cut : 0 .. LastHour + 1, since : Hours \cup {Never}, whole : BOOLEAN]
      /\ Cut' = Cut /\ PassTimes'
  BY <1>1, RollMoves
<1>3. /\ slipped'.months = {m \in slipped.months : \/ m < MonthOf(DayBefore(upkeep)) \/ ~OpenMonth(upkeep, m)
                                                   \/ \E d \in slipped.days : MonthOf(d) = m}
      /\ slipped'.days = slipped.days
      /\ slipped' \in [days : SUBSET AllDays, months : SUBSET AllMonths]
  BY <1>1 DEF RollupInv, RollupTypeOK
<1>4. /\ \A d : StaysOpenDay(d)' <=> StaysOpenDay(d)
      /\ \A m : StaysOpenMonth(m)' <=> StaysOpenMonth(m)
      /\ \A d : Landed(d)' = Landed(d)
      /\ \A m : DaySums(m)' = DaySums(m)
      /\ \A m : OpenMonth(upkeep, m) <=> StaysOpenMonth(m)
  <2>1. /\ \A d : StaysOpenDay(d)' <=> StaysOpenDay(d)
        /\ \A m : StaysOpenMonth(m)' <=> StaysOpenMonth(m)
        /\ \A d : Landed(d)' = Landed(d)
        /\ \A m : DaySums(m)' = DaySums(m)
    BY <1>1, <1>2 DEF StaysOpenDay, StaysOpenMonth, Landed, DaySums
  <2>. QED BY <1>1, <2>1, Windows
<1>5. ASSUME NEW m \in AllMonths
      PROVE  /\ ~OpenMonth(upkeep, m) => months'[m] = months[m] /\ fullMonths'[m] = fullMonths[m]
             /\ OpenMonth(upkeep, m) =>
                  /\ fullMonths'[m] = DaySums(m)
                  /\ \/ months'[m] = UNION {days[d] : d \in DaysIn(m)}
                     \/ /\ months'[m] = months[m] /\ since # Never
                        /\ m < MonthOf(DayOf(since)) /\ m < MonthOf(DayBefore(upkeep))
  <2>1. months'[m] = DayToMonth(upkeep)[m]
    BY <1>1
  <2>2. fullMonths'[m] = IF OpenMonth(upkeep, m) THEN DaySums(m) ELSE fullMonths[m]
    BY <1>1
  <2>. QED BY <1>1, <2>1, <2>2, MonthsRolled
<1>6. /\ \A d \in AllDays : days[d] \subseteq Landed(d)
      /\ \A m \in AllMonths : StaysOpenMonth(m) => months[m] \subseteq UNION {days[d] : d \in DaysIn(m)}
      /\ since # Never => DaysRight(DayOf(since)) /\ MonthsRight(MonthOf(DayOf(since)))
      /\ \A d \in AllDays \ slipped.days : days[d] = fullDays[d]
      /\ \A m \in AllMonths \ slipped.months : months[m] = fullMonths[m]
      /\ \A d \in slipped.days : MonthOf(d) \in slipped.months
  BY DEF RollupInv, RowsCover, PassesRight, BucketsAddUp
<1>7. ASSUME NEW m \in AllMonths \ slipped'.months, OpenMonth(upkeep, m)
      PROVE  months'[m] = DaySums(m)
  <2>1. CASE months'[m] = UNION {days[d] : d \in DaysIn(m)}
    <3>1. \A d \in DaysIn(m) : d \in AllDays /\ d \notin slipped.days
      BY <1>3, <1>6 DEF DaysIn
    <3>2. \A d \in DaysIn(m) : days[d] = fullDays[d]
      BY <1>6, <3>1
    <3>. QED BY <2>1, <3>2 DEF DaySums
  <2>2. CASE /\ months'[m] = months[m] /\ since # Never
             /\ m < MonthOf(DayOf(since)) /\ m < MonthOf(DayBefore(upkeep))
    <3>1. m \notin slipped.months
      BY <1>3, <2>2
    <3>. QED BY <1>4, <1>6, <1>7, <2>2, <3>1 DEF MonthsRight
  <2>. QED BY <1>5, <1>7, <2>1, <2>2
<1>8. RollupTypeOK'
  <2>1. \A d \in AllDays : days[d] \subseteq Hours /\ fullDays[d] \subseteq Hours
    BY RollupTypes
  <2>2. \A m \in AllMonths : /\ months[m] \subseteq Hours /\ fullMonths[m] \subseteq Hours
                             /\ DaySums(m) \subseteq Hours /\ UNION {days[d] : d \in DaysIn(m)} \subseteq Hours
    BY <2>1, RollupTypes DEF DaySums, DaysIn
  <2>3. \A m \in AllMonths : months'[m] \subseteq Hours /\ fullMonths'[m] \subseteq Hours
    BY <1>5, <2>2
  <2>4. months' = [m \in AllMonths |-> months'[m]] /\ fullMonths' = [m \in AllMonths |-> fullMonths'[m]]
    BY <1>1 DEF DayToMonth
  <2>5. months' \in [AllMonths -> SUBSET Hours] /\ fullMonths' \in [AllMonths -> SUBSET Hours]
    BY <2>3, <2>4
  <2>. QED BY <1>1, <1>2, <1>3, <2>5 DEF RollupInv, RollupTypeOK
<1>9. RowsCover'
  <2>1. \A m \in AllMonths : StaysOpenMonth(m)' => months'[m] \subseteq UNION {days'[d] : d \in DaysIn(m)}
    BY <1>1, <1>4, <1>5, <1>6
  <2>2. \A h \in landed' \ hours' : h < Cut' - HourlyDays * HoursInDay
    BY <1>1, <1>2 DEF RollupInv, RowsCover
  <2>3. \A d \in slipped'.days : MonthOf(d) \in slipped'.months
    BY <1>3, <1>6
  <2>. QED BY <1>1, <1>4, <1>6, <2>1, <2>2, <2>3 DEF RowsCover
<1>10. \A n : MonthsRight(n)'
  BY <1>4, <1>7 DEF MonthsRight
<1>11. /\ since # Never => DaysRight(DayOf(since))'
       /\ upkeep.whole => DaysRight(DayOf(upkeep.at))'
  <2>1. upkeep.whole => DaysRight(DayOf(upkeep.at))
    BY <1>1 DEF RollupInv, PassesRight
  <2>2. ASSUME since # Never PROVE DaysRight(DayOf(since))'
    BY <1>1, <1>3, <1>4, <1>6, <2>2 DEF DaysRight
  <2>3. ASSUME upkeep.whole PROVE DaysRight(DayOf(upkeep.at))'
    BY <1>2, <1>1, <1>3, <1>4, <2>1, <2>3 DEF DaysRight
  <2>. QED BY <2>2, <2>3
<1>12. PassesRight'
  BY <1>1, <1>2, <1>10, <1>11 DEF PassesRight
<1>13. BucketsAddUp'
  <2>1. ASSUME NEW m \in AllMonths \ slipped'.months PROVE months'[m] = fullMonths'[m]
    <3>1. CASE OpenMonth(upkeep, m)
      BY <1>5, <1>7, <3>1
    <3>2. CASE ~OpenMonth(upkeep, m)
      BY <1>3, <1>5, <1>6, <3>2
    <3>. QED BY <3>1, <3>2
  <2>2. \A d \in AllDays \ slipped'.days : days'[d] = fullDays'[d]
    BY <1>1, <1>3, <1>6
  <2>. QED BY <2>1, <2>2 DEF BucketsAddUp
<1>. QED BY <1>2, <1>8, <1>9, <1>12, <1>13 DEF RollupInv

\* What the prunes take is not open: hours for no day, days for no month.
LEMMA PruneAndRecordKeeps ==
    ASSUME RollupInv, HourlyDays <= DailyDays, PruneAndRecord
    PROVE  RollupInv'
<1>1. PICK pruned \in SUBSET {"hours", "days"} :
        /\ hours' = IF "hours" \in pruned THEN {h \in hours : h >= HourlyFloor(upkeep)} ELSE hours
        /\ days' = IF "days" \in pruned THEN Kept(days) ELSE days
        /\ fullDays' = IF "days" \in pruned THEN Kept(fullDays) ELSE fullDays
        /\ since' = IF upkeep.whole /\ pruned = {"hours", "days"} THEN upkeep.at ELSE since
  BY DEF PruneAndRecord
<1>2. /\ upkeep.pc = "prune" /\ upkeep' = NoPass
      /\ UNCHANGED <<now, months, landed, fullMonths, slipped>>
  BY DEF PruneAndRecord
<1>3. upkeep'.pc = "rest" /\ upkeep'.whole = TRUE
  BY <1>2 DEF NoPass
<1>4. Cut = upkeep.cut /\ Cut' = NextCut /\ NextCut' = NextCut
  BY <1>2, <1>3 DEF Cut, NextCut
<1>5. Cut \in Int /\ Cut' \in Int /\ Cut <= Cut'
  BY <1>2, <1>4, RollupTypes DEF RollupInv, PassTimes
<1>6. /\ \A d \in AllDays : StaysOpenDay(d)' => StaysOpenDay(d)
      /\ \A m \in AllMonths : StaysOpenMonth(m)' => StaysOpenMonth(m)
  BY <1>5, OpenEarlier
<1>7. /\ HourlyFloor(upkeep) \in Int /\ DailyFloor(upkeep) \in Int
      /\ HourlyFloor(upkeep) = Cut - HourlyDays * HoursInDay
      /\ DailyFloor(upkeep) = Cut - DailyDays * HoursInDay
      /\ DailyFloor(upkeep) <= HourlyFloor(upkeep)
  BY <1>4, <1>5, SpanFacts DEF HourlyFloor, DailyFloor
<1>8. ASSUME NEW d \in AllDays
      PROVE  /\ days'[d] \in {days[d], {}} /\ fullDays'[d] \in {fullDays[d], {}}
             /\ days[d] = fullDays[d] => days'[d] = fullDays'[d]
             /\ DayStart(d) >= DailyFloor(upkeep) => days'[d] = days[d] /\ fullDays'[d] = fullDays[d]
  <2>1. /\ Kept(days)[d] = IF DayStart(d) < DailyFloor(upkeep) THEN {} ELSE days[d]
        /\ Kept(fullDays)[d] = IF DayStart(d) < DailyFloor(upkeep) THEN {} ELSE fullDays[d]
    BY DEF Kept
  <2>2. DayStart(d) \in Int
    BY SpanFacts, DayFacts
  <2>. QED BY <1>1, <1>7, <2>1, <2>2
<1>9. ASSUME NEW d \in AllDays, StaysOpenDay(d)
      PROVE  days'[d] = days[d]
  <2>1. DayStart(d) >= DailyFloor(upkeep)
    <3>1. DayStart(d) \in Int
      BY SpanFacts, DayFacts
    <3>2. DayStart(d) >= HourlyFloor(upkeep)
      BY <1>7, <1>9 DEF StaysOpenDay
    <3>. QED BY <1>7, <3>1, <3>2
  <2>. QED BY <1>8, <2>1
<1>10. ASSUME NEW m \in AllMonths, StaysOpenMonth(m)
       PROVE  \A d \in DaysIn(m) : days'[d] = days[d] /\ fullDays'[d] = fullDays[d]
  <2>. SUFFICES ASSUME NEW d \in DaysIn(m) PROVE days'[d] = days[d] /\ fullDays'[d] = fullDays[d]
    OBVIOUS
  <2>1. d \in AllDays /\ d \in Int /\ MonthOf(d) = m /\ m \in Int
    BY SpanFacts DEF DaysIn
  <2>2. MonthStart(m) <= DayStart(d) /\ MonthStart(m) \in Int /\ DayStart(d) \in Int
    BY <2>1, DayInMonth, DayFacts, MonthFacts
  <2>3. MonthStart(m) >= DailyFloor(upkeep)
    BY <1>7, <1>10 DEF StaysOpenMonth
  <2>4. DayStart(d) >= DailyFloor(upkeep)
    BY <1>7, <2>2, <2>3
  <2>. QED BY <1>8, <2>1, <2>4
<1>11. /\ since' \in Hours \cup {Never} /\ since' <= now.hour
  BY <1>1, <1>2, RollupTypes DEF RollupInv, PassTimes
<1>12. RollupTypeOK'
  <2>1. days \in [AllDays -> SUBSET Hours] /\ fullDays \in [AllDays -> SUBSET Hours]
    BY RollupTypes
  <2>2. days' \in [AllDays -> SUBSET Hours] /\ fullDays' \in [AllDays -> SUBSET Hours]
    <3>1. Kept(days) \in [AllDays -> SUBSET Hours] /\ Kept(fullDays) \in [AllDays -> SUBSET Hours]
      BY <2>1 DEF Kept
    <3>. QED BY <1>1, <2>1, <3>1
  <2>3. hours' \subseteq hours
    BY <1>1
  <2>. QED BY <1>2, <1>11, <2>2, <2>3, RestIsType DEF RollupInv, RollupTypeOK
<1>13. PassTimes'
  BY <1>2, <1>3, <1>11 DEF PassTimes
<1>14. \A d : Landed(d)' = Landed(d)
  BY <1>2 DEF Landed
<1>15. RowsCover'
  <2>1. ASSUME NEW h \in landed' \ hours' PROVE h < Cut' - HourlyDays * HoursInDay
    <3>1. h \in landed /\ h \in Int
      BY <1>2, RollupTypes, SpanFacts
    <3>2. h < HourlyFloor(upkeep)
      <4>1. CASE h \notin hours
        BY <1>7, <3>1, <4>1 DEF RollupInv, RowsCover
      <4>2. CASE h \in hours
        BY <1>1, <1>7, <2>1, <3>1, <4>2
      <4>. QED BY <4>1, <4>2
    <3>3. HourlyDays * HoursInDay \in Int
      BY SpanFacts
    <3>. DEFINE from == Cut
                to == Cut'
                kept == HourlyDays * HoursInDay
    <3>4. from \in Int /\ to \in Int /\ kept \in Int /\ from <= to /\ h < from - kept
      BY <1>5, <1>7, <3>2, <3>3
    <3>. HIDE DEF from, to, kept
    <3>5. h < to - kept
      BY <3>1, <3>4
    <3>. QED BY <3>5 DEF to, kept
  <2>2. \A d \in AllDays : days'[d] \subseteq Landed(d)'
    BY <1>8, <1>14 DEF RollupInv, RowsCover
  <2>3. ASSUME NEW m \in AllMonths, StaysOpenMonth(m)'
        PROVE  months'[m] \subseteq UNION {days'[d] : d \in DaysIn(m)}
    <3>1. StaysOpenMonth(m)
      BY <1>6, <2>3
    <3>2. months[m] \subseteq UNION {days[d] : d \in DaysIn(m)}
      BY <3>1 DEF RollupInv, RowsCover
    <3>3. \A d \in DaysIn(m) : days'[d] = days[d]
      BY <1>10, <3>1
    <3>. QED BY <1>2, <3>2, <3>3
  <2>4. \A d \in slipped'.days : MonthOf(d) \in slipped'.months
    BY <1>2 DEF RollupInv, RowsCover
  <2>. QED BY <2>1, <2>2, <2>3, <2>4 DEF RowsCover
<1>16. ASSUME since' # Never PROVE DaysRight(DayOf(since))'
  <2>1. DaysRight(DayOf(since'))
    BY <1>1, <1>2, <1>16 DEF RollupInv, PassesRight
  <2>. SUFFICES ASSUME NEW d \in AllDays \ slipped.days, d < DayOf(since'), StaysOpenDay(d)'
                PROVE  days'[d] = Landed(d)'
    BY <1>2 DEF DaysRight
  <2>2. StaysOpenDay(d)
    BY <1>6
  <2>. QED BY <1>9, <1>14, <2>1, <2>2 DEF DaysRight
<1>17. ASSUME since' # Never PROVE MonthsRight(MonthOf(DayOf(since)))'
  <2>1. MonthsRight(MonthOf(DayOf(since')))
    BY <1>1, <1>2, <1>17 DEF RollupInv, PassesRight
  <2>. SUFFICES ASSUME NEW m \in AllMonths \ slipped.months, m < MonthOf(DayOf(since')),
                       StaysOpenMonth(m)'
                PROVE  months[m] = DaySums(m)'
    BY <1>2 DEF MonthsRight
  <2>2. StaysOpenMonth(m)
    BY <1>6
  <2>3. \A d \in DaysIn(m) : fullDays'[d] = fullDays[d]
    BY <1>10, <2>2
  <2>4. DaySums(m)' = DaySums(m)
    BY <2>3 DEF DaySums
  <2>. QED BY <2>1, <2>2, <2>4 DEF MonthsRight
<1>18. PassesRight'
  BY <1>3, <1>16, <1>17 DEF PassesRight
<1>19. BucketsAddUp'
  BY <1>2, <1>8 DEF RollupInv, BucketsAddUp
<1>. QED BY <1>12, <1>13, <1>15, <1>18, <1>19 DEF RollupInv

LEMMA RollupStart == RollupInit => RollupInv
<1>. SUFFICES ASSUME RollupInit PROVE RollupInv
  OBVIOUS
<1>1. /\ now = [hour |-> 0, past |-> FALSE] /\ hours = {} /\ landed = {}
      /\ days = [d \in AllDays |-> {}] /\ fullDays = days
      /\ months = [m \in AllMonths |-> {}] /\ fullMonths = months
      /\ since = Never /\ upkeep = NoPass /\ slipped = [days |-> {}, months |-> {}]
  BY DEF RollupInit
<1>2. 0 \in Hours
  BY SpanFacts DEF Hours
<1>3. RollupTypeOK
  BY <1>1, <1>2, RestIsType DEF RollupTypeOK
<1>4. PassTimes
  BY <1>1 DEF PassTimes, Never, NoPass
<1>5. RowsCover
  BY <1>1 DEF RowsCover, Landed
<1>6. PassesRight
  BY <1>1 DEF PassesRight, NoPass
<1>7. BucketsAddUp
  BY <1>1 DEF BucketsAddUp
<1>. QED BY <1>3, <1>4, <1>5, <1>6, <1>7 DEF RollupInv

LEMMA RollupStep ==
    ASSUME RollupInv, HourlyDays <= DailyDays, [RollupNext]_rollupVars
    PROVE  RollupInv'
<1>1. CASE UNCHANGED rollupVars
  <2>1. Cut' = Cut /\ NextCut' = NextCut
    BY <1>1 DEF rollupVars, Cut, NextCut
  <2>2. RollupTypeOK'
    BY <1>1 DEF rollupVars, RollupInv, RollupTypeOK
  <2>3. PassTimes'
    BY <1>1, <2>1 DEF rollupVars, RollupInv, PassTimes
  <2>. QED BY <1>1, <2>1, <2>2, <2>3, RollupTypes, QuietKeeps DEF rollupVars
<1>2. CASE RollupNext
  BY <1>2, TickKeeps, BeginPassKeeps, CheckLandsKeeps, RollDaysKeeps, RollMonthsKeeps,
     PruneAndRecordKeeps, StatementFailsKeeps, RunDiesKeeps DEF RollupNext
<1>. QED BY <1>1, <1>2

\* Reading only what changed since the last whole pass misses nothing
\* (compactionStatements, compactionWindow): every day and month row is what
\* recomputing every open bucket from every check would have made it, for every
\* calendar and every retention in which an hour is kept no longer than a day.
THEOREM RollupsMissNothing ==
    ASSUME HourlyDays <= DailyDays
    PROVE  RollupSpec => []BucketsAddUp
<1>1. RollupInit => RollupInv
  BY RollupStart
<1>2. RollupInv /\ [RollupNext]_rollupVars => RollupInv'
  BY RollupStep
<1>3. RollupInv => BucketsAddUp
  BY DEF RollupInv
<1>. QED BY <1>1, <1>2, <1>3, PTL DEF RollupSpec

\* Whatever the retentions are, a step keeps the types.
LEMMA RollupStepTyped ==
    ASSUME RollupTypeOK, [RollupNext]_rollupVars
    PROVE  RollupTypeOK'
<1>. DEFINE Rows == [AllDays -> SUBSET Hours]
            MonthRows == [AllMonths -> SUBSET Hours]
            UpkeepRecords == [pc : {"rest", "days", "months", "prune"}, at : Hours,
                              cut : 0 .. LastHour + 1, since : Hours \cup {Never}, whole : BOOLEAN]
            Late == [days : SUBSET AllDays, months : SUBSET AllMonths]
<1>1. /\ now \in [hour : Hours, past : BOOLEAN] /\ hours \subseteq landed /\ landed \subseteq Hours
      /\ days \in Rows /\ fullDays \in Rows /\ months \in MonthRows /\ fullMonths \in MonthRows
      /\ since \in Hours \cup {Never} /\ upkeep \in UpkeepRecords /\ slipped \in Late
      /\ LastHour \in Nat /\ CheckHours \subseteq Hours /\ NoPass \in UpkeepRecords
  BY RollupAssumption DEF RollupTypeOK, NoPass, Hours, Never
<1>2. \A h \in Hours : DayOf(h) \in AllDays /\ MonthOf(DayOf(h)) \in AllMonths
  BY DEF AllDays, AllMonths
<1>3. now' \in [hour : Hours, past : BOOLEAN]
  <2>1. CASE now' = now
    BY <1>1, <2>1
  <2>2. CASE Tick
    BY <1>1, <2>2 DEF Tick
  <2>. QED BY <2>1, <2>2 DEF RollupNext, rollupVars, BeginPass, CheckLands, RollDays, RollMonths, PruneAndRecord, StatementFails, RunDies
<1>4. hours' \subseteq landed' /\ landed' \subseteq Hours
  <2>1. ASSUME NEW h \in CheckHours, CheckLands(h)
        PROVE  hours' \subseteq landed' /\ landed' \subseteq Hours
    BY <1>1, <2>1 DEF CheckLands
  <2>2. CASE hours' \subseteq hours /\ landed' = landed
    BY <1>1, <2>2
  <2>. QED BY <2>1, <2>2 DEF RollupNext, rollupVars, Tick, BeginPass, RollDays, RollMonths, PruneAndRecord, StatementFails, RunDies
<1>5. days' \in Rows /\ fullDays' \in Rows
  <2>1. CASE UNCHANGED <<days, fullDays>>
    BY <1>1, <2>1
  <2>2. CASE RollDays
    <3>1. HourToDay(upkeep) \in Rows
      BY <1>1 DEF HourToDay, HoursOf
    <3>2. fullDays' \in Rows
      BY <1>1, <2>2 DEF RollDays
    <3>. QED BY <2>2, <3>1, <3>2 DEF RollDays
  <2>3. CASE PruneAndRecord
    <3>1. \A rows \in Rows : Kept(rows) \in Rows
      BY DEF Kept
    <3>2. (days' = days \/ days' = Kept(days)) /\ (fullDays' = fullDays \/ fullDays' = Kept(fullDays))
      BY <2>3 DEF PruneAndRecord
    <3>. HIDE DEF Rows
    <3>. QED BY <1>1, <3>1, <3>2
  <2>. QED BY <2>1, <2>2, <2>3 DEF RollupNext, rollupVars, Tick, BeginPass, CheckLands, RollMonths, StatementFails, RunDies
<1>6. months' \in MonthRows /\ fullMonths' \in MonthRows
  <2>1. CASE UNCHANGED <<months, fullMonths>>
    BY <1>1, <2>1
  <2>2. CASE RollMonths
    <3>1. \A D \in SUBSET AllDays : UNION {days[d] : d \in D} \subseteq Hours /\ UNION {fullDays[d] : d \in D} \subseteq Hours
      BY <1>1
    <3>2. \A m : DaysOf(m, MonthsWindow(upkeep)) \in SUBSET AllDays /\ {e \in AllDays : MonthOf(e) = m} \in SUBSET AllDays
      BY DEF DaysOf
    <3>3. DayToMonth(upkeep) \in MonthRows
      BY <1>1, <3>1, <3>2 DEF DayToMonth
    <3>4. fullMonths' \in MonthRows
      BY <1>1, <2>2, <3>1, <3>2 DEF RollMonths
    <3>. QED BY <2>2, <3>3, <3>4 DEF RollMonths
  <2>. QED BY <2>1, <2>2 DEF RollupNext, rollupVars, Tick, BeginPass, CheckLands, RollDays, PruneAndRecord, StatementFails, RunDies
<1>7. since' \in Hours \cup {Never}
  BY <1>1 DEF RollupNext, rollupVars, Tick, BeginPass, CheckLands, RollDays, RollMonths, PruneAndRecord, StatementFails, RunDies
<1>8. upkeep' \in UpkeepRecords
  <2>1. CASE UNCHANGED upkeep \/ upkeep' = NoPass
    BY <1>1, <2>1
  <2>2. CASE BeginPass
    <3>1. now.hour \in Hours /\ now.hour + (IF now.past THEN 1 ELSE 0) \in 0 .. LastHour + 1
      BY <1>1 DEF Hours
    <3>. QED BY <1>1, <2>2, <3>1 DEF BeginPass
  <2>3. CASE RollDays \/ RollMonths \/ StatementFails
    BY <1>1, <2>3 DEF RollDays, RollMonths, StatementFails, UpkeepAt
  <2>. QED BY <2>1, <2>2, <2>3 DEF RollupNext, rollupVars, Tick, CheckLands, PruneAndRecord, RunDies
<1>9. slipped' \in Late
  <2>1. CASE UNCHANGED slipped
    BY <1>1, <2>1
  <2>2. ASSUME NEW h \in CheckHours, CheckLands(h)
        PROVE  slipped' \in Late
    <3>1. DayOf(h) \in AllDays /\ MonthOf(DayOf(h)) \in AllMonths
      BY <1>1, <1>2
    <3>2. \/ slipped' = [days |-> slipped.days \cup {DayOf(h)}, months |-> slipped.months \cup {MonthOf(DayOf(h))}]
          \/ slipped' = slipped
      BY <2>2 DEF CheckLands
    <3>. QED BY <1>1, <3>1, <3>2
  <2>3. CASE RollDays
    BY <1>1, <2>3 DEF RollDays
  <2>4. CASE RollMonths
    BY <1>1, <2>4 DEF RollMonths
  <2>. QED BY <2>1, <2>2, <2>3, <2>4 DEF RollupNext, rollupVars, Tick, BeginPass, PruneAndRecord, StatementFails, RunDies
<1>. QED BY <1>1, <1>3, <1>4, <1>5, <1>6, <1>7, <1>8, <1>9 DEF RollupTypeOK

(* The history's rows, its pass and its notes keep their type, whatever the   *)
(* retentions are.                                                          *)
THEOREM RollupTypeCorrect == RollupSpec => []RollupTypeOK
<1>1. RollupInit => RollupTypeOK
  BY RollupStart DEF RollupInv
<1>. QED BY <1>1, RollupStepTyped, PTL DEF RollupSpec

-----------------------------------------------------------------------------
(* The mails: types.                                                        *)

MailRunRecords == [pc : {"rest", "gate", "send", "record"}, mail : Mails, saw : Settings, at : Times]

\* The numbers a day and a month are counted with.
LEMMA MailNumbers ==
    /\ DayLength \in Nat \ {0} /\ MonthDays \in Nat \ {0} /\ MaxSlips \in Nat /\ MaxRefused \in Nat /\ LastTime \in Nat
    /\ 0 \in Times /\ NoTime \notin Times /\ Times \subseteq Nat
BY MailAssumption DEF Times, NoTime

LEMMA DayIsTime ==
    ASSUME NEW t \in Times
    PROVE  Day(t) \in Times /\ Day(t) <= t
<1>1. \A x \in Nat, n \in Nat \ {0} : x \div n \in 0 .. x
  OBVIOUS
<1>2. t \in Nat /\ t <= LastTime /\ DayLength \in Nat \ {0} /\ LastTime \in Nat
  BY MailNumbers DEF Times
<1>3. t \div DayLength \in 0 .. t
  BY <1>1, <1>2
<1>. QED BY <1>2, <1>3 DEF Day, Times

LEMMA ReportIsTime ==
    ASSUME NEW t \in Times
    PROVE  Report(t) \in Times
<1>1. \A x \in Nat, n \in Nat \ {0} : x \div n \in 0 .. x
  OBVIOUS
<1>2. Day(t) \in Nat /\ Day(t) <= LastTime /\ MonthDays \in Nat \ {0} /\ LastTime \in Nat
  BY DayIsTime, MailNumbers DEF Times
<1>3. Day(t) \div MonthDays \in 0 .. Day(t)
  BY <1>1, <1>2
<1>. QED BY <1>2, <1>3 DEF Report, Times

LEMMA NotedIsTime ==
    ASSUME NEW m, NEW t \in Times
    PROVE  Noted(m, t) \in Times
BY ReportIsTime DEF Noted

LEMMA SettingsWritten ==
    ASSUME settings \in Settings, NEW m \in Mails, NEW t \in Times
    PROVE  /\ [settings EXCEPT !.tried[m] = t] \in Settings
           /\ [settings EXCEPT !.tried[m] = t].sent = settings.sent
           /\ [settings EXCEPT !.tried[m] = t].tried = [settings.tried EXCEPT ![m] = t]
           /\ [settings EXCEPT !.sent[m] = t] \in Settings
           /\ [settings EXCEPT !.sent[m] = t].tried = settings.tried
           /\ [settings EXCEPT !.sent[m] = t].sent = [settings.sent EXCEPT ![m] = t]
BY DEF Settings

LEMMA MailTypeAtStart == MailInit => MailTypeOK
<1>1. Unset \in Settings /\ AtRest \in MailRunRecords
  BY MailNumbers DEF Unset, Settings, AtRest, MailRunRecords, Mails
<1>. SUFFICES ASSUME MailInit PROVE MailTypeOK
  OBVIOUS
<1>2. mailRun \in [MailRuns -> MailRunRecords] /\ settings \in Settings
  BY <1>1 DEF MailInit
<1>3. mailed \in [Mails -> SUBSET Times]
  BY DEF MailInit
<1>4. time \in Times /\ slips \in 0 .. MaxSlips /\ refused \in 0 .. MaxRefused
  BY MailNumbers DEF MailInit
<1>5. ran \in BOOLEAN /\ lapsed \in BOOLEAN
  BY DEF MailInit
<1>. QED BY <1>2, <1>3, <1>4, <1>5 DEF MailInit, MailTypeOK, MailRunRecords

\* What the steps of a run do to where it is.
LEMMA MailRunMoves ==
    ASSUME MailTypeOK, NEW r \in MailRuns,
           \/ Ends(r)
           \/ \E pc \in {"record"} : Proceeds(r, pc)
           \/ mailRun' = [mailRun EXCEPT ![r].mail = "monthly"]
           \/ mailRun' = [mailRun EXCEPT ![r].pc = "send", ![r].at = time]
           \/ mailRun' = [mailRun EXCEPT ![r] = [AtRest EXCEPT !.pc = "gate", !.saw = settings]]
    PROVE  mailRun' \in [MailRuns -> MailRunRecords]
<1>. DEFINE me == mailRun[r]
<1>1. mailRun \in [MailRuns -> MailRunRecords] /\ me \in MailRunRecords /\ settings \in Settings /\ time \in Times
  BY DEF MailTypeOK, MailRunRecords
<1>2. /\ AtRest \in MailRunRecords /\ [me EXCEPT !.pc = "record"] \in MailRunRecords
      /\ [me EXCEPT !.mail = "monthly"] \in MailRunRecords
      /\ [me EXCEPT !.pc = "send", !.at = time] \in MailRunRecords
      /\ [AtRest EXCEPT !.pc = "gate", !.saw = settings] \in MailRunRecords
  <2>1. AtRest \in MailRunRecords /\ [AtRest EXCEPT !.pc = "gate", !.saw = settings] \in MailRunRecords
    <3>1. Unset \in Settings
      BY DEF Unset, Settings
    <3>. QED BY <1>1, <3>1, MailNumbers DEF AtRest, MailRunRecords, Mails
  <2>. HIDE DEF me
  <2>2. [me EXCEPT !.pc = "record"] \in MailRunRecords /\ [me EXCEPT !.mail = "monthly"] \in MailRunRecords
    BY <1>1 DEF MailRunRecords, Mails
  <2>3. [me EXCEPT !.pc = "send", !.at = time] \in MailRunRecords
    BY <1>1 DEF MailRunRecords
  <2>. QED BY <2>1, <2>2, <2>3
<1>3. \E rec \in MailRunRecords : mailRun' = [mailRun EXCEPT ![r] = rec]
  <2>1. CASE mailRun' = [mailRun EXCEPT ![r].pc = "send", ![r].at = time]
    <3>1. mailRun' = [mailRun EXCEPT ![r] = [me EXCEPT !.pc = "send", !.at = time]]
      BY <1>1, <2>1
    <3>. QED BY <1>2, <3>1
  <2>. QED BY <1>2, <2>1 DEF Ends, Proceeds
<1>. QED BY <1>1, <1>3

LEMMA MailStepTyped ==
    ASSUME MailTypeOK, [MailNext]_mailVars
    PROVE  MailTypeOK'
<1>. USE MailNumbers
<1>1. CASE UNCHANGED mailVars
  BY <1>1 DEF mailVars, MailTypeOK
<1>2. CASE Passes
  <2>1. time' \in Times
    BY <1>2 DEF Passes, MailTypeOK, Times
  <2>2. lapsed' \in BOOLEAN
    <3>1. lapsed' = (lapsed /\ (IsWeeklyDay(time') => IsWeeklyDay(time)))
      BY <1>2 DEF Passes
    <3>. QED BY <3>1, Zenon
  <2>3. ran' = FALSE /\ UNCHANGED <<settings, mailRun, slips, refused, mailed, repeats, hasty>>
    BY <1>2 DEF Passes
  <2>. QED BY <2>1, <2>2, <2>3 DEF MailTypeOK
<1>3. ASSUME NEW r \in MailRuns,
             Begins(r) \/ NotDue(r) \/ TooFewQueries(r) \/ TriesMail(r) \/ Sends(r) \/ Records(r) \/ MailRunDies(r)
      PROVE  MailTypeOK'
  <2>. DEFINE m == mailRun[r].mail
  <2>1. mailRun[r] \in MailRunRecords /\ m \in Mails /\ mailRun[r].at \in Times /\ settings \in Settings /\ time \in Times
    BY DEF MailTypeOK, MailRunRecords
  <2>2. mailRun' \in [MailRuns -> MailRunRecords]
    BY <1>3, MailRunMoves DEF Begins, NotDue, TooFewQueries, TriesMail, Sends, Records, MailRunDies
  <2>3. settings' \in Settings
    <3>1. [settings EXCEPT !.tried[m] = time] \in Settings /\ [settings EXCEPT !.sent[m] = Noted(m, mailRun[r].at)] \in Settings
      BY <2>1, NotedIsTime, SettingsWritten
    <3>. HIDE DEF m
    <3>2. settings' = settings \/ settings' = [settings EXCEPT !.tried[m] = time]
          \/ settings' = [settings EXCEPT !.sent[m] = Noted(m, mailRun[r].at)]
      BY <1>3 DEF m, Begins, NotDue, TooFewQueries, TriesMail, Sends, Records, MailRunDies
    <3>. QED BY <2>1, <3>1, <3>2
  <2>4. slips' \in 0 .. MaxSlips /\ lapsed' \in BOOLEAN
    <3>1. Slip \/ NoSlip \/ (slips' = slips /\ lapsed' = TRUE)
      BY <1>3 DEF Begins, NotDue, NoSlip, TooFewQueries, TriesMail, Sends, Records, MailRunDies
    <3>2. slips \in 0 .. MaxSlips /\ lapsed \in BOOLEAN
      BY DEF MailTypeOK
    <3>3. lapsed' = TRUE \/ lapsed' = lapsed
      BY <3>1 DEF Slip, NoSlip
    <3>4. slips' = slips \/ (slips < MaxSlips /\ slips' = slips + 1)
      BY <3>1 DEF Slip, NoSlip
    <3>5. slips' \in 0 .. MaxSlips
      BY <3>2, <3>4
    <3>6. lapsed' \in BOOLEAN
      BY <3>2, <3>3
    <3>. QED BY <3>5, <3>6
  <2>5. refused' \in 0 .. MaxRefused
    BY <1>3 DEF Begins, NotDue, TooFewQueries, TriesMail, Sends, Records, MailRunDies, MailTypeOK
  <2>6. /\ time' = time /\ ran' \in BOOLEAN
        /\ hasty' \in {hasty, hasty + 1}
        /\ UNCHANGED <<mailed, repeats>> \/ GoesOut(r)
    BY <1>3 DEF Begins, NotDue, TooFewQueries, TriesMail, Sends, Records, MailRunDies, Ends, Proceeds, MailTypeOK
  <2>7. mailed' \in [Mails -> SUBSET Times] /\ repeats' \in Nat
    <3>1. CASE UNCHANGED <<mailed, repeats>>
      BY <3>1 DEF MailTypeOK
    <3>2. CASE GoesOut(r)
      <4>1. repeats' \in Nat
        BY <3>2 DEF GoesOut, MailTypeOK
      <4>2. Day(mailRun[r].at) \in Times /\ Report(mailRun[r].at) \in Times /\ mailed \in [Mails -> SUBSET Times]
        BY <2>1, ReportIsTime, DayIsTime DEF MailTypeOK
      <4>3. \/ mailed' = [mailed EXCEPT ![m] = @ \cup {Day(mailRun[r].at)}]
            \/ mailed' = [mailed EXCEPT ![m] = @ \cup {Report(mailRun[r].at)}]
        BY <3>2 DEF GoesOut
      <4>. QED BY <2>1, <4>1, <4>2, <4>3
    <3>. QED BY <2>6, <3>1, <3>2
  <2>. QED BY <2>1, <2>2, <2>3, <2>4, <2>5, <2>6, <2>7 DEF MailTypeOK, MailRunRecords
<1>. QED BY <1>1, <1>2, <1>3 DEF MailNext

(* The mails' settings, runs and notes keep their type, however many runs   *)
(* are at work at once and whatever goes wrong.                             *)
THEOREM MailTypeCorrect == MailSpec => []MailTypeOK
BY MailTypeAtStart, MailStepTyped, PTL DEF MailSpec

-----------------------------------------------------------------------------
(* The mails: one slip for each hasty try.                                  *)

GateRuns == {r \in MailRuns : mailRun[r].pc = "gate"}
AllFresh == \A r \in GateRuns : mailRun[r].saw.tried = settings.tried
\* Every run at the gates but one paid with a slip for a hasty try of its own;
\* so did that one, when another has tried since it began.
TriesInv ==
    /\ IsFiniteSet(GateRuns)
    /\ hasty + Cardinality(GateRuns) <= slips + 1
    /\ GateRuns = {} \/ ~AllFresh => hasty + Cardinality(GateRuns) <= slips
GateInv == MailTypeOK /\ TriesInv

LEMMA GateCounts ==
    ASSUME GateInv
    PROVE  hasty \in Nat /\ slips \in Nat /\ Cardinality(GateRuns) \in Nat
BY MailNumbers, FS_CardinalityType DEF GateInv, MailTypeOK, TriesInv

LEMMA GateStays ==
    ASSUME GateInv, GateRuns' = GateRuns, slips' \in {slips, slips + 1}, hasty' = hasty,
           AllFresh => AllFresh'
    PROVE  TriesInv'
BY GateCounts DEF GateInv, TriesInv

LEMMA GateLeaves ==
    ASSUME GateInv, NEW r \in GateRuns, GateRuns' = GateRuns \ {r}, slips' \in {slips, slips + 1},
           hasty' = hasty \/ (hasty' = hasty + 1 /\ ~AllFresh)
    PROVE  TriesInv'
<1>. DEFINE c == Cardinality(GateRuns)
<1>1. IsFiniteSet(GateRuns \ {r}) /\ Cardinality(GateRuns \ {r}) = c - 1
  BY FS_RemoveElement DEF GateInv, TriesInv
<1>2. hasty + c <= slips + 1 /\ (~AllFresh => hasty + c <= slips)
  BY DEF GateInv, TriesInv
<1>3. hasty' + (c - 1) <= slips'
  <2>1. c \in Nat /\ hasty \in Nat /\ slips \in Nat
    BY GateCounts
  <2>. HIDE DEF c
  <2>. QED BY <1>2, <2>1
<1>4. IsFiniteSet(GateRuns') /\ Cardinality(GateRuns') = c - 1 /\ hasty' \in Nat /\ slips' \in Nat /\ c - 1 \in Int
  <2>1. c \in Nat /\ hasty \in Nat /\ slips \in Nat
    BY GateCounts
  <2>. HIDE DEF c
  <2>. QED BY <1>1, <2>1
<1>. HIDE DEF c
<1>. QED BY <1>3, <1>4 DEF TriesInv

LEMMA GateJoins ==
    ASSUME GateInv, NEW r \in MailRuns, Begins(r)
    PROVE  TriesInv'
<1>. DEFINE c == Cardinality(GateRuns)
<1>1. PICK me : me = [AtRest EXCEPT !.pc = "gate", !.saw = settings]
  OBVIOUS
<1>2. me.pc = "gate" /\ me.saw = settings
  BY <1>1 DEF AtRest
<1>3. /\ mailRun[r].pc = "rest" /\ mailRun' = [mailRun EXCEPT ![r] = me]
      /\ UNCHANGED <<settings, hasty>>
      /\ (AtWork = {} /\ slips' = slips) \/ slips' = slips + 1
  BY <1>1 DEF Begins, Slip, NoSlip
<1>4. mailRun'[r] = me /\ \A s \in MailRuns \ {r} : mailRun'[s] = mailRun[s]
  BY <1>3 DEF GateInv, MailTypeOK
<1>5. GateRuns' = GateRuns \cup {r} /\ r \notin GateRuns
  BY <1>2, <1>3, <1>4 DEF GateRuns
<1>6. IsFiniteSet(GateRuns \cup {r}) /\ Cardinality(GateRuns \cup {r}) = c + 1
  BY <1>5, FS_AddElement DEF GateInv, TriesInv
<1>7. AllFresh => AllFresh'
  BY <1>2, <1>3, <1>4, <1>5 DEF AllFresh
<1>8. AtWork = {} => GateRuns = {} /\ AllFresh
  BY DEF AtWork, GateRuns, AllFresh
<1>9. c \in Nat /\ hasty \in Nat /\ slips \in Nat /\ hasty + c <= slips + 1
      /\ (GateRuns = {} \/ ~AllFresh => hasty + c <= slips)
  BY GateCounts DEF GateInv, TriesInv
<1>. HIDE DEF c
<1>10. hasty' + (c + 1) <= slips' + 1 /\ (~AllFresh' => hasty' + (c + 1) <= slips')
  BY <1>3, <1>7, <1>8, <1>9
<1>. QED BY <1>5, <1>6, <1>9, <1>10 DEF TriesInv

\* Where a step of a run leaves those at the gates.
LEMMA GateMoves ==
    ASSUME MailTypeOK, NEW r \in MailRuns, NEW me, mailRun' = [mailRun EXCEPT ![r] = me], me.pc # "gate"
    PROVE  /\ GateRuns' = GateRuns \ {r}
           /\ r \notin GateRuns => GateRuns' = GateRuns /\ \A s \in GateRuns : mailRun'[s] = mailRun[s]
<1>1. mailRun'[r] = me /\ \A s \in MailRuns \ {r} : mailRun'[s] = mailRun[s]
  BY DEF MailTypeOK
<1>. QED BY <1>1 DEF GateRuns

LEMMA GateStepKeeps ==
    ASSUME GateInv, [MailNext]_mailVars
    PROVE  GateInv'
<1>1. MailTypeOK' /\ MailTypeOK
  BY MailStepTyped DEF GateInv
<1>2. slips' \in {slips, slips + 1}
  BY DEF MailNext, mailVars, Begins, NotDue, TooFewQueries, TriesMail, Sends, Records, MailRunDies, Passes, Slip, NoSlip
<1>3. ASSUME settings' = settings, mailRun' = mailRun, hasty' = hasty
      PROVE  TriesInv'
  BY <1>1, <1>2, <1>3, GateStays DEF GateInv, GateRuns, AllFresh
<1>4. ASSUME NEW r \in MailRuns, mailRun[r].pc = "gate", Ends(r), hasty' = hasty
      PROVE  TriesInv'
  <2>1. GateRuns' = GateRuns \ {r} /\ r \in GateRuns
    <3>1. AtRest.pc # "gate" /\ mailRun' = [mailRun EXCEPT ![r] = AtRest]
      BY <1>4 DEF Ends, AtRest
    <3>. QED BY <1>1, <1>4, <3>1, GateMoves DEF GateRuns
  <2>. QED BY <1>2, <1>4, <2>1, GateLeaves
<1>5. ASSUME NEW r \in MailRuns, mailRun[r].pc # "gate", settings'.tried = settings.tried, hasty' = hasty,
             Ends(r) \/ Proceeds(r, "record")
      PROVE  TriesInv'
  <2>1. PICK me : me.pc # "gate" /\ mailRun' = [mailRun EXCEPT ![r] = me]
    <3>1. CASE Ends(r)
      <4>1. AtRest.pc # "gate" /\ mailRun' = [mailRun EXCEPT ![r] = AtRest]
        BY <3>1 DEF Ends, AtRest
      <4>. QED BY <4>1
    <3>2. CASE Proceeds(r, "record")
      <4>1. PICK w : w = [mailRun[r] EXCEPT !.pc = "record"]
        OBVIOUS
      <4>2. w.pc = "record"
        BY <1>1, <4>1 DEF MailTypeOK
      <4>3. mailRun' = [mailRun EXCEPT ![r] = w]
        BY <3>2, <4>1 DEF Proceeds
      <4>. QED BY <4>2, <4>3
    <3>. QED BY <1>5, <3>1, <3>2
  <2>2. GateRuns' = GateRuns /\ \A s \in GateRuns : mailRun'[s] = mailRun[s]
    <3>1. r \notin GateRuns
      BY <1>5 DEF GateRuns
    <3>. QED BY <1>1, <2>1, <3>1, GateMoves
  <2>3. AllFresh => AllFresh'
    BY <1>5, <2>2 DEF AllFresh
  <2>. QED BY <1>2, <1>5, <2>2, <2>3, GateStays
<1>6. ASSUME NEW r \in MailRuns, NotDue(r)
      PROVE  TriesInv'
  <2>1. mailRun[r].pc = "gate" /\ UNCHANGED <<settings, hasty>>
    BY <1>6 DEF NotDue
  <2>2. CASE mailRun' = [mailRun EXCEPT ![r].mail = "monthly"]
    <3>1. \A s \in MailRuns : mailRun'[s].pc = mailRun[s].pc /\ mailRun'[s].saw = mailRun[s].saw
      BY <1>1, <2>2 DEF MailTypeOK
    <3>2. GateRuns' = GateRuns
      BY <3>1 DEF GateRuns
    <3>3. AllFresh => AllFresh'
      BY <2>1, <3>1, <3>2 DEF AllFresh, GateRuns
    <3>. QED BY <1>2, <2>1, <3>2, <3>3, GateStays
  <2>. QED BY <1>4, <1>6, <2>1, <2>2 DEF NotDue
<1>7. ASSUME NEW r \in MailRuns, TriesMail(r)
      PROVE  TriesInv'
  <2>. DEFINE m == mailRun[r].mail
  <2>1. mailRun[r].pc = "gate" /\ MailDue(m, time, mailRun[r].saw) /\ r \in GateRuns
    BY <1>7 DEF TriesMail, GateRuns
  <2>2. CASE Ends(r) /\ hasty' = hasty
    BY <1>4, <2>1, <2>2
  <2>3. CASE /\ mailRun' = [mailRun EXCEPT ![r].pc = "send", ![r].at = time]
             /\ hasty' = (IF Elapsed(time, settings.tried[m], RetryAfter) THEN hasty ELSE hasty + 1)
    <3>1. PICK me : me = [mailRun[r] EXCEPT !.pc = "send", !.at = time]
      OBVIOUS
    <3>2. me.pc = "send" /\ mailRun' = [mailRun EXCEPT ![r] = me]
      BY <1>1, <2>3, <3>1 DEF MailTypeOK
    <3>3. GateRuns' = GateRuns \ {r}
      BY <1>1, <3>2, GateMoves
    <3>4. AllFresh => Elapsed(time, settings.tried[m], RetryAfter)
      BY <2>1 DEF AllFresh, MailDue, MayRetry
    <3>. QED BY <1>2, <2>1, <2>3, <3>3, <3>4, GateLeaves
  <2>. QED BY <1>7, <2>2, <2>3 DEF TriesMail
<1>8. ASSUME NEW r \in MailRuns, Sends(r) \/ Records(r)
      PROVE  TriesInv'
  <2>1. mailRun[r].pc # "gate" /\ hasty' = hasty /\ (Ends(r) \/ Proceeds(r, "record"))
    BY <1>8 DEF Sends, Records
  <2>2. settings'.tried = settings.tried
    <3>. DEFINE m == mailRun[r].mail
                at == mailRun[r].at
    <3>1. settings \in Settings /\ m \in Mails /\ at \in Times
      BY <1>1 DEF MailTypeOK
    <3>2. settings' = settings \/ settings' = [settings EXCEPT !.sent[m] = Noted(m, at)]
      BY <1>8 DEF Sends, Records
    <3>. HIDE DEF m, at
    <3>3. Noted(m, at) \in Times
      BY <3>1, NotedIsTime
    <3>. QED BY <3>1, <3>2, <3>3, SettingsWritten
  <2>. QED BY <1>5, <2>1, <2>2
<1>9. ASSUME NEW r \in MailRuns, TooFewQueries(r) \/ MailRunDies(r)
      PROVE  TriesInv'
  BY <1>4, <1>5, <1>9 DEF TooFewQueries, MailRunDies
<1>10. ASSUME NEW r \in MailRuns, Begins(r)
       PROVE  TriesInv'
  BY <1>10, GateJoins
<1>11. UNCHANGED mailVars \/ Passes => settings' = settings /\ mailRun' = mailRun /\ hasty' = hasty
  BY DEF mailVars, Passes
<1>12. TriesInv'
  <2>1. CASE UNCHANGED mailVars \/ Passes
    BY <1>3, <1>11, <2>1
  <2>2. ASSUME NEW r \in MailRuns,
               Begins(r) \/ NotDue(r) \/ TooFewQueries(r) \/ TriesMail(r) \/ Sends(r) \/ Records(r) \/ MailRunDies(r)
        PROVE  TriesInv'
    BY <1>6, <1>7, <1>8, <1>9, <1>10, <2>2
  <2>. QED BY <2>1, <2>2 DEF MailNext
<1>. QED BY <1>1, <1>12 DEF GateInv

(* A mail is tried too soon after another try of it once for each write,    *)
(* answer or run that is lost or late, and no more (hasty <= slips), for     *)
(* every number of runs at work at once.                                    *)
THEOREM TriesAreSpaced == MailSpec => [](hasty <= slips)
<1>1. MailInit => GateInv
  <2>. SUFFICES ASSUME MailInit PROVE TriesInv
    BY MailTypeAtStart DEF GateInv
  <2>1. GateRuns = {}
    BY DEF MailInit, GateRuns, AtRest
  <2>. QED BY <2>1, FS_EmptySet DEF MailInit, TriesInv
<1>2. GateInv => hasty <= slips
  <2>. SUFFICES ASSUME GateInv PROVE hasty <= slips
    OBVIOUS
  <2>. DEFINE c == Cardinality(GateRuns)
  <2>1. c \in Nat /\ hasty \in Nat /\ slips \in Nat
    BY GateCounts
  <2>2. hasty + c <= slips + 1 /\ (GateRuns = {} => hasty + c <= slips)
    BY DEF GateInv, TriesInv
  <2>3. GateRuns # {} => c # 0
    BY FS_EmptySet DEF GateInv, TriesInv
  <2>. HIDE DEF c
  <2>. QED BY <2>1, <2>2, <2>3
<1>. QED BY <1>1, <1>2, GateStepKeeps, PTL DEF MailSpec

-----------------------------------------------------------------------------
(* The mails: one slip for each repeat.                                     *)

\* The day or the month a mail is of, and the last one that a note of it is of.
Issue(m, t) == IF m = "weekly" THEN Day(t) ELSE Report(t)
UpTo(m, v) == IF m = "weekly" THEN Day(v) ELSE v
\* With `v` noted as sent, a run that reads it sends nothing of `out` again.
Spares(m, v, out) == \A k \in out[m] : k <= UpTo(m, v)
Noting(me, m) == me.pc = "record" /\ me.mail = m
BadNote(me, m, out) == Noting(me, m) /\ ~Spares(m, Noted(m, me.at), out)
\* A mail on its way that is out, and behind one that is out.
Doomed(me, m, out) ==
    me.pc = "send" /\ me.mail = m /\ Issue(m, me.at) \in out[m] /\ ~Spares(m, Noted(m, me.at), out)

\* When all runs are through, the next one may send mail m again.
Exposed(m) ==
    \/ \E r \in MailRuns : BadNote(mailRun[r], m, mailed) \/ Doomed(mailRun[r], m, mailed)
    \/ ~Spares(m, settings.sent[m], mailed) /\ \A r \in MailRuns : ~Noting(mailRun[r], m)
OpenRuns == {r \in MailRuns : mailRun[r].pc \in {"gate", "send"}}
\* One run that has not sent goes by what is noted, and nobody is ahead of it.
OneIsFree ==
    /\ OpenRuns # {} /\ \A r \in MailRuns : mailRun[r].pc # "record"
    /\ \A r \in OpenRuns : mailRun[r].saw.sent = settings.sent /\ \A m \in Mails : ~Doomed(mailRun[r], m, mailed)
OwedFor(m) == IF Exposed(m) THEN 1 ELSE 0
RepeatsPaid ==
    repeats + Cardinality(OpenRuns) + OwedFor("weekly") + OwedFor("monthly") <= slips + (IF OneIsFree THEN 1 ELSE 0)

\* What a run sends was not sent by what it read, and nothing is out before its time.
SendsNew(me, t) == me.pc = "send" => me.at <= t /\ UpTo(me.mail, me.saw.sent[me.mail]) < Issue(me.mail, me.at)
MailsAreNew ==
    /\ \A r \in MailRuns : SendsNew(mailRun[r], time)
    /\ \A m \in Mails : \A k \in mailed[m] : k <= Issue(m, time)
RepeatInv == MailTypeOK /\ MailsAreNew /\ IsFiniteSet(OpenRuns) /\ RepeatsPaid

LEMMA MailDays ==
    /\ \A t \in Int : Day(t) \in Int /\ Day(t) * DayLength <= t /\ t < Day(t) * DayLength + DayLength
    /\ \A t \in Int, d \in Int : d <= Day(t) <=> d * DayLength <= t
    /\ \A t, u \in Int : t <= u => Day(t) <= Day(u) /\ Report(t) <= Report(u)
<1>1. DayLength \in Nat \ {0} /\ MonthDays \in Nat \ {0}
  BY MailNumbers
<1>2. \A t \in Int : Day(t) \in Int
  BY <1>1, Division DEF Day
<1>3. \A t \in Int, d \in Int : d <= Day(t) <=> d * DayLength <= t
  BY <1>1, Division DEF Day
<1>4. ASSUME NEW t \in Int
      PROVE  Day(t) * DayLength <= t /\ t < Day(t) * DayLength + DayLength
  <2>. DEFINE d == Day(t)
  <2>1. d \in Int /\ d + 1 \in Int
    BY <1>2
  <2>2. (d <= d <=> d * DayLength <= t) /\ (d + 1 <= d <=> (d + 1) * DayLength <= t)
    BY <1>3, <2>1
  <2>. HIDE DEF d
  <2>3. (d + 1) * DayLength = d * DayLength + DayLength /\ d * DayLength \in Int
    BY <1>1, <2>1
  <2>4. d * DayLength <= t /\ ~(d * DayLength + DayLength <= t)
    BY <2>1, <2>2, <2>3
  <2>. QED BY <1>1, <2>3, <2>4 DEF d
<1>5. ASSUME NEW t \in Int, NEW u \in Int, t <= u
      PROVE  Day(t) <= Day(u) /\ Report(t) <= Report(u)
  <2>1. Day(t) <= Day(u)
    BY <1>1, <1>5, Division DEF Day
  <2>. QED BY <1>1, <1>2, <2>1, Division DEF Report
<1>. QED BY <1>2, <1>3, <1>4, <1>5

LEMMA IssueNumbers ==
    /\ \A m \in Mails, t \in Times : /\ Issue(m, t) \in Times /\ Issue(m, t) \in Int
                                     /\ UpTo(m, Noted(m, t)) = Issue(m, t) /\ Noted(m, t) \in Int
    /\ \A m \in Mails, v \in Times \cup {NoTime} : v \in Int /\ UpTo(m, v) \in Int
    /\ \A m \in Mails, t, u \in Times : t <= u => Issue(m, t) <= Issue(m, u)
<1>1. Times \subseteq Nat /\ \A t \in Times : t \in Int
  BY MailNumbers
<1>2. \A v \in Times \cup {NoTime} : v \in Int /\ Day(v) \in Int
  <2>1. \A v \in Times \cup {NoTime} : v \in Int
    BY <1>1 DEF NoTime
  <2>. QED BY <2>1, MailDays
<1>3. \A t \in Times : Day(t) \in Times /\ Report(t) \in Times
  BY DayIsTime, ReportIsTime
<1>4. \A m \in Mails, t \in Times : /\ Issue(m, t) \in Times /\ Issue(m, t) \in Int
                                    /\ UpTo(m, Noted(m, t)) = Issue(m, t) /\ Noted(m, t) \in Int
  BY <1>1, <1>3 DEF Issue, UpTo, Noted
<1>5. \A m \in Mails, v \in Times \cup {NoTime} : v \in Int /\ UpTo(m, v) \in Int
  BY <1>2 DEF UpTo
<1>6. \A m \in Mails, t, u \in Times : t <= u => Issue(m, t) <= Issue(m, u)
  BY <1>1, MailDays DEF Issue
<1>. QED BY <1>4, <1>5, <1>6

\* A mail that is due is of a later day or month than the one that is noted.
LEMMA DueIsNew ==
    ASSUME NEW m \in Mails, NEW t \in Times, NEW s \in Settings, MailDue(m, t, s)
    PROVE  UpTo(m, s.sent[m]) < Issue(m, t)
<1>. DEFINE v == s.sent[m]
<1>1. t \in Nat /\ v \in Times \cup {NoTime} /\ NoTime = -1 /\ Times \subseteq Nat
  BY MailNumbers DEF Settings, NoTime
<1>2. CASE m = "monthly"
  BY <1>1, <1>2 DEF MailDue, monthlyReportDue, UpTo, Issue
<1>3. CASE m = "weekly"
  <2>1. Elapsed(t, v, MinGap)
    BY <1>3 DEF MailDue, isWeeklyDue
  <2>2. /\ t \in Int /\ v \in Int /\ DayLength \in Nat \ {0} /\ MinGap \in Nat /\ DayLength <= MinGap
        /\ Day(t) \in Int /\ Day(v) \in Int
    <3>1. t \in Int /\ v \in Int
      BY <1>1, IssueNumbers
    <3>. QED BY <3>1, MailDays, MailNumbers, MailAssumption
  <2>. HIDE DEF v
  <2>3. CASE v = NoTime
    <3>1. 0 <= Day(t) /\ ~(0 <= Day(v))
      <4>1. 0 * DayLength = 0 /\ 0 <= t /\ ~(0 <= v)
        BY <1>1, <2>2, <2>3
      <4>. QED BY <2>2, <4>1, MailDays
    <3>2. Day(v) < Day(t)
      BY <2>2, <3>1
    <3>. QED BY <1>3, <3>2 DEF UpTo, Issue, v
  <2>4. CASE v # NoTime
    <3>1. PICK d \in Int : d = Day(v)
      BY <2>2
    <3>2. d * DayLength <= v /\ v + DayLength <= t
      <4>1. t - v >= MinGap
        BY <2>1, <2>4 DEF Elapsed
      <4>. QED BY <2>2, <3>1, <4>1, MailDays
    <3>3. (d + 1) * DayLength = d * DayLength + DayLength /\ d * DayLength \in Int
      BY <2>2
    <3>4. (d + 1) * DayLength <= t
      BY <2>2, <3>2, <3>3
    <3>5. d + 1 <= Day(t)
      BY <2>2, <3>4, MailDays
    <3>6. Day(v) < Day(t)
      BY <2>2, <3>1, <3>5
    <3>. QED BY <1>3, <3>6 DEF UpTo, Issue, v
  <2>. QED BY <2>3, <2>4
<1>. QED BY <1>2, <1>3 DEF Mails

-----------------------------------------------------------------------------
(* The mails: what is owed, from one state to the next.                     *)

LEMMA RunReplaced ==
    ASSUME MailTypeOK, NEW r \in MailRuns, NEW me, mailRun' = [mailRun EXCEPT ![r] = me]
    PROVE  /\ mailRun'[r] = me /\ \A s \in MailRuns \ {r} : mailRun'[s] = mailRun[s]
           /\ me.pc \in {"gate", "send"} => OpenRuns' = OpenRuns \cup {r}
           /\ me.pc \notin {"gate", "send"} => OpenRuns' = OpenRuns \ {r}
<1>1. mailRun'[r] = me /\ \A s \in MailRuns \ {r} : mailRun'[s] = mailRun[s]
  BY DEF MailTypeOK
<1>. QED BY <1>1 DEF OpenRuns

LEMMA NoteNumbers ==
    ASSUME MailTypeOK
    PROVE  /\ \A n \in Mails : settings.sent[n] \in Times \cup {NoTime}
           /\ \A n \in Mails : settings.sent[n] \in Int /\ UpTo(n, settings.sent[n]) \in Int
           /\ \A s \in MailRuns : mailRun[s].at \in Times /\ mailRun[s].mail \in Mails
           /\ \A n \in Mails, s \in MailRuns : /\ Noted(n, mailRun[s].at) \in Int /\ Issue(n, mailRun[s].at) \in Int
                                               /\ UpTo(n, Noted(n, mailRun[s].at)) = Issue(n, mailRun[s].at)
           /\ \A n \in Mails : mailed[n] \subseteq Int
           /\ time \in Times
<1>1. \A n \in Mails : settings.sent[n] \in Times \cup {NoTime}
  BY DEF MailTypeOK, Settings
<1>2. \A s \in MailRuns : mailRun[s].at \in Times /\ mailRun[s].mail \in Mails
  BY DEF MailTypeOK
<1>3. \A n \in Mails : mailed[n] \subseteq Int
  <2>1. \A n \in Mails : mailed[n] \subseteq Times
    BY DEF MailTypeOK
  <2>2. Times \subseteq Int
    BY MailNumbers
  <2>. QED BY <2>1, <2>2
<1>4. time \in Times
  BY DEF MailTypeOK
<1>. QED BY <1>1, <1>2, <1>3, <1>4, IssueNumbers

LEMMA ExposedBefore ==
    ASSUME MailTypeOK, NEW r \in MailRuns, NEW me, mailRun' = [mailRun EXCEPT ![r] = me], NEW n \in Mails,
           settings'.sent[n] = settings.sent[n], mailed'[n] = mailed[n],
           Noting(mailRun[r], n) => Noting(me, n),
           BadNote(me, n, mailed) => Exposed(n),
           Doomed(me, n, mailed) => Exposed(n),
           Exposed(n)'
    PROVE  Exposed(n)
<1>1. mailRun'[r] = me /\ \A s \in MailRuns \ {r} : mailRun'[s] = mailRun[s]
  BY RunReplaced
<1>2. \A v : Spares(n, v, mailed') <=> Spares(n, v, mailed)
  BY DEF Spares
<1>3. \A you : (BadNote(you, n, mailed') <=> BadNote(you, n, mailed)) /\ (Doomed(you, n, mailed') <=> Doomed(you, n, mailed))
  BY <1>2 DEF BadNote, Doomed
<1>4. CASE \E s \in MailRuns : BadNote(mailRun'[s], n, mailed') \/ Doomed(mailRun'[s], n, mailed')
  <2>1. PICK s \in MailRuns : BadNote(mailRun'[s], n, mailed) \/ Doomed(mailRun'[s], n, mailed)
    BY <1>3, <1>4
  <2>2. s # r => BadNote(mailRun[s], n, mailed) \/ Doomed(mailRun[s], n, mailed)
    BY <1>1, <2>1
  <2>3. s = r => BadNote(me, n, mailed) \/ Doomed(me, n, mailed)
    BY <1>1, <2>1
  <2>. QED BY <2>2, <2>3 DEF Exposed
<1>5. CASE ~Spares(n, settings'.sent[n], mailed') /\ \A s \in MailRuns : ~Noting(mailRun'[s], n)
  <2>1. \A s \in MailRuns : ~Noting(mailRun[s], n)
    BY <1>1, <1>5
  <2>2. ~Spares(n, settings.sent[n], mailed)
    BY <1>2, <1>5
  <2>. QED BY <2>1, <2>2 DEF Exposed
<1>6. Exposed(n)' <=>
        \/ \E s \in MailRuns : BadNote(mailRun'[s], n, mailed') \/ Doomed(mailRun'[s], n, mailed')
        \/ ~Spares(n, settings'.sent[n], mailed') /\ \A s \in MailRuns : ~Noting(mailRun'[s], n)
  BY DEF Exposed, BadNote, Doomed, Noting, Spares
<1>. QED BY <1>4, <1>5, <1>6

LEMMA OwedNumbers ==
    ASSUME RepeatInv
    PROVE  /\ repeats \in Nat /\ slips \in Nat /\ Cardinality(OpenRuns) \in Nat
           /\ \A n : OwedFor(n) \in {0, 1} /\ OwedFor(n)' \in {0, 1}
           /\ \A n : Exposed(n) <=> OwedFor(n) = 1
           /\ \A n : Exposed(n)' <=> OwedFor(n)' = 1
<1>1. repeats \in Nat /\ slips \in Nat /\ Cardinality(OpenRuns) \in Nat
  BY MailNumbers, FS_CardinalityType DEF RepeatInv, MailTypeOK
<1>. QED BY <1>1 DEF OwedFor

\* Where no mail is worse off, neither is what is owed.
LEMMA OwedBefore ==
    ASSUME RepeatInv, \A n \in Mails : Exposed(n)' => Exposed(n)
    PROVE  OwedFor("weekly")' <= OwedFor("weekly") /\ OwedFor("monthly")' <= OwedFor("monthly")
<1>1. (OwedFor("weekly")' = 1 => OwedFor("weekly") = 1) /\ (OwedFor("monthly")' = 1 => OwedFor("monthly") = 1)
  BY OwedNumbers DEF Mails
<1>. QED BY <1>1, OwedNumbers

\* One run stays free when nothing is noted or sent, and no run comes to be behind.
LEMMA StaysFree ==
    ASSUME MailTypeOK, NEW r \in MailRuns, NEW me, mailRun' = [mailRun EXCEPT ![r] = me],
           me.pc # "record", me.pc \in {"gate", "send"} => /\ me.saw.sent = settings.sent
                                                           /\ \A n \in Mails : ~Doomed(me, n, mailed),
           settings'.sent = settings.sent, mailed' = mailed, OpenRuns' # {},
           \A s \in MailRuns : mailRun[s].pc # "record",
           \A s \in OpenRuns : mailRun[s].saw.sent = settings.sent /\ \A n \in Mails : ~Doomed(mailRun[s], n, mailed)
    PROVE  OneIsFree'
<1>1. mailRun'[r] = me /\ \A s \in MailRuns \ {r} : mailRun'[s] = mailRun[s]
  BY RunReplaced
<1>2. \A s \in MailRuns : mailRun'[s].pc # "record"
  BY <1>1
<1>3. \A s \in OpenRuns' : mailRun'[s].saw.sent = settings'.sent /\ \A n \in Mails : ~Doomed(mailRun'[s], n, mailed')
  <2>1. ASSUME NEW s \in OpenRuns'
        PROVE  mailRun'[s].saw.sent = settings.sent /\ \A n \in Mails : ~Doomed(mailRun'[s], n, mailed)
    <3>1. s \in MailRuns /\ mailRun'[s].pc \in {"gate", "send"}
      BY DEF OpenRuns
    <3>2. CASE s = r
      BY <1>1, <3>1, <3>2
    <3>3. CASE s # r
      BY <1>1, <3>1, <3>3 DEF OpenRuns
    <3>. QED BY <3>2, <3>3
  <2>. QED BY <2>1
<1>. QED BY <1>2, <1>3 DEF OneIsFree, Doomed, Spares

\* A run ends that has sent nothing.
LEMMA OpenEnds ==
    ASSUME RepeatInv, NEW r \in OpenRuns, Ends(r), settings'.sent = settings.sent, mailed' = mailed,
           repeats' = repeats, slips' \in {slips, slips + 1}
    PROVE  IsFiniteSet(OpenRuns)' /\ RepeatsPaid'
<1>. DEFINE c == Cardinality(OpenRuns)
            w == OwedFor("weekly")
            m == OwedFor("monthly")
<1>1. MailTypeOK /\ r \in MailRuns /\ mailRun' = [mailRun EXCEPT ![r] = AtRest] /\ AtRest.pc = "rest"
  BY DEF RepeatInv, OpenRuns, Ends, AtRest
<1>2. OpenRuns' = OpenRuns \ {r}
  BY <1>1, RunReplaced
<1>3. IsFiniteSet(OpenRuns \ {r}) /\ Cardinality(OpenRuns \ {r}) = c - 1
  BY FS_RemoveElement DEF RepeatInv
<1>4. ASSUME NEW n \in Mails, Exposed(n)'
      PROVE  Exposed(n)
  <2>1. ~Noting(mailRun[r], n) /\ ~BadNote(AtRest, n, mailed) /\ ~Doomed(AtRest, n, mailed)
    BY <1>1 DEF OpenRuns, Noting, BadNote, Doomed
  <2>. QED BY <1>1, <1>4, <2>1, ExposedBefore
<1>5. OneIsFree /\ OpenRuns' # {} => OneIsFree'
  <2>. SUFFICES ASSUME OneIsFree, OpenRuns' # {} PROVE OneIsFree'
    OBVIOUS
  <2>. QED BY <1>1, StaysFree DEF OneIsFree
<1>6. OpenRuns' = {} => c - 1 = 0
  BY <1>2, <1>3, FS_EmptySet
<1>7. /\ repeats \in Nat /\ slips \in Nat /\ c \in Nat /\ w \in {0, 1} /\ m \in {0, 1} /\ w' \in {0, 1} /\ m' \in {0, 1}
      /\ w' <= w /\ m' <= m
  BY <1>4, OwedBefore, OwedNumbers
<1>8. repeats + c + w + m <= slips + (IF OneIsFree THEN 1 ELSE 0)
  BY DEF RepeatInv, RepeatsPaid
<1>9. repeats + (c - 1) + OwedFor("weekly")' + OwedFor("monthly")' <= slips' + (IF OneIsFree' THEN 1 ELSE 0)
  <2>. HIDE DEF c, w, m
  <2>1. CASE OpenRuns' = {}
    BY <1>6, <1>7, <1>8, <2>1 DEF w, m
  <2>. QED BY <1>5, <1>7, <1>8, <2>1 DEF w, m
<1>. QED BY <1>2, <1>3, <1>9 DEF RepeatsPaid

\* A run that has sent nothing goes on to do so, by what it read.
LEMMA OpenStays ==
    ASSUME RepeatInv, NEW r \in OpenRuns, NEW me, mailRun' = [mailRun EXCEPT ![r] = me], me.pc \in {"gate", "send"},
           me.saw = mailRun[r].saw,
           \A n \in Mails : ~Doomed(me, n, mailed), settings'.sent = settings.sent, mailed' = mailed,
           repeats' = repeats, slips' = slips
    PROVE  IsFiniteSet(OpenRuns)' /\ RepeatsPaid'
<1>1. MailTypeOK /\ r \in MailRuns /\ mailRun[r].pc \in {"gate", "send"}
  BY DEF RepeatInv, OpenRuns
<1>2. OpenRuns' = OpenRuns /\ mailRun'[r] = me /\ \A s \in MailRuns \ {r} : mailRun'[s] = mailRun[s]
  <2>1. /\ OpenRuns' = OpenRuns \cup {r}
        /\ mailRun'[r] = me /\ \A s \in MailRuns \ {r} : mailRun'[s] = mailRun[s]
    BY <1>1, RunReplaced
  <2>2. OpenRuns \cup {r} = OpenRuns
    OBVIOUS
  <2>. QED BY <2>1, <2>2
<1>3. ASSUME NEW n \in Mails, Exposed(n)'
      PROVE  Exposed(n)
  <2>1. ~Noting(mailRun[r], n) /\ ~BadNote(me, n, mailed)
    BY <1>1 DEF Noting, BadNote
  <2>. QED BY <1>1, <1>3, <2>1, ExposedBefore
<1>4. OneIsFree => OneIsFree'
  <2>. SUFFICES ASSUME OneIsFree PROVE OneIsFree'
    OBVIOUS
  <2>1. me.pc # "record" /\ me.saw.sent = settings.sent /\ OpenRuns' # {}
    BY <1>2 DEF OneIsFree
  <2>. QED BY <1>1, <2>1, StaysFree DEF OneIsFree
<1>5. OwedFor("weekly")' <= OwedFor("weekly") /\ OwedFor("monthly")' <= OwedFor("monthly")
  BY <1>3, OwedBefore
<1>. QED BY <1>2, <1>4, <1>5, OwedNumbers DEF RepeatInv, RepeatsPaid

\* A run begins: alone, and by what is noted; or beside another, for a slip.
LEMMA OpenJoins ==
    ASSUME RepeatInv, NEW r \in MailRuns, Begins(r)
    PROVE  IsFiniteSet(OpenRuns)' /\ RepeatsPaid'
<1>. DEFINE c == Cardinality(OpenRuns)
<1>0. MailTypeOK
  BY DEF RepeatInv
<1>1. PICK me : me = [AtRest EXCEPT !.pc = "gate", !.saw = settings]
  OBVIOUS
<1>2. me.pc = "gate" /\ me.saw = settings
  BY <1>1 DEF AtRest
<1>3. /\ mailRun[r].pc = "rest" /\ mailRun' = [mailRun EXCEPT ![r] = me] /\ UNCHANGED <<settings, mailed, repeats>>
      /\ (AtWork = {} /\ slips' = slips) \/ slips' = slips + 1
  BY <1>1 DEF Begins, Slip, NoSlip
<1>4. /\ OpenRuns' = OpenRuns \cup {r} /\ r \notin OpenRuns
      /\ mailRun'[r] = me /\ \A s \in MailRuns \ {r} : mailRun'[s] = mailRun[s]
  <2>1. r \notin OpenRuns
    BY <1>3 DEF OpenRuns
  <2>. QED BY <1>0, <1>2, <1>3, <2>1, RunReplaced
<1>5. IsFiniteSet(OpenRuns \cup {r}) /\ Cardinality(OpenRuns \cup {r}) = c + 1
  BY <1>4, FS_AddElement DEF RepeatInv
<1>6. ASSUME NEW n \in Mails, Exposed(n)'
      PROVE  Exposed(n)
  <2>1. ~Noting(mailRun[r], n) /\ ~BadNote(me, n, mailed) /\ ~Doomed(me, n, mailed)
    BY <1>2, <1>3 DEF Noting, BadNote, Doomed
  <2>. QED BY <1>0, <1>3, <1>6, <2>1, ExposedBefore
<1>7. OneIsFree \/ AtWork = {} => OneIsFree'
  <2>. SUFFICES ASSUME OneIsFree \/ AtWork = {} PROVE OneIsFree'
    OBVIOUS
  <2>1. /\ \A s \in MailRuns : mailRun[s].pc # "record"
        /\ \A s \in OpenRuns : mailRun[s].saw.sent = settings.sent /\ \A n \in Mails : ~Doomed(mailRun[s], n, mailed)
    BY DEF OneIsFree, AtWork, OpenRuns
  <2>2. /\ me.pc # "record" /\ me.saw.sent = settings.sent /\ OpenRuns' # {}
        /\ \A n \in Mails : ~Doomed(me, n, mailed)
    BY <1>2, <1>4 DEF Doomed
  <2>. QED BY <1>0, <1>3, <2>1, <2>2, StaysFree
<1>8. AtWork = {} => c = 0 /\ ~OneIsFree
  <2>1. AtWork = {} => OpenRuns = {}
    BY DEF AtWork, OpenRuns
  <2>. QED BY <2>1, FS_EmptySet DEF OneIsFree
<1>9. OwedFor("weekly")' <= OwedFor("weekly") /\ OwedFor("monthly")' <= OwedFor("monthly")
  BY <1>6, OwedBefore
<1>10. repeats + (c + 1) + OwedFor("weekly")' + OwedFor("monthly")' <= slips' + (IF OneIsFree' THEN 1 ELSE 0)
  <2>1. /\ repeats \in Nat /\ slips \in Nat /\ c \in Nat
        /\ repeats + c + OwedFor("weekly") + OwedFor("monthly") <= slips + (IF OneIsFree THEN 1 ELSE 0)
    BY OwedNumbers DEF RepeatInv, RepeatsPaid
  <2>. HIDE DEF c
  <2>2. CASE AtWork = {} /\ slips' = slips
    BY <1>7, <1>8, <1>9, <2>1, <2>2, OwedNumbers
  <2>3. CASE slips' = slips + 1
    BY <1>7, <1>9, <2>1, <2>3, OwedNumbers
  <2>. QED BY <1>3, <2>2, <2>3
<1>. QED BY <1>3, <1>4, <1>5, <1>10 DEF RepeatsPaid

\* A run that sent ends: its note is written as sent, or is lost.
LEMMA NoteEnds ==
    ASSUME RepeatInv, NEW r \in MailRuns, mailRun[r].pc = "record", Ends(r), mailed' = mailed, repeats' = repeats,
           NEW x, x = mailRun[r].mail, NEW noted, noted = [settings.sent EXCEPT ![x] = Noted(x, mailRun[r].at)],
           \/ slips' = slips /\ settings'.sent = noted
           \/ slips' = slips + 1 /\ settings'.sent \in {settings.sent, noted}
    PROVE  IsFiniteSet(OpenRuns)' /\ RepeatsPaid'
<1>0. MailTypeOK /\ x \in Mails /\ settings.sent \in [Mails -> Times \cup {NoTime}]
  BY DEF RepeatInv, MailTypeOK, Settings
<1>1. mailRun' = [mailRun EXCEPT ![r] = AtRest] /\ AtRest.pc = "rest"
  BY DEF Ends, AtRest
<1>2. OpenRuns' = OpenRuns /\ mailRun'[r] = AtRest /\ \A s \in MailRuns \ {r} : mailRun'[s] = mailRun[s]
  <2>1. /\ OpenRuns' = OpenRuns \ {r}
        /\ mailRun'[r] = AtRest /\ \A s \in MailRuns \ {r} : mailRun'[s] = mailRun[s]
    BY <1>0, <1>1, RunReplaced
  <2>2. OpenRuns \ {r} = OpenRuns
    BY DEF OpenRuns
  <2>. QED BY <2>1, <2>2
<1>3. ~OneIsFree
  BY DEF OneIsFree
<1>4. noted[x] = Noted(x, mailRun[r].at) /\ \A n \in Mails \ {x} : noted[n] = settings.sent[n]
  BY <1>0
<1>5. ASSUME NEW n \in Mails, n # x, Exposed(n)'
      PROVE  Exposed(n)
  <2>1. ~Noting(mailRun[r], n) /\ ~BadNote(AtRest, n, mailed) /\ ~Doomed(AtRest, n, mailed)
    BY <1>1, <1>5 DEF Noting, BadNote, Doomed
  <2>2. settings'.sent[n] = settings.sent[n]
    BY <1>4, <1>5
  <2>. QED BY <1>0, <1>1, <1>5, <2>1, <2>2, ExposedBefore
<1>6. ASSUME settings'.sent = noted, Exposed(x)'
      PROVE  Exposed(x)
  <2>1. BadNote(mailRun[r], x, mailed) <=> ~Spares(x, settings'.sent[x], mailed')
    BY <1>4, <1>6 DEF BadNote, Noting
  <2>2. \/ \E s \in MailRuns : BadNote(mailRun'[s], x, mailed') \/ Doomed(mailRun'[s], x, mailed')
        \/ ~Spares(x, settings'.sent[x], mailed')
    BY <1>6 DEF Exposed, BadNote, Doomed, Noting, Spares
  <2>3. CASE \E s \in MailRuns : BadNote(mailRun'[s], x, mailed') \/ Doomed(mailRun'[s], x, mailed')
    <3>1. PICK s \in MailRuns : BadNote(mailRun'[s], x, mailed') \/ Doomed(mailRun'[s], x, mailed')
      BY <2>3
    <3>2. ~BadNote(AtRest, x, mailed) /\ ~Doomed(AtRest, x, mailed)
      BY <1>1 DEF BadNote, Noting, Doomed
    <3>3. BadNote(mailRun[s], x, mailed) \/ Doomed(mailRun[s], x, mailed)
      BY <1>2, <3>1, <3>2
    <3>. QED BY <3>3 DEF Exposed
  <2>4. CASE ~Spares(x, settings'.sent[x], mailed')
    BY <2>1, <2>4 DEF Exposed
  <2>. QED BY <2>2, <2>3, <2>4
<1>7. /\ \A n \in Mails \ {x} : OwedFor(n)' <= OwedFor(n)
      /\ settings'.sent = noted => OwedFor(x)' <= OwedFor(x)
      /\ OwedFor(x)' <= OwedFor(x) + 1
  <2>1. /\ \A n \in Mails \ {x} : OwedFor(n)' = 1 => OwedFor(n) = 1
        /\ settings'.sent = noted => (OwedFor(x)' = 1 => OwedFor(x) = 1)
    BY <1>5, <1>6, OwedNumbers
  <2>. QED BY <2>1, OwedNumbers
<1>8. /\ OwedFor("weekly")' + OwedFor("monthly")' <= OwedFor("weekly") + OwedFor("monthly") + 1
      /\ settings'.sent = noted => OwedFor("weekly")' + OwedFor("monthly")' <= OwedFor("weekly") + OwedFor("monthly")
  <2>1. CASE x = "weekly"
    BY <1>7, <2>1, OwedNumbers DEF Mails
  <2>2. CASE x = "monthly"
    BY <1>7, <2>2, OwedNumbers DEF Mails
  <2>. QED BY <1>0, <2>1, <2>2 DEF Mails
<1>9. repeats + Cardinality(OpenRuns) + OwedFor("weekly") + OwedFor("monthly") <= slips
  BY <1>3, OwedNumbers DEF RepeatInv, RepeatsPaid
<1>10. repeats' + Cardinality(OpenRuns') + OwedFor("weekly")' + OwedFor("monthly")' <= slips'
  BY <1>2, <1>8, <1>9, OwedNumbers
<1>11. slips' \in Nat /\ IsFiniteSet(OpenRuns)'
  BY <1>2, OwedNumbers DEF RepeatInv
<1>12. repeats' + Cardinality(OpenRuns') + OwedFor("weekly")' + OwedFor("monthly")' <= slips' + (IF OneIsFree' THEN 1 ELSE 0)
  <2>1. /\ repeats' \in Int /\ Cardinality(OpenRuns') \in Int
        /\ OwedFor("weekly")' \in Int /\ OwedFor("monthly")' \in Int
    BY <1>2, OwedNumbers
  <2>. QED BY <1>10, <1>11, <2>1
<1>. QED BY <1>11, <1>12 DEF RepeatsPaid

\* A mail goes out of run r, which goes on as `me`.
Again(me) == Issue(me.mail, me.at) \in mailed[me.mail]
HasSent(r, me) ==
    /\ mailRun[r].pc = "send" /\ GoesOut(r) /\ settings' = settings /\ mailRun' = [mailRun EXCEPT ![r] = me]
    /\ \/ me.pc = "rest"
       \/ me.pc = "record" /\ me.mail = mailRun[r].mail /\ me.at = mailRun[r].at

LEMMA MailLeaves ==
    ASSUME MailTypeOK, NEW r \in MailRuns, NEW me, HasSent(r, me), NEW x, x = mailRun[r].mail
    PROVE  /\ x \in Mails /\ mailed'[x] = mailed[x] \cup {Issue(x, mailRun[r].at)}
           /\ \A n \in Mails \ {x} : mailed'[n] = mailed[n]
           /\ repeats' = IF Again(mailRun[r]) THEN repeats + 1 ELSE repeats
<1>. DEFINE k == Issue(x, mailRun[r].at)
<1>1. x \in Mails
  BY NoteNumbers
<1>2. mailed' = [mailed EXCEPT ![x] = @ \cup {k}] /\ repeats' = IF k \in mailed[x] THEN repeats + 1 ELSE repeats
  BY DEF HasSent, GoesOut, Issue
<1>3. mailed \in [Mails -> SUBSET Times]
  BY DEF MailTypeOK
<1>4. mailed'[x] = mailed[x] \cup {k} /\ \A n \in Mails \ {x} : mailed'[n] = mailed[n]
  <2>. HIDE DEF k
  <2>. QED BY <1>1, <1>2, <1>3
<1>. QED BY <1>1, <1>2, <1>4 DEF Again

\* The other mail is no worse off.
LEMMA OtherMailKept ==
    ASSUME MailTypeOK, NEW r \in MailRuns, NEW me, HasSent(r, me), NEW n \in Mails, n # mailRun[r].mail, Exposed(n)'
    PROVE  Exposed(n)
<1>1. /\ mailRun' = [mailRun EXCEPT ![r] = me] /\ settings' = settings /\ mailRun[r].pc = "send"
      /\ me.pc = "rest" \/ (me.pc = "record" /\ me.mail = mailRun[r].mail)
  BY DEF HasSent
<1>2. ~Noting(mailRun[r], n) /\ ~BadNote(me, n, mailed) /\ ~Doomed(me, n, mailed)
  BY <1>1 DEF Noting, BadNote, Doomed
<1>3. mailed'[n] = mailed[n]
  BY MailLeaves
<1>. QED BY <1>1, <1>2, <1>3, ExposedBefore

\* Nor is a mail that went out again.
LEMMA MailRepeated ==
    ASSUME MailTypeOK, NEW r \in MailRuns, NEW me, HasSent(r, me), NEW x, x = mailRun[r].mail,
           Again(mailRun[r]), Exposed(x)'
    PROVE  Exposed(x)
<1>. DEFINE k == Issue(x, mailRun[r].at)
<1>1. /\ mailRun' = [mailRun EXCEPT ![r] = me] /\ settings' = settings /\ mailRun[r].pc = "send"
      /\ me.pc = "rest" \/ (me.pc = "record" /\ me.mail = x /\ me.at = mailRun[r].at)
  BY DEF HasSent
<1>2. x \in Mails /\ k \in mailed[x] /\ mailed'[x] = mailed[x]
  BY MailLeaves DEF Again
<1>3. BadNote(me, x, mailed) => Exposed(x)
  <2>1. BadNote(me, x, mailed) => Doomed(mailRun[r], x, mailed)
    BY <1>1, <1>2 DEF BadNote, Noting, Doomed
  <2>. QED BY <2>1 DEF Exposed
<1>4. ~Noting(mailRun[r], x) /\ ~Doomed(me, x, mailed)
  BY <1>1 DEF Noting, Doomed
<1>. QED BY <1>1, <1>2, <1>3, <1>4, ExposedBefore

\* With one run free to send: it pays what its mail may be owed, if it is to be noted.
LEMMA FreeRunPays ==
    ASSUME MailTypeOK, MailsAreNew, NEW r \in MailRuns, NEW me, HasSent(r, me), NEW x, x = mailRun[r].mail,
           OneIsFree, me.pc = "record"
    PROVE  /\ Exposed(x)' => Exposed(x)
           /\ Again(mailRun[r]) => Exposed(x) /\ ~Exposed(x)'
<1>. DEFINE k == Issue(x, mailRun[r].at)
            v == UpTo(x, settings.sent[x])
<1>1. /\ mailRun' = [mailRun EXCEPT ![r] = me] /\ mailRun[r].pc = "send"
      /\ me.mail = x /\ me.at = mailRun[r].at
  BY DEF HasSent
<1>2. x \in Mails /\ mailed'[x] = mailed[x] \cup {k} /\ mailed[x] \subseteq Int /\ k \in Int /\ v \in Int
  BY MailLeaves, NoteNumbers
<1>3. mailRun'[r] = me /\ \A s \in MailRuns \ {r} : mailRun'[s] = mailRun[s]
  BY <1>1, RunReplaced
<1>4. /\ \A s \in MailRuns : mailRun[s].pc # "record" /\ ~Noting(mailRun[s], x)
      /\ \A s \in MailRuns : mailRun[s].pc = "send" => mailRun[s].saw.sent = settings.sent
      /\ \A s \in MailRuns : ~Doomed(mailRun[s], x, mailed)
  BY <1>2 DEF OneIsFree, OpenRuns, Noting, Doomed
<1>5. ASSUME NEW s \in MailRuns, mailRun[s].pc = "send", mailRun[s].mail = x
      PROVE  v < Issue(x, mailRun[s].at)
  <2>1. SendsNew(mailRun[s], time)
    BY DEF MailsAreNew
  <2>. QED BY <1>4, <1>5, <2>1 DEF SendsNew
<1>6. ASSUME NEW j \in mailed[x], v < j
      PROVE  Exposed(x)
  <2>1. j \in Int /\ ~(j <= v)
    BY <1>2, <1>6
  <2>. QED BY <1>4, <2>1 DEF Exposed, Spares
<1>7. v < k
  BY <1>1, <1>5
<1>8. BadNote(me, x, mailed') <=> \E j \in mailed'[x] : ~(j <= k)
  BY <1>1, <1>2, NoteNumbers DEF BadNote, Noting, Spares
<1>9. Exposed(x)' => \/ BadNote(me, x, mailed')
                     \/ \E s \in MailRuns \ {r} : Doomed(mailRun'[s], x, mailed')
  <2>. SUFFICES ASSUME Exposed(x)', ~BadNote(me, x, mailed')
                PROVE  \E s \in MailRuns \ {r} : Doomed(mailRun'[s], x, mailed')
    OBVIOUS
  <2>1. ~Doomed(me, x, mailed') /\ Noting(mailRun'[r], x)
    BY <1>1, <1>3 DEF Doomed, Noting
  <2>2. \A s \in MailRuns : ~BadNote(mailRun'[s], x, mailed')
    BY <1>3, <1>4 DEF BadNote, Noting
  <2>3. \/ \E s \in MailRuns : BadNote(mailRun'[s], x, mailed') \/ Doomed(mailRun'[s], x, mailed')
        \/ \A s \in MailRuns : ~Noting(mailRun'[s], x)
    BY DEF Exposed, BadNote, Doomed, Noting, Spares
  <2>. QED BY <1>3, <2>1, <2>2, <2>3
<1>10. Exposed(x)' => Exposed(x)
  <2>1. ASSUME BadNote(me, x, mailed')
        PROVE  Exposed(x)
    <3>1. PICK j \in mailed'[x] : ~(j <= k)
      BY <1>8, <2>1
    <3>. HIDE DEF k, v
    <3>2. j \in mailed[x] /\ v < j
      BY <1>2, <1>7, <3>1
    <3>. QED BY <1>6, <3>2
  <2>2. ASSUME NEW s \in MailRuns \ {r}, Doomed(mailRun'[s], x, mailed')
        PROVE  Exposed(x)
    <3>1. PICK b : b = Issue(x, mailRun[s].at)
      OBVIOUS
    <3>2. /\ mailRun[s].pc = "send" /\ mailRun[s].mail = x /\ b \in mailed'[x]
          /\ ~Spares(x, Noted(x, mailRun[s].at), mailed')
      BY <1>3, <2>2, <3>1 DEF Doomed
    <3>3. v < b /\ b \in Int
      BY <1>2, <1>5, <3>1, <3>2, NoteNumbers
    <3>4. PICK j \in mailed'[x] : ~(j <= b)
      BY <1>2, <3>1, <3>2, NoteNumbers DEF Spares
    <3>. HIDE DEF k, v
    <3>5. v < j
      BY <1>2, <3>3, <3>4
    <3>6. b \in mailed[x] \/ j \in mailed[x]
      <4>1. (b \in mailed[x] \/ b = k) /\ (j \in mailed[x] \/ j = k) /\ k <= k
        BY <1>2, <3>2, <3>4
      <4>. QED BY <3>4, <4>1
    <3>. QED BY <1>6, <3>3, <3>5, <3>6
  <2>. QED BY <1>9, <2>1, <2>2
<1>11. ASSUME Again(mailRun[r])
       PROVE  Exposed(x) /\ ~Exposed(x)'
  <2>1. k \in mailed[x] /\ mailed'[x] = mailed[x]
    BY <1>2, <1>11 DEF Again
  <2>2. \A j \in mailed[x] : j <= k
    <3>1. Spares(x, Noted(x, mailRun[r].at), mailed)
      BY <1>1, <1>4, <2>1 DEF Doomed
    <3>. QED BY <1>2, <3>1, NoteNumbers DEF Spares
  <2>3. ~BadNote(me, x, mailed')
    BY <1>8, <2>1, <2>2
  <2>4. \A s \in MailRuns \ {r} : ~Doomed(mailRun'[s], x, mailed')
    BY <1>3, <1>4, <2>1 DEF Doomed, Spares
  <2>. QED BY <1>6, <1>7, <1>9, <2>1, <2>3, <2>4
<1>. QED BY <1>10, <1>11

\* Each mail that goes out again was owed, or one run was free to send it; or its
\* answer is lost, for a slip.
LEMMA SendsPay ==
    ASSUME RepeatInv, NEW r \in MailRuns, NEW me, HasSent(r, me),
           \/ me.pc = "record" /\ slips' = slips
           \/ me.pc = "rest" /\ slips' = slips + 1
    PROVE  IsFiniteSet(OpenRuns)' /\ RepeatsPaid'
<1>. DEFINE c == Cardinality(OpenRuns)
            x == mailRun[r].mail
            again == Again(mailRun[r])
<1>1. MailTypeOK /\ x \in Mails /\ mailRun' = [mailRun EXCEPT ![r] = me] /\ r \in OpenRuns
  BY MailLeaves DEF RepeatInv, HasSent, OpenRuns
<1>2. OpenRuns' = OpenRuns \ {r}
  BY <1>1, RunReplaced
<1>3. IsFiniteSet(OpenRuns \ {r}) /\ Cardinality(OpenRuns \ {r}) = c - 1
  BY <1>1, FS_RemoveElement DEF RepeatInv
<1>4. repeats' = IF again THEN repeats + 1 ELSE repeats
  BY <1>1, MailLeaves
<1>5. PICK a \in {0, 1} : again <=> a = 1
  <2>1. CASE again
    BY <2>1
  <2>2. CASE ~again
    BY <2>2
  <2>. QED BY <2>1, <2>2
<1>6. PICK f \in {0, 1} : (OneIsFree <=> f = 1) /\ f = (IF OneIsFree THEN 1 ELSE 0)
  <2>1. CASE OneIsFree
    BY <2>1
  <2>2. CASE ~OneIsFree
    BY <2>2
  <2>. QED BY <2>1, <2>2
<1>7. PICK m : m = x
  OBVIOUS
<1>8. /\ \A n \in Mails \ {m} : OwedFor(n)' <= OwedFor(n)
      /\ a = 1 => OwedFor(m)' <= OwedFor(m)
      /\ f = 1 /\ me.pc = "record" => /\ OwedFor(m)' <= OwedFor(m)
                                      /\ a = 1 => OwedFor(m) = 1 /\ OwedFor(m)' = 0
  <2>1. \A n \in Mails \ {m} : OwedFor(n)' = 1 => OwedFor(n) = 1
    BY <1>1, <1>7, OtherMailKept, OwedNumbers
  <2>2. a = 1 => (OwedFor(m)' = 1 => OwedFor(m) = 1)
    <3>1. again /\ Exposed(m)' => Exposed(m)
      BY <1>1, <1>7, MailRepeated
    <3>. QED BY <1>5, <3>1, OwedNumbers
  <2>3. f = 1 /\ me.pc = "record" => /\ OwedFor(m)' = 1 => OwedFor(m) = 1
                                     /\ a = 1 => OwedFor(m) = 1 /\ OwedFor(m)' # 1
    <3>1. f = 1 /\ me.pc = "record" => /\ Exposed(m)' => Exposed(m)
                                       /\ again => Exposed(m) /\ ~Exposed(m)'
      BY <1>1, <1>6, <1>7, FreeRunPays DEF RepeatInv
    <3>. QED BY <1>5, <3>1, OwedNumbers
  <2>. QED BY <2>1, <2>2, <2>3, OwedNumbers
<1>9. PICK o, q : /\ o \in {0, 1} /\ q \in {0, 1} /\ q <= o
                  /\ OwedFor("weekly") + OwedFor("monthly") = o + OwedFor(m)
                  /\ OwedFor("weekly")' + OwedFor("monthly")' = q + OwedFor(m)'
  <2>1. CASE m = "weekly"
    BY <1>8, <2>1, OwedNumbers DEF Mails
  <2>2. CASE m = "monthly"
    BY <1>8, <2>2, OwedNumbers DEF Mails
  <2>. QED BY <1>1, <1>7, <2>1, <2>2 DEF Mails
<1>10. PICK w, z : w = OwedFor(m) /\ z = OwedFor(m)' /\ w \in {0, 1} /\ z \in {0, 1}
  BY OwedNumbers
<1>11. /\ repeats \in Nat /\ slips \in Nat /\ c \in Nat
       /\ repeats' = repeats + a
       /\ repeats + c + o + w <= slips + f
  <2>1. repeats + c + OwedFor("weekly") + OwedFor("monthly") <= slips + f
    BY <1>6 DEF RepeatInv, RepeatsPaid
  <2>2. repeats + c + (OwedFor("weekly") + OwedFor("monthly")) <= slips + f
    BY <2>1, OwedNumbers
  <2>3. repeats \in Nat /\ slips \in Nat /\ c \in Nat
    BY OwedNumbers
  <2>. HIDE DEF c
  <2>4. repeats' = repeats + a
    BY <1>4, <1>5, <2>3
  <2>. QED BY <1>6, <1>9, <1>10, <2>2, <2>3, <2>4
<1>12. repeats' + (c - 1) + (q + z) <= slips'
  <2>. HIDE DEF c
  <2>1. CASE me.pc = "record" /\ slips' = slips
    BY <1>5, <1>6, <1>8, <1>9, <1>10, <1>11, <2>1
  <2>2. CASE slips' = slips + 1
    BY <1>5, <1>6, <1>8, <1>9, <1>10, <1>11, <2>2
  <2>. QED BY <2>1, <2>2
<1>13. repeats' + (c - 1) + OwedFor("weekly")' + OwedFor("monthly")' <= slips' + (IF OneIsFree' THEN 1 ELSE 0)
  <2>1. OwedFor("weekly")' + OwedFor("monthly")' = q + z /\ slips' \in Nat /\ repeats' \in Nat
    <3>1. slips' \in Nat /\ repeats' \in Nat
      BY <1>5, <1>11
    <3>2. OwedFor("weekly")' + OwedFor("monthly")' = q + z
      BY <1>9, <1>10
    <3>. QED BY <3>1, <3>2
  <2>. HIDE DEF c
  <2>2. repeats' + (c - 1) + OwedFor("weekly")' + OwedFor("monthly")' <= slips'
    BY <1>11, <1>12, <2>1, OwedNumbers
  <2>. QED BY <1>11, <2>1, <2>2, OwedNumbers
<1>. QED BY <1>2, <1>3, <1>13 DEF RepeatsPaid

\* What a run sends stays new to what it read, and nothing goes out before its time.
LEMMA NewReplaced ==
    ASSUME MailTypeOK, MailsAreNew, NEW r \in MailRuns, NEW me, mailRun' = [mailRun EXCEPT ![r] = me],
           SendsNew(me, time), time' = time,
           mailed' = mailed \/ HasSent(r, me)
    PROVE  MailsAreNew'
<1>1. mailRun'[r] = me /\ \A s \in MailRuns \ {r} : mailRun'[s] = mailRun[s]
  BY RunReplaced
<1>2. \A s \in MailRuns : SendsNew(mailRun'[s], time)
  BY <1>1 DEF MailsAreNew
<1>3. ASSUME NEW m \in Mails, NEW k \in mailed'[m]
      PROVE  k <= Issue(m, time)
  <2>1. CASE k \in mailed[m]
    BY <2>1 DEF MailsAreNew
  <2>2. CASE k \notin mailed[m]
    <3>1. HasSent(r, me) /\ mailRun[r].at <= time
      <4>1. HasSent(r, me) /\ SendsNew(mailRun[r], time)
        BY <1>3, <2>2 DEF MailsAreNew
      <4>. QED BY <4>1 DEF HasSent, SendsNew
    <3>2. PICK x : x = mailRun[r].mail
      OBVIOUS
    <3>3. m = x /\ k = Issue(m, mailRun[r].at)
      BY <1>3, <2>2, <3>1, <3>2, MailLeaves
    <3>. QED BY <3>1, <3>3, NoteNumbers, IssueNumbers
  <2>. QED BY <2>1, <2>2
<1>4. MailsAreNew' <=> /\ \A s \in MailRuns : SendsNew(mailRun'[s], time')
                       /\ \A m \in Mails : \A k \in mailed'[m] : k <= Issue(m, time')
  BY DEF MailsAreNew, SendsNew
<1>. QED BY <1>2, <1>3, <1>4

LEMMA RepeatStepKeeps ==
    ASSUME RepeatInv, [MailNext]_mailVars
    PROVE  RepeatInv'
<1>. DEFINE StillPaid == MailsAreNew' /\ IsFiniteSet(OpenRuns)' /\ RepeatsPaid'
<1>1. MailTypeOK /\ MailsAreNew /\ MailTypeOK'
  BY MailStepTyped DEF RepeatInv
<1>2. slips \in Nat /\ \A r \in MailRuns : mailRun[r].mail \in Mails /\ mailRun[r].at \in Times
  BY <1>1, MailNumbers DEF MailTypeOK
<1>3. ASSUME NEW r \in MailRuns, Ends(r), time' = time, mailed' = mailed
      PROVE  MailsAreNew'
  <2>1. AtRest.pc = "rest" /\ mailRun' = [mailRun EXCEPT ![r] = AtRest]
    BY <1>3 DEF Ends, AtRest
  <2>2. SendsNew(AtRest, time)
    BY <2>1 DEF SendsNew
  <2>. QED BY <1>1, <1>3, <2>1, <2>2, NewReplaced
<1>4. ASSUME NEW r \in MailRuns, mailRun[r].pc \in {"gate", "send"}, Ends(r), time' = time, mailed' = mailed,
             settings'.sent = settings.sent, repeats' = repeats, slips' \in {slips, slips + 1}
      PROVE  StillPaid
  <2>1. r \in OpenRuns
    BY <1>4 DEF OpenRuns
  <2>. QED BY <1>3, <1>4, <2>1, OpenEnds
<1>5. ASSUME NEW r \in MailRuns, NEW me, mailRun[r].pc = "gate", mailRun' = [mailRun EXCEPT ![r] = me],
             me.pc \in {"gate", "send"}, me.saw = mailRun[r].saw, SendsNew(me, time), \A n \in Mails : ~Doomed(me, n, mailed),
             settings'.sent = settings.sent, UNCHANGED <<time, mailed, repeats, slips>>
      PROVE  StillPaid
  <2>1. r \in OpenRuns
    BY <1>5 DEF OpenRuns
  <2>2. MailsAreNew'
    BY <1>1, <1>5, NewReplaced
  <2>. QED BY <1>5, <2>1, <2>2, OpenStays
<1>6. ASSUME NEW r \in MailRuns, Begins(r)
      PROVE  StillPaid
  <2>1. PICK me : me = [AtRest EXCEPT !.pc = "gate", !.saw = settings]
    OBVIOUS
  <2>2. me.pc = "gate" /\ mailRun' = [mailRun EXCEPT ![r] = me] /\ UNCHANGED <<time, mailed>>
    BY <1>6, <2>1 DEF AtRest, Begins
  <2>3. SendsNew(me, time)
    BY <2>2 DEF SendsNew
  <2>4. MailsAreNew'
    BY <1>1, <2>2, <2>3, NewReplaced
  <2>. QED BY <1>6, <2>4, OpenJoins
<1>7. ASSUME NEW r \in MailRuns, NotDue(r)
      PROVE  StillPaid
  <2>1. mailRun[r].pc = "gate" /\ UNCHANGED <<time, settings, slips, mailed, repeats>>
    BY <1>7 DEF NotDue
  <2>2. CASE mailRun' = [mailRun EXCEPT ![r].mail = "monthly"]
    <3>1. PICK me : me = [mailRun[r] EXCEPT !.mail = "monthly"]
      OBVIOUS
    <3>2. mailRun' = [mailRun EXCEPT ![r] = me] /\ me.pc = "gate" /\ me.saw = mailRun[r].saw
      BY <1>1, <2>1, <2>2, <3>1 DEF MailTypeOK
    <3>3. SendsNew(me, time) /\ (\A n \in Mails : ~Doomed(me, n, mailed))
      BY <3>2 DEF SendsNew, Doomed
    <3>. QED BY <1>5, <2>1, <3>2, <3>3
  <2>. QED BY <1>4, <1>7, <2>1, <2>2 DEF NotDue
<1>8. ASSUME NEW r \in MailRuns, TriesMail(r)
      PROVE  StillPaid
  <2>. DEFINE m == mailRun[r].mail
  <2>1. mailRun[r].pc = "gate" /\ MailDue(m, time, mailRun[r].saw) /\ UNCHANGED <<time, mailed, repeats>>
    BY <1>8 DEF TriesMail
  <2>2. settings'.sent = settings.sent
    <3>1. settings \in Settings /\ m \in Mails /\ time \in Times
      BY <1>1 DEF MailTypeOK
    <3>2. settings' = settings \/ settings' = [settings EXCEPT !.tried[m] = time]
      BY <1>8 DEF TriesMail
    <3>. HIDE DEF m
    <3>. QED BY <3>1, <3>2, SettingsWritten
  <2>3. CASE Ends(r) /\ slips' = slips + 1
    BY <1>4, <2>1, <2>2, <2>3
  <2>4. CASE mailRun' = [mailRun EXCEPT ![r].pc = "send", ![r].at = time] /\ slips' = slips
    <3>1. PICK me : me = [mailRun[r] EXCEPT !.pc = "send", !.at = time]
      OBVIOUS
    <3>2. /\ mailRun' = [mailRun EXCEPT ![r] = me] /\ me.pc = "send" /\ me.at = time
          /\ me.mail = m /\ me.saw = mailRun[r].saw
      BY <1>1, <2>4, <3>1 DEF MailTypeOK
    <3>3. SendsNew(me, time)
      <4>1. time \in Times /\ time <= time /\ mailRun[r].saw \in Settings
        BY <1>1, MailNumbers DEF MailTypeOK
      <4>2. UpTo(m, mailRun[r].saw.sent[m]) < Issue(m, time)
        BY <1>2, <2>1, <4>1, DueIsNew
      <4>. QED BY <3>2, <4>1, <4>2 DEF SendsNew
    <3>4. \A n \in Mails : ~Doomed(me, n, mailed)
      BY <1>1, <3>2, NoteNumbers, IssueNumbers DEF Doomed, Spares, MailsAreNew
    <3>. QED BY <1>5, <2>1, <2>2, <2>4, <3>2, <3>3, <3>4
  <2>. QED BY <1>8, <2>3, <2>4 DEF TriesMail, Slip, NoSlip
<1>9. ASSUME NEW r \in MailRuns, Sends(r)
      PROVE  StillPaid
  <2>1. mailRun[r].pc = "send" /\ UNCHANGED <<time, settings>>
    BY <1>9 DEF Sends
  <2>2. SendsNew(mailRun[r], time)
    BY <1>1 DEF MailsAreNew
  <2>3. CASE GoesOut(r) /\ Proceeds(r, "record") /\ NoSlip
    <3>1. PICK me : me = [mailRun[r] EXCEPT !.pc = "record"]
      OBVIOUS
    <3>2. /\ mailRun' = [mailRun EXCEPT ![r] = me] /\ me.pc = "record"
          /\ me.mail = mailRun[r].mail /\ me.at = mailRun[r].at
      BY <1>1, <2>3, <3>1 DEF MailTypeOK, Proceeds
    <3>3. HasSent(r, me) /\ slips' = slips
      BY <2>1, <2>3, <3>2 DEF HasSent, NoSlip
    <3>4. SendsNew(me, time)
      BY <2>1, <2>2, <3>2 DEF SendsNew
    <3>5. MailsAreNew'
      BY <1>1, <2>1, <3>2, <3>3, <3>4, NewReplaced
    <3>. QED BY <3>2, <3>3, <3>5, SendsPay
  <2>4. CASE GoesOut(r) /\ Ends(r) /\ Slip
    <3>1. PICK me : me = AtRest
      OBVIOUS
    <3>2. mailRun' = [mailRun EXCEPT ![r] = me] /\ me.pc = "rest"
      BY <2>4, <3>1 DEF Ends, AtRest
    <3>3. HasSent(r, me) /\ slips' = slips + 1
      BY <2>1, <2>4, <3>2 DEF HasSent, Slip
    <3>4. SendsNew(me, time)
      BY <3>2 DEF SendsNew
    <3>5. MailsAreNew'
      BY <1>1, <2>1, <3>2, <3>3, <3>4, NewReplaced
    <3>. QED BY <3>2, <3>3, <3>5, SendsPay
  <2>5. CASE Ends(r) /\ UNCHANGED <<slips, mailed, repeats>>
    BY <1>4, <2>1, <2>5
  <2>. QED BY <1>9, <2>3, <2>4, <2>5 DEF Sends
<1>10. ASSUME NEW r \in MailRuns, mailRun[r].pc = "record", Ends(r), UNCHANGED <<time, mailed, repeats>>,
              LET m == mailRun[r].mail
                  noted == [settings EXCEPT !.sent[m] = Noted(m, mailRun[r].at)]
              IN  \/ settings' = noted /\ slips' = slips
                  \/ settings' \in {settings, noted} /\ slips' = slips + 1
       PROVE  StillPaid
  <2>1. PICK x, y : x = mailRun[r].mail /\ y = Noted(x, mailRun[r].at)
    OBVIOUS
  <2>2. PICK noted : noted = [settings.sent EXCEPT ![x] = y]
    OBVIOUS
  <2>3. [settings EXCEPT !.sent[x] = y].sent = noted
    BY <1>1, <2>2 DEF MailTypeOK, Settings
  <2>4. \/ slips' = slips /\ settings'.sent = noted
        \/ slips' = slips + 1 /\ settings'.sent \in {settings.sent, noted}
    BY <1>10, <2>1, <2>3
  <2>5. noted = [settings.sent EXCEPT ![x] = Noted(x, mailRun[r].at)]
    BY <2>1, <2>2
  <2>6. IsFiniteSet(OpenRuns)' /\ RepeatsPaid'
    BY <1>10, <2>1, <2>4, <2>5, NoteEnds
  <2>. QED BY <1>3, <1>10, <2>6
<1>11. ASSUME NEW r \in MailRuns, Records(r)
       PROVE  StillPaid
  <2>1. Ends(r) /\ UNCHANGED <<time, mailed, repeats>> /\ mailRun[r].pc = "record"
    BY <1>11 DEF Records
  <2>. QED BY <1>10, <1>11, <2>1 DEF Records, NoSlip, Slip
<1>12. ASSUME NEW r \in MailRuns, TooFewQueries(r) \/ MailRunDies(r)
       PROVE  StillPaid
  <2>1. /\ mailRun[r].pc # "rest" /\ Ends(r) /\ UNCHANGED <<time, settings, mailed, repeats>>
        /\ slips' = slips + 1
    BY <1>12 DEF TooFewQueries, MailRunDies, Slip
  <2>2. mailRun[r].pc \in {"rest", "gate", "send", "record"}
    BY <1>1 DEF MailTypeOK
  <2>. QED BY <1>4, <1>10, <2>1, <2>2
<1>13. ASSUME UNCHANGED <<settings, mailRun, slips, mailed, repeats>>, time' = time \/ time' = time + 1
       PROVE  StillPaid
  <2>1. time \in Times /\ time' \in Times /\ time \in Int /\ time' \in Int /\ time <= time'
    <3>1. time \in Times /\ time' \in Times /\ \A t \in Times : t \in Int
      BY <1>1, MailNumbers DEF MailTypeOK
    <3>. QED BY <1>13, <3>1
  <2>2. \A r \in MailRuns : SendsNew(mailRun[r], time')
    <3>1. \A r \in MailRuns : mailRun[r].at \in Int
      BY <1>1, NoteNumbers, IssueNumbers
    <3>. QED BY <1>1, <2>1, <3>1 DEF MailsAreNew, SendsNew
  <2>3. ASSUME NEW m \in Mails, NEW k \in mailed[m]
        PROVE  k <= Issue(m, time')
    <3>1. k <= Issue(m, time) /\ Issue(m, time) <= Issue(m, time')
      BY <1>1, <2>1, IssueNumbers DEF MailsAreNew
    <3>2. k \in Int /\ Issue(m, time) \in Int /\ Issue(m, time') \in Int
      BY <1>1, <2>1, IssueNumbers, NoteNumbers
    <3>. QED BY <3>1, <3>2
  <2>4. MailsAreNew'
    <3>1. MailsAreNew' <=> /\ \A r \in MailRuns : SendsNew(mailRun'[r], time')
                           /\ \A m \in Mails : \A k \in mailed'[m] : k <= Issue(m, time')
      BY DEF MailsAreNew, SendsNew
    <3>. QED BY <1>13, <2>2, <2>3, <3>1
  <2>5. OpenRuns' = OpenRuns
    BY <1>13 DEF OpenRuns
  <2>6. (OneIsFree' <=> OneIsFree) /\ \A n \in Mails : Exposed(n)' <=> Exposed(n)
    BY <1>13, <2>5 DEF OneIsFree, Exposed, BadNote, Doomed, Noting, Spares
  <2>7. OwedFor("weekly")' = OwedFor("weekly") /\ OwedFor("monthly")' = OwedFor("monthly")
    BY <2>6 DEF OwedFor, Mails
  <2>. QED BY <1>13, <2>4, <2>5, <2>6, <2>7 DEF RepeatInv, RepeatsPaid
<1>14. StillPaid
  <2>1. CASE UNCHANGED mailVars \/ Passes
    BY <1>13, <2>1 DEF mailVars, Passes
  <2>2. ASSUME NEW r \in MailRuns,
               Begins(r) \/ NotDue(r) \/ TooFewQueries(r) \/ TriesMail(r) \/ Sends(r) \/ Records(r) \/ MailRunDies(r)
        PROVE  StillPaid
    BY <1>6, <1>7, <1>8, <1>9, <1>11, <1>12, <2>2
  <2>. QED BY <2>1, <2>2 DEF MailNext
<1>. QED BY <1>1, <1>14 DEF RepeatInv

LEMMA PaidFor == RepeatInv => repeats <= slips
<1>. SUFFICES ASSUME RepeatInv PROVE repeats <= slips
  OBVIOUS
<1>. DEFINE c == Cardinality(OpenRuns)
<1>1. /\ c \in Nat /\ repeats \in Nat /\ slips \in Nat
      /\ OwedFor("weekly") \in {0, 1} /\ OwedFor("monthly") \in {0, 1}
  BY OwedNumbers
<1>2. repeats + c + OwedFor("weekly") + OwedFor("monthly") <= slips + (IF OneIsFree THEN 1 ELSE 0)
  BY DEF RepeatInv, RepeatsPaid
<1>3. OneIsFree => c # 0
  BY FS_EmptySet DEF RepeatInv, OneIsFree
<1>. HIDE DEF c
<1>. QED BY <1>1, <1>2, <1>3

LEMMA RepeatAtStart == MailInit => RepeatInv
<1>. SUFFICES ASSUME MailInit PROVE RepeatInv
  OBVIOUS
<1>1. /\ time = 0 /\ repeats = 0 /\ slips = 0 /\ mailed = [m \in Mails |-> {}]
      /\ \A n \in Mails : settings.sent[n] = NoTime
      /\ \A r \in MailRuns : mailRun[r].pc = "rest"
  BY DEF MailInit, AtRest, Unset
<1>2. OpenRuns = {} /\ ~OneIsFree
  BY <1>1 DEF OpenRuns, OneIsFree
<1>3. MailsAreNew
  BY <1>1 DEF MailsAreNew, SendsNew
<1>4. \A n \in Mails : ~Exposed(n)
  <2>1. \A n \in Mails : Spares(n, NoTime, mailed)
    BY <1>1 DEF Spares
  <2>. QED BY <1>1, <2>1 DEF Exposed, BadNote, Noting, Doomed
<1>5. OwedFor("weekly") = 0 /\ OwedFor("monthly") = 0
  BY <1>4 DEF OwedFor, Mails
<1>. QED BY <1>1, <1>2, <1>3, <1>5, MailTypeAtStart, FS_EmptySet DEF RepeatInv, RepeatsPaid

(* A mail goes out again for the same day or month once for each write,     *)
(* answer or run that is lost or late, and no more (repeats <= slips), for    *)
(* any days, hours, waits, refused mails and number of runs at work at once.  *)
THEOREM RepeatsArePaid == MailSpec => [](repeats <= slips)
<1>1. MailInit => RepeatInv
  BY RepeatAtStart
<1>2. RepeatInv => repeats <= slips
  BY PaidFor
<1>. QED BY <1>1, <1>2, RepeatStepKeeps, PTL DEF MailSpec

-----------------------------------------------------------------------------
(* The mails: the steps of a run, plainly.                                  *)

\* Run r becomes `me`; the alternatives name what else each step does.
TurnsInto(r, me) == mailRun' = [mailRun EXCEPT ![r] = me]
Joins(r, me) ==
    /\ mailRun[r].pc = "rest" /\ me.pc = "gate" /\ me.mail = "weekly" /\ me.saw = settings
    /\ (AtWork = {} /\ NoSlip) \/ Slip
    /\ UNCHANGED <<settings, ran, refused, mailed, repeats>>
GoesOn(r, me) ==
    /\ mailRun[r].pc = "gate" /\ mailRun[r].mail = "weekly" /\ ~MailDue("weekly", time, mailRun[r].saw)
    /\ me.pc = "gate" /\ me.mail = "monthly" /\ me.saw = mailRun[r].saw
    /\ NoSlip /\ UNCHANGED <<settings, ran, refused, mailed, repeats>>
FindsNothing(r, me) ==
    /\ mailRun[r].pc = "gate" /\ mailRun[r].mail = "monthly" /\ ~MailDue("monthly", time, mailRun[r].saw)
    /\ me = AtRest /\ ran' = TRUE
    /\ NoSlip /\ UNCHANGED <<settings, refused, mailed, repeats>>
NotesTry(r) ==
    /\ mailRun[r].pc = "gate" /\ settings' \in Settings /\ settings'.sent = settings.sent
    /\ settings'.tried = [settings.tried EXCEPT ![mailRun[r].mail] = time]
    /\ mailRun[r].mail = "weekly" => IsWeeklyDay(time)
WillSend(r, me) ==
    /\ NotesTry(r)
    /\ me.pc = "send" /\ me.mail = mailRun[r].mail /\ me.saw = mailRun[r].saw /\ me.at = time
    /\ NoSlip /\ UNCHANGED <<ran, refused, mailed, repeats>>
HasGone(r, me) ==
    /\ mailRun[r].pc = "send" /\ GoesOut(r)
    /\ me.pc = "record" /\ me.mail = mailRun[r].mail /\ me.saw = mailRun[r].saw /\ me.at = mailRun[r].at
    /\ NoSlip /\ UNCHANGED <<settings, ran, refused>>
NotesSent(r) ==
    /\ mailRun[r].pc = "record" /\ settings' \in Settings /\ settings'.tried = settings.tried
    /\ settings'.sent = [settings.sent EXCEPT ![mailRun[r].mail] = Noted(mailRun[r].mail, mailRun[r].at)]
HasNoted(r, me) ==
    /\ NotesSent(r) /\ me = AtRest /\ ran' = TRUE
    /\ NoSlip /\ UNCHANGED <<refused, mailed, repeats>>
IsRefused(r, me) ==
    /\ mailRun[r].pc = "send" /\ me = AtRest /\ ran' = TRUE /\ lapsed' = TRUE /\ refused' = refused + 1
    /\ UNCHANGED <<settings, slips, mailed, repeats>>
IsLost(r, me) ==
    /\ mailRun[r].pc # "rest" /\ me = AtRest /\ ran' = TRUE /\ Slip /\ UNCHANGED refused
    /\ \/ (settings' = settings \/ NotesTry(r) \/ NotesSent(r)) /\ UNCHANGED <<mailed, repeats>>
       \/ mailRun[r].pc = "send" /\ settings' = settings /\ GoesOut(r)
RunStep(r, me) ==
    \/ Joins(r, me) \/ GoesOn(r, me) \/ FindsNothing(r, me) \/ WillSend(r, me)
    \/ HasGone(r, me) \/ HasNoted(r, me) \/ IsRefused(r, me) \/ IsLost(r, me)

LEMMA TryIsNoted ==
    ASSUME MailTypeOK, NEW r \in MailRuns, mailRun[r].pc = "gate", NEW m, m = mailRun[r].mail,
           MailDue(m, time, mailRun[r].saw), settings' = [settings EXCEPT !.tried[m] = time]
    PROVE  NotesTry(r)
<1>1. settings \in Settings /\ m \in Mails /\ time \in Times
  BY DEF MailTypeOK
<1>2. m = "weekly" => IsWeeklyDay(time)
  BY DEF MailDue
<1>3. /\ settings' \in Settings /\ settings'.sent = settings.sent
      /\ settings'.tried = [settings.tried EXCEPT ![m] = time]
  BY <1>1, SettingsWritten
<1>. QED BY <1>2, <1>3 DEF NotesTry

LEMMA SentIsNoted ==
    ASSUME MailTypeOK, NEW r \in MailRuns, mailRun[r].pc = "record", NEW m, m = mailRun[r].mail,
           settings' = [settings EXCEPT !.sent[m] = Noted(m, mailRun[r].at)]
    PROVE  NotesSent(r)
<1>1. settings \in Settings /\ m \in Mails /\ Noted(m, mailRun[r].at) \in Times
  BY NotedIsTime DEF MailTypeOK
<1>2. /\ settings' \in Settings /\ settings'.tried = settings.tried
      /\ settings'.sent = [settings.sent EXCEPT ![m] = Noted(m, mailRun[r].at)]
  BY <1>1, SettingsWritten
<1>. QED BY <1>2 DEF NotesSent

LEMMA RunSteps ==
    ASSUME MailTypeOK, NEW r \in MailRuns,
           Begins(r) \/ NotDue(r) \/ TooFewQueries(r) \/ TriesMail(r) \/ Sends(r) \/ Records(r) \/ MailRunDies(r)
    PROVE  time' = time /\ \E me : TurnsInto(r, me) /\ RunStep(r, me)
<1>1. mailRun \in [MailRuns -> MailRunRecords] /\ mailRun[r] \in MailRunRecords
  BY DEF MailTypeOK, MailRunRecords
<1>2. time' = time
  BY DEF Begins, NotDue, TooFewQueries, TriesMail, Sends, Records, MailRunDies
<1>3. Ends(r) => TurnsInto(r, AtRest) /\ ran' = TRUE
  BY DEF Ends, TurnsInto
<1>4. CASE Begins(r)
  <2>1. PICK me : me = [AtRest EXCEPT !.pc = "gate", !.saw = settings]
    OBVIOUS
  <2>2. me.pc = "gate" /\ me.mail = "weekly" /\ me.saw = settings
    BY <2>1 DEF AtRest
  <2>3. TurnsInto(r, me)
    BY <1>4, <2>1 DEF Begins, TurnsInto
  <2>4. Joins(r, me)
    BY <1>4, <2>2 DEF Begins, Joins
  <2>. QED BY <1>2, <2>3, <2>4 DEF RunStep
<1>5. CASE NotDue(r)
  <2>1. CASE mailRun[r].mail = "weekly"
    <3>1. PICK me : me = [mailRun[r] EXCEPT !.mail = "monthly"]
      OBVIOUS
    <3>2. me.pc = mailRun[r].pc /\ me.mail = "monthly" /\ me.saw = mailRun[r].saw /\ TurnsInto(r, me)
      BY <1>1, <1>5, <2>1, <3>1 DEF NotDue, MailRunRecords, TurnsInto
    <3>3. GoesOn(r, me)
      BY <1>5, <2>1, <3>2 DEF NotDue, GoesOn, NoSlip
    <3>. QED BY <1>2, <3>2, <3>3 DEF RunStep
  <2>2. CASE mailRun[r].mail = "monthly"
    <3>1. FindsNothing(r, AtRest)
      BY <1>3, <1>5, <2>2 DEF NotDue, FindsNothing, NoSlip
    <3>. QED BY <1>2, <1>3, <1>5, <2>2, <3>1 DEF RunStep, NotDue
  <2>. QED BY <1>1, <2>1, <2>2 DEF MailRunRecords, Mails
<1>6. CASE TooFewQueries(r) \/ MailRunDies(r)
  <2>1. IsLost(r, AtRest) /\ Ends(r)
    BY <1>3, <1>6 DEF TooFewQueries, MailRunDies, IsLost
  <2>. QED BY <1>2, <1>3, <2>1 DEF RunStep
<1>7. CASE TriesMail(r)
  <2>1. PICK m, noted : m = mailRun[r].mail /\ noted = [settings EXCEPT !.tried[m] = time]
    OBVIOUS
  <2>2. mailRun[r].pc = "gate" /\ MailDue(m, time, mailRun[r].saw) /\ (settings' = noted => NotesTry(r))
    BY <1>7, <2>1, TryIsNoted DEF TriesMail
  <2>3. CASE mailRun' = [mailRun EXCEPT ![r].pc = "send", ![r].at = time]
    <3>1. PICK me : me = [mailRun[r] EXCEPT !.pc = "send", !.at = time]
      OBVIOUS
    <3>2. me.pc = "send" /\ me.mail = mailRun[r].mail /\ me.saw = mailRun[r].saw /\ me.at = time /\ TurnsInto(r, me)
      BY <1>1, <2>3, <3>1 DEF MailRunRecords, TurnsInto
    <3>3. ~Ends(r)
      <4>1. mailRun'[r] = me /\ AtRest.pc = "rest"
        BY <1>1, <3>2 DEF TurnsInto, AtRest
      <4>2. Ends(r) => mailRun'[r] = AtRest
        BY <1>1 DEF Ends
      <4>. QED BY <3>2, <4>1, <4>2
    <3>4. settings' = noted /\ NoSlip /\ UNCHANGED <<ran, refused, mailed, repeats>>
      BY <1>7, <2>1, <3>3 DEF TriesMail
    <3>5. WillSend(r, me)
      BY <2>2, <3>2, <3>4 DEF WillSend
    <3>. QED BY <1>2, <3>2, <3>5 DEF RunStep
  <2>4. CASE settings' \in {settings, noted} /\ Ends(r) /\ Slip
    <3>1. IsLost(r, AtRest)
      BY <1>3, <1>7, <2>2, <2>4 DEF TriesMail, IsLost
    <3>. QED BY <1>2, <1>3, <2>4, <3>1 DEF RunStep
  <2>. QED BY <1>7, <2>1, <2>3, <2>4 DEF TriesMail
<1>8. CASE Sends(r)
  <2>1. mailRun[r].pc = "send" /\ settings' = settings
    BY <1>8 DEF Sends
  <2>2. CASE GoesOut(r) /\ Proceeds(r, "record") /\ NoSlip /\ UNCHANGED refused
    <3>1. PICK me : me = [mailRun[r] EXCEPT !.pc = "record"]
      OBVIOUS
    <3>2. /\ me.pc = "record" /\ me.mail = mailRun[r].mail /\ me.saw = mailRun[r].saw /\ me.at = mailRun[r].at
          /\ TurnsInto(r, me) /\ ran' = ran
      BY <1>1, <2>2, <3>1 DEF MailRunRecords, TurnsInto, Proceeds
    <3>3. HasGone(r, me)
      BY <2>1, <2>2, <3>2 DEF HasGone
    <3>. QED BY <1>2, <3>2, <3>3 DEF RunStep
  <2>3. CASE GoesOut(r) /\ Ends(r) /\ Slip /\ UNCHANGED refused
    <3>1. IsLost(r, AtRest)
      BY <1>3, <2>1, <2>3 DEF IsLost
    <3>. QED BY <1>2, <1>3, <2>3, <3>1 DEF RunStep
  <2>4. CASE /\ refused' = refused + 1 /\ lapsed' = TRUE
             /\ Ends(r) /\ UNCHANGED <<slips, mailed, repeats>>
    <3>1. IsRefused(r, AtRest)
      BY <1>3, <2>1, <2>4 DEF IsRefused
    <3>. QED BY <1>2, <1>3, <2>4, <3>1 DEF RunStep
  <2>. QED BY <1>8, <2>2, <2>3, <2>4 DEF Sends
<1>9. CASE Records(r)
  <2>1. PICK m, noted : m = mailRun[r].mail /\ noted = [settings EXCEPT !.sent[m] = Noted(m, mailRun[r].at)]
    OBVIOUS
  <2>2. mailRun[r].pc = "record" /\ Ends(r) /\ UNCHANGED <<refused, mailed, repeats>>
        /\ (settings' = noted => NotesSent(r))
    BY <1>9, <2>1, SentIsNoted DEF Records
  <2>3. CASE settings' = noted /\ NoSlip
    <3>1. HasNoted(r, AtRest)
      BY <1>3, <2>2, <2>3 DEF HasNoted
    <3>. QED BY <1>2, <1>3, <2>2, <3>1 DEF RunStep
  <2>4. CASE settings' \in {settings, noted} /\ Slip
    <3>1. IsLost(r, AtRest)
      BY <1>3, <2>2, <2>4 DEF IsLost
    <3>. QED BY <1>2, <1>3, <2>2, <3>1 DEF RunStep
  <2>. QED BY <1>9, <2>1, <2>3, <2>4 DEF Records
<1>. QED BY <1>4, <1>5, <1>6, <1>7, <1>8, <1>9

-----------------------------------------------------------------------------
(* The mails: what is noted of a mail was so.                               *)

\* A try, or a mail, that `s` tells of took place: `tries`, `out` at time t.
Told(s, tries, out, t) ==
    /\ \A m \in Mails : s.tried[m] <= tries[m]
    /\ s.tried["weekly"] # NoTime => IsWeeklyDay(s.tried["weekly"])
    /\ s.sent["weekly"] # NoTime =>
          IsWeeklyDay(s.sent["weekly"]) /\ s.sent["weekly"] <= t /\ Day(s.sent["weekly"]) \in out["weekly"]
    /\ s.sent["monthly"] # NoTime => s.sent["monthly"] \in out["monthly"]
RunTold(me, tries, out, t) ==
    /\ Told(me.saw, tries, out, t)
    /\ me.pc \in {"send", "record"} => me.at <= tries[me.mail] /\ (me.mail = "weekly" => IsWeeklyDay(me.at))
    /\ me.pc = "record" => Issue(me.mail, me.at) \in out[me.mail]
NotesTrue ==
    /\ Told(settings, settings.tried, mailed, time)
    /\ \A m \in Mails : settings.tried[m] <= time
    /\ \A r \in MailRuns : RunTold(mailRun[r], settings.tried, mailed, time)
    /\ \A d \in mailed["weekly"] : d % WeekDays = TargetDay
\* Only one run is at work but for those that paid for their overlap.
WorkPaid == IsFiniteSet(AtWork) /\ Cardinality(AtWork) <= slips + 1
TruthInv == RepeatInv /\ NotesTrue /\ WorkPaid

TriedTimes == [Mails -> Times \cup {NoTime}]

LEMMA TimesAreInt ==
    /\ \A t \in Times \cup {NoTime} : t \in Int
    /\ \A s \in Settings, m \in Mails : s.tried[m] \in Int /\ s.sent[m] \in Int
    /\ \A s \in Settings : s.tried \in TriedTimes /\ s.sent \in TriedTimes
    /\ \A f \in TriedTimes, m \in Mails : f[m] \in Int
<1>1. \A t \in Times \cup {NoTime} : t \in Int
  BY IssueNumbers DEF Mails
<1>2. \A s \in Settings : s.tried \in TriedTimes /\ s.sent \in TriedTimes
  BY DEF Settings, TriedTimes
<1>3. \A f \in TriedTimes, m \in Mails : f[m] \in Int
  BY <1>1 DEF TriedTimes
<1>. QED BY <1>1, <1>2, <1>3

LEMMA ToldStays ==
    ASSUME NEW s \in Settings, NEW tries \in TriedTimes, NEW after \in TriedTimes,
           NEW out, NEW more, NEW t \in Times, NEW u \in Times,
           Told(s, tries, out, t), \A m \in Mails : tries[m] <= after[m] /\ out[m] \subseteq more[m], t <= u
    PROVE  Told(s, after, more, u)
<1>1. \A m \in Mails : s.tried[m] \in Int /\ s.sent[m] \in Int /\ tries[m] \in Int /\ after[m] \in Int
  BY TimesAreInt
<1>2. t \in Int /\ u \in Int
  BY TimesAreInt
<1>3. \A m \in Mails : s.tried[m] <= tries[m] /\ tries[m] <= after[m]
  BY DEF Told
<1>4. \A m \in Mails : s.tried[m] <= after[m]
  BY <1>1, <1>3
<1>5. s.sent["weekly"] # NoTime => s.sent["weekly"] <= u
  BY <1>1, <1>2 DEF Told, Mails
<1>. QED BY <1>4, <1>5 DEF Told, Mails

LEMMA RunToldStays ==
    ASSUME NEW me \in MailRunRecords, NEW tries \in TriedTimes, NEW after \in TriedTimes,
           NEW out, NEW more, NEW t \in Times, NEW u \in Times,
           RunTold(me, tries, out, t), \A m \in Mails : tries[m] <= after[m] /\ out[m] \subseteq more[m], t <= u
    PROVE  RunTold(me, after, more, u)
<1>1. me.mail \in Mails /\ me.at \in Times /\ me.saw \in Settings
  BY DEF MailRunRecords
<1>2. Told(me.saw, after, more, u)
  <2>1. Told(me.saw, tries, out, t)
    BY DEF RunTold
  <2>. QED BY <1>1, <2>1, ToldStays
<1>3. me.at \in Int /\ tries[me.mail] \in Int /\ after[me.mail] \in Int /\ tries[me.mail] <= after[me.mail]
  BY <1>1, TimesAreInt
<1>4. me.pc \in {"send", "record"} => me.at <= after[me.mail]
  BY <1>3 DEF RunTold
<1>. QED BY <1>1, <1>2, <1>4 DEF RunTold

\* The bare facts of a step of a run.
LEMMA StepGrows ==
    ASSUME TruthInv, MailTypeOK', NEW r \in MailRuns, NEW me, TurnsInto(r, me), RunStep(r, me), time' = time
    PROVE  /\ me \in MailRunRecords /\ mailRun[r] \in MailRunRecords
           /\ mailRun'[r] = me /\ \A s \in MailRuns \ {r} : mailRun'[s] = mailRun[s]
           /\ settings.tried \in TriedTimes /\ settings'.tried \in TriedTimes
           /\ \A m \in Mails : /\ settings.tried[m] <= settings'.tried[m] /\ settings'.tried[m] <= time
                               /\ mailed[m] \subseteq mailed'[m]
<1>1. MailTypeOK /\ settings \in Settings /\ settings' \in Settings /\ time \in Times
  BY DEF TruthInv, RepeatInv, MailTypeOK
<1>2. mailRun'[r] = me /\ \A s \in MailRuns \ {r} : mailRun'[s] = mailRun[s]
  BY <1>1 DEF TurnsInto, MailTypeOK
<1>3. me \in MailRunRecords /\ mailRun[r] \in MailRunRecords
  BY <1>1, <1>2 DEF MailTypeOK, MailRunRecords
<1>4. settings.tried \in TriedTimes /\ settings'.tried \in TriedTimes
  BY <1>1, TimesAreInt
<1>5. ASSUME NEW m \in Mails
      PROVE  settings.tried[m] <= settings'.tried[m] /\ settings'.tried[m] <= time
  <2>1. settings.tried[m] <= time /\ settings.tried[m] \in Int /\ time \in Int
    BY <1>1, TimesAreInt DEF TruthInv, NotesTrue
  <2>2. settings'.tried = settings.tried \/ settings'.tried = [settings.tried EXCEPT ![mailRun[r].mail] = time]
    BY DEF RunStep, Joins, GoesOn, FindsNothing, WillSend, HasGone, HasNoted, IsRefused, IsLost, NotesTry, NotesSent
  <2>3. settings'.tried[m] = settings.tried[m] \/ settings'.tried[m] = time
    BY <1>4, <2>2 DEF TriedTimes
  <2>. QED BY <2>1, <2>3
<1>6. \A m \in Mails : mailed[m] \subseteq mailed'[m]
  <2>1. mailed' = mailed \/ GoesOut(r)
    BY DEF RunStep, Joins, GoesOn, FindsNothing, WillSend, HasGone, HasNoted, IsRefused, IsLost
  <2>2. mailed \in [Mails -> SUBSET Times]
    BY <1>1 DEF MailTypeOK
  <2>. QED BY <2>1, <2>2 DEF GoesOut
<1>. QED BY <1>2, <1>3, <1>4, <1>5, <1>6

LEMMA MailOut ==
    ASSUME MailTypeOK, NEW r \in MailRuns, GoesOut(r), NEW x, x = mailRun[r].mail
    PROVE  /\ mailed'[x] = mailed[x] \cup {Issue(x, mailRun[r].at)}
           /\ \A n \in Mails \ {x} : mailed'[n] = mailed[n]
           /\ repeats' = IF Issue(x, mailRun[r].at) \in mailed[x] THEN repeats + 1 ELSE repeats
<1>. DEFINE k == Issue(x, mailRun[r].at)
<1>1. x \in Mails
  BY NoteNumbers
<1>2. mailed' = [mailed EXCEPT ![x] = @ \cup {k}] /\ repeats' = IF k \in mailed[x] THEN repeats + 1 ELSE repeats
  BY DEF GoesOut, Issue
<1>3. mailed \in [Mails -> SUBSET Times]
  BY DEF MailTypeOK
<1>. HIDE DEF k
<1>4. mailed'[x] = mailed[x] \cup {k} /\ \A n \in Mails \ {x} : mailed'[n] = mailed[n]
  BY <1>1, <1>2, <1>3
<1>. QED BY <1>2, <1>4 DEF k

LEMMA RestTold ==
    /\ AtRest.pc = "rest" /\ AtRest.saw = Unset /\ AtRest.mail = "weekly"
    /\ \A out, t : \A tries \in TriedTimes : RunTold(AtRest, tries, out, t)
<1>1. AtRest.pc = "rest" /\ AtRest.saw = Unset /\ AtRest.mail = "weekly"
  BY DEF AtRest
<1>2. \A m \in Mails : Unset.tried[m] = NoTime /\ Unset.sent[m] = NoTime
  BY DEF Unset
<1>3. ASSUME NEW tries \in TriedTimes, NEW m \in Mails
      PROVE  NoTime <= tries[m]
  <2>1. PICK x : x = tries[m]
    OBVIOUS
  <2>2. x \in Nat \/ x = NoTime
    BY <1>3, <2>1, MailNumbers DEF TriedTimes
  <2>3. NoTime <= x
    BY <2>2 DEF NoTime
  <2>. QED BY <2>1, <2>3
<1>. QED BY <1>1, <1>2, <1>3 DEF RunTold, Told, Mails

LEMMA NotesTrueStep ==
    ASSUME TruthInv, MailTypeOK', NEW r \in MailRuns, NEW me, TurnsInto(r, me), RunStep(r, me), time' = time
    PROVE  NotesTrue'
<1>. DEFINE was == mailRun[r]
            x == mailRun[r].mail
            k == Issue(was.mail, was.at)
            told == settings.tried
            told2 == settings'.tried
<1>1. /\ MailTypeOK /\ settings \in Settings /\ settings' \in Settings /\ time \in Times /\ NotesTrue
      /\ \A s \in MailRuns : mailRun[s] \in MailRunRecords
  BY DEF TruthInv, RepeatInv, MailTypeOK, MailRunRecords
<1>2. /\ me \in MailRunRecords /\ was \in MailRunRecords
      /\ mailRun'[r] = me /\ \A s \in MailRuns \ {r} : mailRun'[s] = mailRun[s]
      /\ told \in TriedTimes /\ told2 \in TriedTimes
      /\ \A m \in Mails : told[m] <= told2[m] /\ told2[m] <= time /\ mailed[m] \subseteq mailed'[m]
  BY StepGrows
<1>3. x \in Mails /\ was.at \in Times /\ time <= time
  <2>1. time \in Int
    BY <1>1, TimesAreInt
  <2>. QED BY <1>2, <2>1 DEF MailRunRecords
<1>. HIDE DEF told, told2, was
<1>4. ASSUME NEW y \in MailRunRecords, RunTold(y, told, mailed, time)
      PROVE  RunTold(y, told2, mailed', time)
  BY <1>1, <1>2, <1>3, <1>4, RunToldStays
<1>5. ASSUME NEW s \in Settings, Told(s, told, mailed, time)
      PROVE  Told(s, told2, mailed', time)
  BY <1>1, <1>2, <1>3, <1>5, ToldStays
<1>6. Told(settings, told2, mailed', time) /\ \A s \in MailRuns : RunTold(mailRun[s], told2, mailed', time)
  BY <1>1, <1>4, <1>5 DEF NotesTrue, told
<1>7. RunTold(was, told, mailed, time) /\ RunTold(was, told2, mailed', time)
  BY <1>1, <1>6 DEF NotesTrue, told, was
<1>8. Told(settings', told2, mailed', time)
  <2>1. \A m \in Mails : told2[m] <= told2[m]
    BY <1>2, TimesAreInt
  <2>2. settings' = settings \/ NotesTry(r) \/ NotesSent(r)
    BY DEF RunStep, Joins, GoesOn, FindsNothing, WillSend, HasGone, HasNoted, IsRefused, IsLost
  <2>3. CASE settings' = settings
    BY <1>6, <2>3
  <2>4. CASE NotesTry(r)
    <3>1. settings'.sent = settings.sent /\ told2 = [told EXCEPT ![x] = time] /\ (x = "weekly" => IsWeeklyDay(time))
      BY <2>4 DEF NotesTry, told, told2
    <3>2. told2["weekly"] # NoTime => IsWeeklyDay(told2["weekly"])
      <4>1. told["weekly"] # NoTime => IsWeeklyDay(told["weekly"])
        BY <1>6 DEF Told, told
      <4>. QED BY <1>2, <1>3, <3>1, <4>1 DEF TriedTimes
    <3>. QED BY <1>6, <2>1, <3>1, <3>2 DEF Told, told2
  <2>5. CASE NotesSent(r)
    <3>1. /\ settings'.tried = settings.tried /\ settings'.sent = [settings.sent EXCEPT ![x] = Noted(x, was.at)]
          /\ was.pc = "record"
      BY <2>5 DEF NotesSent, was
    <3>2. k \in mailed[x] /\ was.at <= told[x] /\ (x = "weekly" => IsWeeklyDay(was.at))
      BY <1>7, <3>1 DEF RunTold, was
    <3>3. k \in mailed'[x]
      BY <1>2, <1>3, <3>2
    <3>4. was.at <= time
      <4>1. was.at \in Int /\ told[x] \in Int /\ time \in Int /\ told[x] <= time
        BY <1>1, <1>2, <1>3, TimesAreInt DEF NotesTrue, told
      <4>. QED BY <3>2, <4>1
    <3>5. settings.sent \in TriedTimes
      BY <1>1, TimesAreInt
    <3>6. CASE x = "weekly"
      <4>1. Noted(x, was.at) = was.at /\ k = Day(was.at)
        BY <3>6 DEF Noted, Issue, was
      <4>2. settings'.sent["weekly"] = was.at /\ settings'.sent["monthly"] = settings.sent["monthly"]
        BY <1>3, <3>1, <3>5, <3>6, <4>1 DEF TriedTimes, Mails
      <4>. QED BY <1>6, <3>1, <3>2, <3>3, <3>4, <3>6, <4>1, <4>2 DEF Told
    <3>7. CASE x = "monthly"
      <4>1. Noted(x, was.at) = k
        BY <3>7 DEF Noted, Issue, was
      <4>2. settings'.sent["monthly"] = k /\ settings'.sent["weekly"] = settings.sent["weekly"]
        BY <1>3, <3>1, <3>5, <3>7, <4>1 DEF TriedTimes, Mails
      <4>. QED BY <1>6, <3>1, <3>3, <3>7, <4>2 DEF Told
    <3>. QED BY <1>3, <3>6, <3>7 DEF Mails
  <2>. QED BY <2>2, <2>3, <2>4, <2>5
<1>9. RunTold(me, told2, mailed', time)
  <2>1. CASE Joins(r, me)
    <3>1. me.pc = "gate" /\ me.saw = settings
      BY <2>1 DEF Joins
    <3>. QED BY <1>6, <3>1 DEF RunTold
  <2>2. CASE GoesOn(r, me)
    <3>1. me.pc = "gate" /\ me.saw = was.saw
      BY <2>2 DEF GoesOn, was
    <3>. QED BY <1>7, <3>1 DEF RunTold
  <2>3. CASE me = AtRest
    BY <1>2, <2>3, RestTold
  <2>4. CASE WillSend(r, me)
    <3>1. /\ me.pc = "send" /\ me.saw = was.saw /\ me.at = time /\ me.mail = x
          /\ told2 = [told EXCEPT ![x] = time] /\ (x = "weekly" => IsWeeklyDay(time))
      BY <2>4 DEF WillSend, NotesTry, was, told, told2
    <3>2. told2[x] = time
      BY <1>2, <1>3, <3>1 DEF TriedTimes
    <3>. QED BY <1>3, <1>7, <3>1, <3>2 DEF RunTold
  <2>5. CASE HasGone(r, me)
    <3>1. /\ me.pc = "record" /\ me.mail = x /\ me.saw = was.saw /\ me.at = was.at /\ was.pc = "send" /\ GoesOut(r)
      BY <2>5 DEF HasGone, was
    <3>2. Issue(me.mail, me.at) \in mailed'[me.mail]
      BY <1>1, <3>1, MailOut DEF was
    <3>. QED BY <1>7, <3>1, <3>2 DEF RunTold, was
  <2>. QED BY <2>1, <2>2, <2>3, <2>4, <2>5
       DEF RunStep, FindsNothing, HasNoted, IsRefused, IsLost
<1>10. \A s \in MailRuns : RunTold(mailRun'[s], told2, mailed', time)
  BY <1>2, <1>6, <1>9
<1>11. ASSUME NEW d \in mailed'["weekly"]
       PROVE  d % WeekDays = TargetDay
  <2>1. CASE d \in mailed["weekly"]
    BY <1>1, <2>1 DEF NotesTrue
  <2>2. CASE d \notin mailed["weekly"]
    <3>1. GoesOut(r) /\ was.pc = "send"
      BY <1>11, <2>2 DEF RunStep, Joins, GoesOn, FindsNothing, WillSend, HasGone, HasNoted, IsRefused, IsLost, was
    <3>2. x = "weekly" /\ d = k
      BY <1>1, <1>11, <2>2, <3>1, MailOut DEF Mails, was
    <3>3. IsWeeklyDay(was.at)
      BY <1>7, <3>1, <3>2 DEF RunTold, was
    <3>. QED BY <3>2, <3>3 DEF IsWeeklyDay, Issue, was
  <2>. QED BY <2>1, <2>2
<1>12. \A m \in Mails : told2[m] <= time'
  BY <1>2
<1>. QED BY <1>8, <1>10, <1>11, <1>12 DEF NotesTrue, told2

LEMMA WorkCounts ==
    ASSUME WorkPaid, NEW S, S \subseteq AtWork
    PROVE  /\ IsFiniteSet(AtWork) /\ Cardinality(AtWork) \in Nat
           /\ IsFiniteSet(S) /\ Cardinality(S) \in Nat /\ Cardinality(S) <= Cardinality(AtWork)
           /\ Cardinality(AtWork) = 0 <=> AtWork = {}
BY FS_Subset, FS_CardinalityType, FS_EmptySet DEF WorkPaid

LEMMA AtWorkMoves ==
    ASSUME MailTypeOK, NEW r \in MailRuns, NEW me, TurnsInto(r, me), RunStep(r, me)
    PROVE  \/ Joins(r, me) /\ r \notin AtWork /\ AtWork' = AtWork \cup {r}
           \/ me.pc # "rest" /\ r \in AtWork /\ AtWork' = AtWork /\ ran' = ran
           \/ me = AtRest /\ me.pc = "rest" /\ r \in AtWork /\ AtWork' = AtWork \ {r} /\ ran' = TRUE
<1>1. mailRun'[r] = me /\ \A s \in MailRuns \ {r} : mailRun'[s] = mailRun[s]
  BY DEF MailTypeOK, TurnsInto
<1>2. AtRest.pc = "rest"
  BY DEF AtRest
<1>3. CASE Joins(r, me)
  <2>1. mailRun[r].pc = "rest" /\ me.pc = "gate"
    BY <1>3 DEF Joins
  <2>. QED BY <1>1, <1>3, <2>1 DEF AtWork
<1>4. CASE GoesOn(r, me) \/ WillSend(r, me) \/ HasGone(r, me)
  <2>1. mailRun[r].pc # "rest" /\ me.pc # "rest" /\ ran' = ran
    BY <1>4 DEF GoesOn, WillSend, HasGone, NotesTry
  <2>. QED BY <1>1, <2>1 DEF AtWork
<1>5. CASE FindsNothing(r, me) \/ HasNoted(r, me) \/ IsRefused(r, me) \/ IsLost(r, me)
  <2>1. mailRun[r].pc # "rest" /\ me = AtRest /\ ran' = TRUE
    BY <1>5 DEF FindsNothing, HasNoted, IsRefused, IsLost, NotesSent
  <2>. QED BY <1>1, <1>2, <2>1 DEF AtWork
<1>. QED BY <1>3, <1>4, <1>5 DEF RunStep

LEMMA WorkPaidStep ==
    ASSUME MailTypeOK, WorkPaid, NEW r \in MailRuns, NEW me, TurnsInto(r, me), RunStep(r, me)
    PROVE  WorkPaid'
<1>. DEFINE n == Cardinality(AtWork)
<1>1. IsFiniteSet(AtWork) /\ n \in Nat /\ n <= slips + 1 /\ slips \in Nat
  BY WorkCounts, MailNumbers DEF WorkPaid, MailTypeOK
<1>2. slips' = slips \/ slips' = slips + 1
  BY DEF RunStep, Joins, GoesOn, FindsNothing, WillSend, HasGone, HasNoted, IsRefused, IsLost, Slip, NoSlip
<1>3. CASE Joins(r, me) /\ r \notin AtWork /\ AtWork' = AtWork \cup {r}
  <2>1. IsFiniteSet(AtWork') /\ Cardinality(AtWork') = n + 1
    BY <1>1, <1>3, FS_AddElement
  <2>2. n = 0 \/ slips' = slips + 1
    BY <1>3, FS_EmptySet DEF Joins, Slip
  <2>. HIDE DEF n
  <2>. QED BY <1>1, <1>2, <2>1, <2>2 DEF WorkPaid
<1>4. CASE AtWork' = AtWork
  <2>1. IsFiniteSet(AtWork') /\ Cardinality(AtWork') = n
    BY <1>1, <1>4
  <2>. HIDE DEF n
  <2>. QED BY <1>1, <1>2, <2>1 DEF WorkPaid
<1>5. CASE r \in AtWork /\ AtWork' = AtWork \ {r}
  <2>1. IsFiniteSet(AtWork') /\ Cardinality(AtWork') = n - 1
    BY <1>1, <1>5, FS_RemoveElement
  <2>. HIDE DEF n
  <2>. QED BY <1>1, <1>2, <2>1 DEF WorkPaid
<1>. QED BY <1>3, <1>4, <1>5, AtWorkMoves

LEMMA TruthStepKeeps ==
    ASSUME TruthInv, [MailNext]_mailVars
    PROVE  TruthInv'
<1>1. RepeatInv' /\ MailTypeOK /\ MailTypeOK'
  BY RepeatStepKeeps DEF TruthInv, RepeatInv
<1>2. NotesTrue' /\ WorkPaid'
  <2>1. ASSUME UNCHANGED <<settings, mailRun, slips, mailed>>, time' = time \/ time' = time + 1
        PROVE  NotesTrue' /\ WorkPaid'
    <3>1. time \in Times /\ time' \in Times /\ time <= time'
      <4>1. time \in Times /\ time' \in Times
        BY <1>1 DEF MailTypeOK
      <4>. QED BY <2>1, <4>1, TimesAreInt
    <3>2. settings \in Settings /\ settings.tried \in TriedTimes /\ \A s \in MailRuns : mailRun[s] \in MailRunRecords
      BY <1>1, TimesAreInt DEF MailTypeOK, MailRunRecords
    <3>3. \A m \in Mails : settings.tried[m] <= settings.tried[m] /\ mailed[m] \subseteq mailed[m]
      BY <3>2, TimesAreInt
    <3>4. Told(settings, settings.tried, mailed, time')
      BY <3>1, <3>2, <3>3, ToldStays DEF TruthInv, NotesTrue
    <3>5. \A s \in MailRuns : RunTold(mailRun[s], settings.tried, mailed, time')
      BY <3>1, <3>2, <3>3, RunToldStays DEF TruthInv, NotesTrue
    <3>6. \A m \in Mails : settings.tried[m] <= time'
      <4>1. \A m \in Mails : settings.tried[m] <= time /\ settings.tried[m] \in Int
        BY <3>2, TimesAreInt DEF TruthInv, NotesTrue
      <4>2. time \in Int /\ time' \in Int
        BY <3>1, TimesAreInt
      <4>. QED BY <3>1, <4>1, <4>2
    <3>7. NotesTrue'
      BY <2>1, <3>4, <3>5, <3>6 DEF TruthInv, NotesTrue
    <3>8. WorkPaid'
      BY <2>1 DEF TruthInv, WorkPaid, AtWork
    <3>. QED BY <3>7, <3>8
  <2>2. ASSUME NEW r \in MailRuns,
               Begins(r) \/ NotDue(r) \/ TooFewQueries(r) \/ TriesMail(r) \/ Sends(r) \/ Records(r) \/ MailRunDies(r)
        PROVE  NotesTrue' /\ WorkPaid'
    <3>1. PICK me : time' = time /\ TurnsInto(r, me) /\ RunStep(r, me)
      BY <1>1, <2>2, RunSteps
    <3>2. WorkPaid
      BY DEF TruthInv
    <3>. QED BY <1>1, <3>1, <3>2, NotesTrueStep, WorkPaidStep
  <2>3. UNCHANGED mailVars \/ Passes => UNCHANGED <<settings, mailRun, slips, mailed>> /\ (time' = time \/ time' = time + 1)
    BY DEF mailVars, Passes
  <2>. QED BY <2>1, <2>2, <2>3 DEF MailNext
<1>. QED BY <1>1, <1>2 DEF TruthInv

LEMMA TruthAtStart == MailInit => TruthInv
<1>. SUFFICES ASSUME MailInit PROVE TruthInv
  OBVIOUS
<1>1. MailTypeOK /\ RepeatInv
  BY MailTypeAtStart, RepeatAtStart
<1>2. /\ time = 0 /\ settings = Unset /\ mailed = [m \in Mails |-> {}] /\ slips = 0
      /\ \A r \in MailRuns : mailRun[r] = AtRest
  BY DEF MailInit
<1>3. Unset.tried \in TriedTimes /\ \A m \in Mails : Unset.tried[m] = NoTime /\ Unset.sent[m] = NoTime
  BY DEF Unset, TriedTimes
<1>4. \A r \in MailRuns : RunTold(mailRun[r], settings.tried, mailed, time)
  BY <1>2, <1>3, RestTold
<1>5. Told(settings, settings.tried, mailed, time) /\ \A m \in Mails : settings.tried[m] <= time
  <2>1. NoTime <= NoTime /\ NoTime <= 0
    BY DEF NoTime
  <2>. QED BY <1>2, <1>3, <2>1 DEF Told, Mails
<1>6. NotesTrue
  BY <1>2, <1>4, <1>5 DEF NotesTrue, Mails
<1>7. AtWork = {}
  BY <1>2, RestTold DEF AtWork
<1>8. WorkPaid
  BY <1>2, <1>7, FS_EmptySet DEF WorkPaid
<1>. QED BY <1>1, <1>6, <1>8 DEF TruthInv

-----------------------------------------------------------------------------
(* The mails: the summary goes out on its day.                              *)

Window == MaxSlips + 2
\* As many units at a day's end as runs may be busy with something else, and
\* a summary of the week before that is no reason to wait then.
RoomToSend ==
    /\ Window <= DayLength - TargetHour
    /\ MinGap < WeekDays * DayLength - MaxSlips
    /\ RetryAfter < WeekDays * DayLength - MaxSlips

One(b) == IF b THEN 1 ELSE 0
Awaits == IsWeeklyDay(time) /\ ~lapsed /\ Day(time) \notin mailed["weekly"]
\* A run that will send today's summary, or decide whether it is due.
ForToday(me) ==
    /\ me.mail = "weekly"
    /\ me.pc = "gate" \/ (me.pc = "send" /\ Day(me.at) = Day(time))
OnOther == {r \in AtWork : ~ForToday(mailRun[r])}
NotTried ==
    /\ \A r \in MailRuns : mailRun[r].pc = "gate" /\ mailRun[r].mail = "weekly" =>
           Day(mailRun[r].saw.tried["weekly"]) # Day(time)
    /\ Day(settings.tried["weekly"]) = Day(time) =>
           \E r \in MailRuns : mailRun[r].pc = "send" /\ ForToday(mailRun[r])
\* In the last units of the day there is one left for each run busy otherwise,
\* and one for the summary.
UnitsLeft == Hour(time) + Window >= DayLength =>
    Cardinality(OnOther) + Hour(time) + One(ran) < DayLength
SummaryInv == (Awaits => NotTried /\ UnitsLeft) /\ SummaryWentOut

LEMMA MailClock ==
    /\ \A t \in Int : /\ Day(t) \in Int /\ Hour(t) \in Int /\ 0 <= Hour(t) /\ Hour(t) < DayLength
                      /\ t = Day(t) * DayLength + Hour(t)
    /\ \A t \in Int : \/ Day(t + 1) = Day(t) /\ Hour(t + 1) = Hour(t) + 1
                      \/ Day(t + 1) = Day(t) + 1 /\ Hour(t + 1) = 0 /\ Hour(t) = DayLength - 1
    /\ \A t, u \in Int : t <= u /\ Day(t) = Day(u) => Hour(t) <= Hour(u)
<1>1. DayLength \in Nat \ {0}
  BY MailNumbers
<1>2. ASSUME NEW n \in Nat \ {0}, NEW t \in Int
      PROVE  t \div n \in Int /\ t % n \in Int /\ 0 <= t % n /\ t % n < n /\ t = (t \div n) * n + (t % n)
  OBVIOUS
<1>3. \A t \in Int : /\ Day(t) \in Int /\ Hour(t) \in Int /\ 0 <= Hour(t) /\ Hour(t) < DayLength
                     /\ t = Day(t) * DayLength + Hour(t)
  BY <1>1, <1>2 DEF Day, Hour
<1>4. ASSUME NEW t \in Int
      PROVE  \/ Day(t + 1) = Day(t) /\ Hour(t + 1) = Hour(t) + 1
             \/ Day(t + 1) = Day(t) + 1 /\ Hour(t + 1) = 0 /\ Hour(t) = DayLength - 1
  <2>1. PICK d, e, h, g \in Int : d = Day(t) /\ e = Day(t + 1) /\ h = Hour(t) /\ g = Hour(t + 1)
    <3>1. t + 1 \in Int
      OBVIOUS
    <3>. QED BY <1>3, <3>1
  <2>2. /\ 0 <= h /\ h < DayLength /\ 0 <= g /\ g < DayLength /\ t = d * DayLength + h /\ t + 1 = e * DayLength + g
    BY <1>3, <2>1
  <2>3. d <= e
    BY <2>1, MailDays
  <2>4. (d + 2) * DayLength = d * DayLength + DayLength + DayLength /\ (d + 1) * DayLength = d * DayLength + DayLength
        /\ d * DayLength \in Int
    BY <1>1
  <2>5. e < d + 2
    <3>1. d + 2 <= e <=> (d + 2) * DayLength <= t + 1
      BY <2>1, MailDays
    <3>2. ~((d + 2) * DayLength <= t + 1)
      BY <1>1, <2>2, <2>4
    <3>. QED BY <3>1, <3>2
  <2>6. e = d \/ e = d + 1
    BY <2>3, <2>5
  <2>7. CASE e = d
    <3>1. g = h + 1
      BY <1>1, <2>2, <2>4, <2>7
    <3>. QED BY <2>1, <2>7, <3>1
  <2>8. CASE e = d + 1
    <3>1. g = 0 /\ h = DayLength - 1
      <4>1. t = d * DayLength + h /\ t + 1 = d * DayLength + DayLength + g
        BY <2>2, <2>4, <2>8
      <4>2. h + 1 = DayLength + g
        BY <1>1, <2>4, <4>1
      <4>. QED BY <1>1, <2>2, <4>2
    <3>. QED BY <2>1, <2>8, <3>1
  <2>. QED BY <2>6, <2>7, <2>8
<1>5. ASSUME NEW t \in Int, NEW u \in Int, t <= u, Day(t) = Day(u)
      PROVE  Hour(t) <= Hour(u)
  <2>1. PICK p \in Int : p = Day(t) * DayLength
    BY <1>1, <1>3
  <2>2. t = p + Hour(t) /\ u = p + Hour(u) /\ Hour(t) \in Int /\ Hour(u) \in Int
    BY <1>3, <1>5, <2>1
  <2>. QED BY <1>5, <2>2
<1>. QED BY <1>3, <1>4, <1>5

\* A summary's day of another week is a week ago, but for the hours.
LEMMA WeekApart ==
    ASSUME NEW t \in Int, NEW v \in Int, v <= t, Day(v) # Day(t), Day(v) % WeekDays = Day(t) % WeekDays
    PROVE  WeekDays * DayLength \in Int /\ t - v >= WeekDays * DayLength - (DayLength - 1) + Hour(t)
<1>1. WeekDays \in Nat \ {0} /\ DayLength \in Nat \ {0}
  BY MailAssumption
<1>2. PICK d, e, h, g \in Int : d = Day(t) /\ e = Day(v) /\ h = Hour(t) /\ g = Hour(v)
  BY MailClock
<1>3. g < DayLength /\ t = d * DayLength + h /\ v = e * DayLength + g /\ e <= d /\ e # d
  BY <1>2, MailClock, MailDays
<1>4. e + WeekDays <= d
  <2>1. \A x \in Int, n \in Nat \ {0} : x \div n \in Int /\ x % n \in Int /\ x = (x \div n) * n + (x % n)
    OBVIOUS
  <2>2. PICK p, q, m \in Int : p = d \div WeekDays /\ q = e \div WeekDays /\ m = d % WeekDays
    BY <1>1, <2>1
  <2>3. d = p * WeekDays + m /\ e = q * WeekDays + m
    <3>1. m = d % WeekDays /\ m = e % WeekDays
      BY <1>2, <2>2
    <3>2. d = (d \div WeekDays) * WeekDays + (d % WeekDays)
      BY <1>1, <2>1
    <3>3. e = (e \div WeekDays) * WeekDays + (e % WeekDays)
      BY <1>1, <2>1
    <3>. QED BY <2>2, <3>1, <3>2, <3>3
  <2>4. q < p
    <3>1. p <= q <=> p * WeekDays <= q * WeekDays
      BY <1>1, Division
    <3>2. p * WeekDays \in Int /\ q * WeekDays \in Int
      BY <1>1
    <3>. QED BY <1>3, <2>3, <3>1, <3>2
  <2>5. (q + 1) * WeekDays <= p * WeekDays
    BY <1>1, <2>4, Division
  <2>6. (q + 1) * WeekDays = q * WeekDays + WeekDays /\ q * WeekDays \in Int /\ p * WeekDays \in Int
    BY <1>1
  <2>. QED BY <1>1, <2>3, <2>5, <2>6
<1>5. (e + WeekDays) * DayLength <= d * DayLength
  BY <1>1, <1>4, Division
<1>6. /\ (e + WeekDays) * DayLength = e * DayLength + WeekDays * DayLength
      /\ e * DayLength \in Int /\ WeekDays * DayLength \in Int /\ d * DayLength \in Int
  BY <1>1
<1>7. t - v >= WeekDays * DayLength - (DayLength - 1) + h
  BY <1>1, <1>3, <1>5, <1>6
<1>. QED BY <1>2, <1>6, <1>7

\* In the last units of the day a summary that did not go out is due.
LEMMA SummaryIsDue ==
    ASSUME TruthInv, RoomToSend, IsWeeklyDay(time), Hour(time) + Window >= DayLength,
           Day(time) \notin mailed["weekly"],
           NEW r \in MailRuns, Day(mailRun[r].saw.tried["weekly"]) # Day(time)
    PROVE  MailDue("weekly", time, mailRun[r].saw)
<1>. DEFINE saw == mailRun[r].saw
<1>1. MailTypeOK /\ saw \in Settings /\ time \in Times /\ settings \in Settings
  BY DEF TruthInv, RepeatInv, MailTypeOK
<1>2. Told(saw, settings.tried, mailed, time) /\ settings.tried["weekly"] <= time
  BY DEF TruthInv, NotesTrue, RunTold, Mails
<1>3. time \in Int /\ saw.tried["weekly"] \in Int /\ saw.sent["weekly"] \in Int /\ settings.tried["weekly"] \in Int
  BY <1>1, TimesAreInt DEF Mails
<1>4. DayLength \in Nat /\ MaxSlips \in Nat /\ MinGap \in Nat /\ RetryAfter \in Nat /\ WeekDays * DayLength \in Int
  BY MailAssumption
<1>. HIDE DEF saw
<1>5. ASSUME NEW v \in Int, NEW gap \in Nat, v = NoTime \/ (v <= time /\ IsWeeklyDay(v) /\ Day(v) # Day(time)),
             gap < WeekDays * DayLength - MaxSlips
      PROVE  Elapsed(time, v, gap)
  <2>1. CASE v = NoTime
    BY <2>1 DEF Elapsed
  <2>2. CASE v <= time /\ IsWeeklyDay(v) /\ Day(v) # Day(time)
    <3>1. time - v >= WeekDays * DayLength - (DayLength - 1) + Hour(time)
      BY <1>3, <2>2, WeekApart DEF IsWeeklyDay
    <3>2. Hour(time) \in Int /\ Hour(time) + MaxSlips + 2 >= DayLength
      BY <1>3, <1>4, MailClock DEF Window
    <3>3. time - v >= gap
      <4>1. PICK w \in Int : w = WeekDays * DayLength
        BY <1>4
      <4>. QED BY <1>3, <1>4, <1>5, <3>1, <3>2, <4>1
    <3>. QED BY <3>3 DEF Elapsed
  <2>. QED BY <1>5, <2>1, <2>2
<1>6. Elapsed(time, saw.sent["weekly"], MinGap)
  BY <1>2, <1>3, <1>4, <1>5 DEF Told, RoomToSend
<1>7. Elapsed(time, saw.tried["weekly"], RetryAfter)
  <2>1. saw.tried["weekly"] # NoTime => IsWeeklyDay(saw.tried["weekly"])
    BY <1>2 DEF Told
  <2>2. saw.tried["weekly"] <= time
    <3>1. saw.tried["weekly"] <= settings.tried["weekly"]
      BY <1>2 DEF Told, Mails
    <3>. QED BY <1>2, <1>3, <3>1
  <2>. QED BY <1>3, <1>4, <1>5, <2>1, <2>2 DEF RoomToSend, saw
<1>. QED BY <1>6, <1>7 DEF MailDue, isWeeklyDue, MayRetry, saw

\* What a step of a run, with nothing going wrong, does to the runs busy otherwise.
LEMMA OtherMoves ==
    ASSUME TruthInv, MailTypeOK', NEW r \in MailRuns, NEW me, TurnsInto(r, me), RunStep(r, me), time' = time,
           Awaits, NotTried, Awaits', Hour(time) + Window >= DayLength, RoomToSend
    PROVE  \/ OnOther' \subseteq OnOther /\ ran' = ran
           \/ r \in OnOther /\ OnOther' \subseteq OnOther \ {r}
<1>1. mailRun'[r] = me /\ (\A s \in MailRuns \ {r} : mailRun'[s] = mailRun[s]) /\ MailTypeOK
  BY StepGrows DEF TruthInv, RepeatInv
<1>2. ASSUME NEW s \in OnOther', s # r
      PROVE  s \in OnOther
  <2>1. s \in MailRuns /\ mailRun'[s] = mailRun[s]
    BY <1>1, <1>2 DEF OnOther, AtWork
  <2>. QED BY <1>2, <2>1 DEF OnOther, AtWork, ForToday
<1>3. ASSUME r \in OnOther' => r \in OnOther, ran' = ran
      PROVE  OnOther' \subseteq OnOther /\ ran' = ran
  BY <1>2, <1>3
<1>4. ASSUME me = AtRest, r \in OnOther
      PROVE  r \in OnOther /\ OnOther' \subseteq OnOther \ {r}
  <2>1. r \notin OnOther'
    BY <1>1, <1>4, RestTold DEF OnOther, AtWork
  <2>. QED BY <1>2, <1>4, <2>1
<1>5. ~lapsed' /\ Day(time) \notin mailed'["weekly"]
  BY DEF Awaits
<1>6. CASE Joins(r, me)
  <2>1. r \notin OnOther' /\ ran' = ran
    BY <1>1, <1>6 DEF Joins, OnOther, ForToday
  <2>. QED BY <1>3, <2>1
<1>7. CASE GoesOn(r, me)
  <2>1. Day(mailRun[r].saw.tried["weekly"]) # Day(time) /\ ~MailDue("weekly", time, mailRun[r].saw)
    BY <1>7 DEF GoesOn, NotTried
  <2>. QED BY <2>1, SummaryIsDue DEF Awaits
<1>8. CASE FindsNothing(r, me)
  <2>1. r \in OnOther
    BY <1>8 DEF FindsNothing, OnOther, AtWork, ForToday
  <2>. QED BY <1>4, <1>8, <2>1 DEF FindsNothing
<1>9. CASE WillSend(r, me)
  <2>1. r \in OnOther' => r \in OnOther
    BY <1>1, <1>9 DEF WillSend, NotesTry, OnOther, AtWork, ForToday
  <2>. QED BY <1>3, <1>9, <2>1 DEF WillSend
<1>10. CASE HasGone(r, me)
  <2>1. mailRun[r].pc = "send" /\ GoesOut(r) /\ ran' = ran
    BY <1>10 DEF HasGone
  <2>2. ~ForToday(mailRun[r])
    <3>. SUFFICES ASSUME ForToday(mailRun[r]) PROVE FALSE
      OBVIOUS
    <3>1. mailRun[r].mail = "weekly" /\ Issue("weekly", mailRun[r].at) = Day(time)
      BY <2>1 DEF ForToday, Issue
    <3>2. Day(time) \in mailed'["weekly"]
      BY <1>1, <2>1, <3>1, MailOut
    <3>. QED BY <1>5, <3>2
  <2>3. r \in OnOther
    BY <2>1, <2>2 DEF OnOther, AtWork
  <2>. QED BY <1>3, <2>1, <2>3
<1>11. CASE HasNoted(r, me)
  <2>1. r \in OnOther
    BY <1>11 DEF HasNoted, NotesSent, OnOther, AtWork, ForToday
  <2>. QED BY <1>4, <1>11, <2>1 DEF HasNoted
<1>12. ~IsRefused(r, me) /\ ~IsLost(r, me)
  BY <1>5 DEF IsRefused, IsLost, Slip
<1>. QED BY <1>6, <1>7, <1>8, <1>9, <1>10, <1>11, <1>12 DEF RunStep

LEMMA NotTriedStep ==
    ASSUME TruthInv, MailTypeOK', NEW r \in MailRuns, NEW me, TurnsInto(r, me), RunStep(r, me), time' = time,
           Awaits, NotTried, Awaits'
    PROVE  NotTried'
<1>1. mailRun'[r] = me /\ (\A s \in MailRuns \ {r} : mailRun'[s] = mailRun[s]) /\ MailTypeOK
  BY StepGrows DEF TruthInv, RepeatInv
<1>2. ~lapsed' /\ Day(time) \notin mailed'["weekly"]
  BY DEF Awaits
<1>3. ~IsRefused(r, me) /\ ~IsLost(r, me)
  BY <1>2 DEF IsRefused, IsLost, Slip
<1>4. ASSUME me.pc = "gate", me.mail = "weekly"
      PROVE  Day(me.saw.tried["weekly"]) # Day(time)
  <2>1. Joins(r, me)
    BY <1>3, <1>4, RestTold DEF RunStep, GoesOn, FindsNothing, WillSend, HasGone, HasNoted
  <2>2. AtWork = {} /\ me.saw = settings
    BY <1>2, <2>1 DEF Joins, Slip
  <2>3. \A s \in MailRuns : mailRun[s].pc # "send"
    BY <2>2 DEF AtWork
  <2>. QED BY <2>2, <2>3 DEF NotTried
<1>5. ASSUME Day(settings'.tried["weekly"]) = Day(time)
      PROVE  \E s \in MailRuns : mailRun'[s].pc = "send" /\ mailRun'[s].mail = "weekly" /\ Day(mailRun'[s].at) = Day(time)
  <2>1. CASE WillSend(r, me) /\ mailRun[r].mail = "weekly"
    <3>1. me.pc = "send" /\ me.mail = "weekly" /\ me.at = time
      BY <2>1 DEF WillSend
    <3>. QED BY <1>1, <3>1
  <2>2. CASE ~(WillSend(r, me) /\ mailRun[r].mail = "weekly")
    <3>1. settings'.tried["weekly"] = settings.tried["weekly"]
      <4>1. CASE WillSend(r, me)
        <5>1. settings'.tried = [settings.tried EXCEPT ![mailRun[r].mail] = time] /\ mailRun[r].mail # "weekly"
          BY <2>2, <4>1 DEF WillSend, NotesTry
        <5>. QED BY <1>1, <5>1
      <4>2. CASE ~WillSend(r, me)
        BY <1>3, <4>2 DEF RunStep, Joins, GoesOn, FindsNothing, HasGone, HasNoted, NotesSent
      <4>. QED BY <4>1, <4>2
    <3>2. PICK s \in MailRuns : mailRun[s].pc = "send" /\ mailRun[s].mail = "weekly" /\ Day(mailRun[s].at) = Day(time)
      BY <1>5, <3>1 DEF NotTried, ForToday
    <3>3. s # r
      <4>. SUFFICES ASSUME s = r PROVE FALSE
        OBVIOUS
      <4>1. GoesOut(r)
        BY <1>3, <3>2 DEF RunStep, Joins, GoesOn, FindsNothing, WillSend, NotesTry, HasGone, HasNoted, NotesSent
      <4>2. Day(time) \in mailed'["weekly"]
        BY <1>1, <3>2, <4>1, MailOut DEF Issue
      <4>. QED BY <1>2, <4>2
    <3>. QED BY <1>1, <3>2, <3>3
  <2>. QED BY <2>1, <2>2
<1>6. ASSUME NEW s \in MailRuns, mailRun'[s].pc = "gate", mailRun'[s].mail = "weekly"
      PROVE  Day(mailRun'[s].saw.tried["weekly"]) # Day(time)
  BY <1>1, <1>4, <1>6 DEF NotTried
<1>. QED BY <1>5, <1>6 DEF NotTried, ForToday

OtherFacts ==
    /\ IsFiniteSet(OnOther) /\ Cardinality(OnOther) \in Nat /\ Cardinality(OnOther) < Window
    /\ time \in Times /\ time \in Int /\ Hour(time) \in Int /\ 0 <= Hour(time) /\ Hour(time) < DayLength
    /\ DayLength \in Nat /\ Window \in Nat /\ TargetHour \in Nat
    /\ One(ran) \in {0, 1} /\ (ran => One(ran) = 1)
LEMMA OtherCounts == TruthInv => OtherFacts
<1>. SUFFICES ASSUME TruthInv PROVE OtherFacts
  OBVIOUS
<1>1. OnOther \subseteq AtWork
  BY DEF OnOther
<1>2. MailTypeOK /\ WorkPaid
  BY DEF TruthInv, RepeatInv
<1>3. IsFiniteSet(OnOther) /\ Cardinality(OnOther) \in Nat /\ Cardinality(OnOther) <= Cardinality(AtWork)
      /\ Cardinality(AtWork) \in Nat
  BY <1>1, <1>2, WorkCounts
<1>4. slips \in Nat /\ slips <= MaxSlips /\ MaxSlips \in Nat
  BY <1>2, MailNumbers DEF MailTypeOK
<1>5. Cardinality(OnOther) < Window
  BY <1>2, <1>3, <1>4 DEF WorkPaid, Window
<1>6. time \in Times /\ time \in Int
  BY <1>2, TimesAreInt DEF MailTypeOK
<1>7. Window \in Nat /\ DayLength \in Nat /\ TargetHour \in Nat
  BY <1>4, MailAssumption DEF Window
<1>. QED BY <1>3, <1>5, <1>6, <1>7, MailClock DEF One, OtherFacts

LEMMA SummaryRunStep ==
    ASSUME TruthInv, TruthInv', NEW r \in MailRuns, NEW me, TurnsInto(r, me), RunStep(r, me), time' = time,
           RoomToSend, SummaryInv
    PROVE  SummaryInv'
<1>1. MailTypeOK' /\ MailTypeOK
  BY DEF TruthInv, RepeatInv
<1>2. mailed["weekly"] \subseteq mailed'["weekly"]
  BY <1>1, StepGrows DEF Mails
<1>3. lapsed => lapsed'
  BY DEF RunStep, Joins, GoesOn, FindsNothing, WillSend, HasGone, HasNoted, IsRefused, IsLost, Slip, NoSlip
<1>4. SummaryWentOut'
  BY <1>2, <1>3 DEF SummaryInv, SummaryWentOut
<1>5. OtherFacts
  BY OtherCounts
<1>6. OtherFacts'
  BY OtherCounts, PTL
<1>7. ASSUME Awaits'
      PROVE  NotTried' /\ UnitsLeft'
  <2>1. Awaits /\ NotTried /\ UnitsLeft
    BY <1>2, <1>3, <1>7 DEF Awaits, SummaryInv
  <2>2. NotTried'
    BY <1>1, <1>7, <2>1, NotTriedStep
  <2>3. ASSUME Hour(time) + Window >= DayLength
        PROVE  Cardinality(OnOther') + Hour(time) + One(ran') < DayLength
    <3>. DEFINE c == Cardinality(OnOther)
                d == Cardinality(OnOther')
    <3>1. c + Hour(time) + One(ran) < DayLength
      BY <2>1, <2>3 DEF UnitsLeft
    <3>2. /\ IsFiniteSet(OnOther) /\ c \in Nat /\ Hour(time) \in Int /\ One(ran) \in {0, 1} /\ DayLength \in Nat
          /\ One(ran') \in {0, 1}
      BY <1>5, <1>6 DEF OtherFacts, One
    <3>3. \/ d <= c /\ ran' = ran
          \/ d <= c - 1
      <4>1. CASE OnOther' \subseteq OnOther /\ ran' = ran
        BY <3>2, <4>1, FS_Subset
      <4>2. CASE r \in OnOther /\ OnOther' \subseteq OnOther \ {r}
        <5>1. IsFiniteSet(OnOther \ {r}) /\ Cardinality(OnOther \ {r}) = c - 1
          BY <3>2, <4>2, FS_RemoveElement
        <5>. QED BY <4>2, <5>1, FS_Subset
      <4>. QED BY <1>1, <1>7, <2>1, <2>3, <4>1, <4>2, OtherMoves
    <3>4. d \in Nat
      BY <1>6 DEF OtherFacts
    <3>. HIDE DEF c, d
    <3>5. d + Hour(time) + One(ran') < DayLength
      BY <3>1, <3>2, <3>3, <3>4
    <3>. QED BY <3>5 DEF d
  <2>4. UnitsLeft'
    BY <2>3 DEF UnitsLeft
  <2>. QED BY <2>2, <2>4
<1>. QED BY <1>4, <1>7 DEF SummaryInv

LEMMA SummaryPasses ==
    ASSUME TruthInv, TruthInv', Passes, RoomToSend, SummaryInv
    PROVE  SummaryInv'
<1>3. /\ ran /\ time' = time + 1 /\ ran' = FALSE /\ UNCHANGED <<settings, mailRun, mailed>>
      /\ lapsed' = (lapsed /\ (IsWeeklyDay(time') => IsWeeklyDay(time)))
  BY DEF Passes
<1>1. OtherFacts
  BY OtherCounts
<1>2. OtherFacts'
  BY OtherCounts, PTL
<1>4. PICK h, g \in Int : h = Hour(time) /\ g = Hour(time')
  BY <1>1, <1>2 DEF OtherFacts
<1>5. /\ time \in Int /\ 0 <= h /\ h < DayLength /\ 0 <= g /\ g < DayLength
      /\ DayLength \in Nat /\ Window \in Nat /\ TargetHour \in Nat /\ Window + TargetHour <= DayLength
  BY <1>1, <1>2, <1>4 DEF OtherFacts, RoomToSend
<1>6. \/ Day(time') = Day(time) /\ g = h + 1
      \/ Day(time') = Day(time) + 1 /\ g = 0 /\ h = DayLength - 1
  BY <1>3, <1>4, <1>5, MailClock
<1>7. Day(time) \in Int /\ (Day(time') # Day(time) => Day(time') = Day(time) + 1)
  BY <1>5, <1>6, MailClock
<1>8. Cardinality(OnOther) \in Nat /\ Cardinality(OnOther) < Window /\ One(ran) = 1 /\ One(ran') = 0
  BY <1>1, <1>3 DEF OtherFacts, One
<1>9. Cardinality(OnOther') \in Nat /\ Cardinality(OnOther') < Window
  BY <1>2 DEF OtherFacts
<1>10. SummaryWentOut'
  <2>. SUFFICES ASSUME IsWeeklyDay(time), ~IsWeeklyDay(time'), ~lapsed, Day(time) \notin mailed["weekly"]
                PROVE  FALSE
    <3>1. time' - 1 = time
      BY <1>3, <1>5
    <3>2. ~lapsed' /\ ~IsWeeklyDay(time') => ~lapsed
      BY <1>3, Zenon
    <3>. QED BY <1>3, <3>1, <3>2 DEF SummaryWentOut
  <2>1. h = DayLength - 1
    <3>1. CASE Day(time') = Day(time) /\ g = h + 1
      <4>1. h >= TargetHour /\ Day(time) % WeekDays = TargetDay
        BY <1>4 DEF IsWeeklyDay
      <4>2. g >= TargetHour
        BY <1>5, <3>1, <4>1
      <4>. QED BY <1>4, <3>1, <4>1, <4>2 DEF IsWeeklyDay
    <3>. QED BY <1>6, <3>1
  <2>2. UnitsLeft
    BY DEF SummaryInv, Awaits
  <2>3. h + Window >= DayLength
    BY <1>5, <1>8, <2>1
  <2>. QED BY <1>4, <1>5, <1>8, <2>1, <2>2, <2>3 DEF UnitsLeft
<1>11. ASSUME Awaits', Day(time') = Day(time), IsWeeklyDay(time)
      PROVE  NotTried' /\ UnitsLeft'
  <2>1. ~lapsed
    <3>1. ~lapsed' => ~lapsed
      BY <1>3, <1>11, Zenon
    <3>. QED BY <1>11, <3>1 DEF Awaits
  <2>2. NotTried /\ UnitsLeft
    BY <1>3, <1>11, <2>1 DEF Awaits, SummaryInv
  <2>3. NotTried'
    BY <1>3, <1>11, <2>2 DEF NotTried, ForToday
  <2>4. OnOther' = OnOther
    BY <1>3, <1>11 DEF OnOther, AtWork, ForToday
  <2>5. g = h + 1
    BY <1>6, <1>7, <1>11
  <2>6. UnitsLeft'
    <3>1. CASE h + Window >= DayLength
      BY <1>4, <1>5, <1>8, <2>2, <2>4, <2>5, <3>1 DEF UnitsLeft
    <3>2. CASE h + Window < DayLength
      BY <1>4, <1>5, <1>8, <1>9, <2>5, <3>2 DEF UnitsLeft
    <3>. QED BY <1>5, <3>1, <3>2
  <2>. QED BY <2>3, <2>6
<1>12. ASSUME Awaits', Day(time') # Day(time) \/ ~IsWeeklyDay(time)
       PROVE  NotTried' /\ UnitsLeft'
  <2>1. IsWeeklyDay(time')
    BY <1>12 DEF Awaits
  <2>2. g = 0 \/ g = TargetHour
    <3>1. CASE Day(time') = Day(time) /\ g = h + 1
      <4>1. g >= TargetHour /\ ~(h >= TargetHour)
        BY <1>4, <1>12, <2>1, <3>1 DEF IsWeeklyDay
      <4>. QED BY <1>5, <3>1, <4>1
    <3>. QED BY <1>6, <3>1
  <2>3. UnitsLeft'
    BY <1>4, <1>5, <1>8, <1>9, <2>2 DEF UnitsLeft
  <2>4. ASSUME NEW v \in Int, v = NoTime \/ IsWeeklyDay(v), v <= time
        PROVE  Day(v) # Day(time')
    <3>. SUFFICES ASSUME Day(v) = Day(time') PROVE FALSE
      OBVIOUS
    <3>0. Day(v) <= Day(time) /\ Day(v) \in Int
      BY <1>5, <2>4, MailDays
    <3>1. Day(time') = Day(time)
      BY <1>6, <1>7, <3>0
    <3>2. ~IsWeeklyDay(time) /\ Day(v) = Day(time)
      BY <1>12, <3>1
    <3>3. CASE v = NoTime
      <4>1. Day(v) * DayLength <= v /\ Day(time) * DayLength <= time /\ time < Day(time) * DayLength + DayLength
            /\ v < Day(v) * DayLength + DayLength
        BY <1>5, MailDays
      <4>2. time >= 0
        BY <1>1, MailNumbers DEF OtherFacts
      <4>3. 0 <= Day(time)
        <5>1. 0 * DayLength = 0 /\ 0 <= time
          BY <1>5, <4>2
        <5>. QED BY <1>5, <5>1, MailDays
      <4>4. 0 <= Day(v) => 0 <= v
        <5>1. 0 * DayLength = 0
          BY <1>5
        <5>. QED BY <2>4, <5>1, MailDays
      <4>. QED BY <3>2, <3>3, <4>3, <4>4 DEF NoTime
    <3>4. CASE IsWeeklyDay(v)
      <4>1. Hour(v) <= h
        BY <1>4, <1>5, <2>4, <3>2, MailClock
      <4>2. Hour(v) >= TargetHour /\ Day(time) % WeekDays = TargetDay /\ Hour(v) \in Int
        BY <2>4, <3>2, <3>4, MailClock DEF IsWeeklyDay
      <4>3. h >= TargetHour
        BY <1>5, <4>1, <4>2
      <4>. QED BY <1>4, <3>2, <4>2, <4>3 DEF IsWeeklyDay
    <3>. QED BY <2>4, <3>3, <3>4
  <2>5. ASSUME NEW s \in Settings, Told(s, settings.tried, mailed, time)
        PROVE  Day(s.tried["weekly"]) # Day(time')
    <3>1. /\ s.tried["weekly"] <= settings.tried["weekly"]
          /\ s.tried["weekly"] = NoTime \/ IsWeeklyDay(s.tried["weekly"])
      BY <2>5 DEF Told, Mails
    <3>2. settings.tried["weekly"] <= time
      BY DEF TruthInv, NotesTrue, Mails
    <3>3. settings \in Settings
      BY DEF TruthInv, RepeatInv, MailTypeOK
    <3>4. s.tried["weekly"] \in Int /\ settings.tried["weekly"] \in Int
      BY <3>3, TimesAreInt DEF Mails
    <3>5. s.tried["weekly"] <= time
      BY <1>5, <3>1, <3>2, <3>4
    <3>. QED BY <2>4, <3>1, <3>4, <3>5
  <2>6. settings \in Settings /\ \A s \in MailRuns : mailRun[s].saw \in Settings
    BY DEF TruthInv, RepeatInv, MailTypeOK
  <2>7. /\ Day(settings.tried["weekly"]) # Day(time')
        /\ \A s \in MailRuns : Day(mailRun[s].saw.tried["weekly"]) # Day(time')
    BY <2>5, <2>6 DEF TruthInv, NotesTrue, RunTold
  <2>8. NotTried'
    BY <1>3, <2>7 DEF NotTried
  <2>. QED BY <2>3, <2>8
<1>. QED BY <1>10, <1>11, <1>12 DEF SummaryInv

LEMMA SummaryStepKeeps ==
    ASSUME RoomToSend, TruthInv, SummaryInv, [MailNext]_mailVars
    PROVE  SummaryInv'
<1>1. TruthInv' /\ MailTypeOK
  BY TruthStepKeeps DEF TruthInv, RepeatInv
<1>2. CASE UNCHANGED mailVars
  BY <1>2 DEF mailVars, SummaryInv, Awaits, NotTried, UnitsLeft, SummaryWentOut, OnOther, AtWork, ForToday
<1>3. CASE Passes
  BY <1>1, <1>3, SummaryPasses
<1>4. ASSUME NEW r \in MailRuns,
             Begins(r) \/ NotDue(r) \/ TooFewQueries(r) \/ TriesMail(r) \/ Sends(r) \/ Records(r) \/ MailRunDies(r)
      PROVE  SummaryInv'
  <2>1. PICK me : time' = time /\ TurnsInto(r, me) /\ RunStep(r, me)
    BY <1>1, <1>4, RunSteps
  <2>. QED BY <1>1, <2>1, SummaryRunStep
<1>. QED BY <1>2, <1>3, <1>4 DEF MailNext

LEMMA SummaryAtStart ==
    ASSUME MailInit, RoomToSend
    PROVE  SummaryInv
<1>1. TruthInv
  BY TruthAtStart
<1>2. /\ time = 0 /\ settings = Unset /\ ran = FALSE /\ \A r \in MailRuns : mailRun[r].pc = "rest"
  BY RestTold DEF MailInit
<1>3. SummaryWentOut
  BY <1>2 DEF SummaryWentOut
<1>4. Hour(0) = 0 /\ Day(0) = 0
  <2>1. \A n \in Nat \ {0} : 0 % n = 0 /\ 0 \div n = 0
    OBVIOUS
  <2>. QED BY <2>1, MailNumbers DEF Hour, Day
<1>5. NotTried
  <2>1. Unset.tried["weekly"] = -1
    BY DEF Unset, Mails, NoTime
  <2>2. Day(-1) # 0
    <3>1. 0 <= Day(-1) <=> 0 * DayLength <= -1
      BY MailDays
    <3>2. 0 * DayLength = 0
      BY MailNumbers
    <3>. QED BY <3>1, <3>2
  <2>. QED BY <1>2, <1>4, <2>1, <2>2 DEF NotTried
<1>6. UnitsLeft
  <2>1. OnOther = {}
    BY <1>2 DEF OnOther, AtWork
  <2>2. Cardinality(OnOther) = 0 /\ One(ran) = 0
    BY <1>2, <2>1, FS_EmptySet DEF One
  <2>3. DayLength \in Nat \ {0}
    BY MailNumbers
  <2>. QED BY <1>2, <1>4, <2>2, <2>3 DEF UnitsLeft
<1>. QED BY <1>3, <1>5, <1>6 DEF SummaryInv

-----------------------------------------------------------------------------
(* The mails: a month's report goes out before the month is over.           *)

MonthLength == MonthDays * DayLength
\* Units since the report of t's month may go out.
Since(t) == t - Report(t) * MonthLength - SendHour

\* What a run that ends without the report has to be charged to: it is one of
\* several, or sent before the month began ..
HasPaid == \E r \in MailRuns : mailRun[r].pc = "record" \/ (mailRun[r].pc = "send" /\ Report(mailRun[r].at) < Report(time))
Load == IF HasPaid \/ AtWork = {} THEN Cardinality(AtWork) ELSE Cardinality(AtWork) - 1
\* .. or the last try of it is not long enough ago.
OnItsWay == \E r \in MailRuns : /\ mailRun[r].pc = "send" /\ mailRun[r].mail = "monthly"
                                /\ Report(mailRun[r].at) = Report(time)
RetryIn == settings.tried["monthly"] + RetryAfter - time - One(ran)
RetryWait == IF OnItsWay \/ RetryIn < 0 THEN 0 ELSE RetryIn
\* A weekly summary takes the report's place once for each of its days.
DaysOut == {d \in mailed["weekly"] : d \div MonthDays = Report(time)}
WeeksInMonth == ((MonthDays - 1) \div WeekDays) + 1

Pending == Report(time) \notin mailed["monthly"] /\ Since(time) >= 0
Spent == Since(time) + One(ran) + Load + RetryWait
Allowed == RetryAfter * (slips + refused + 1) + repeats + Cardinality(DaysOut)
\* The month is longer than everything that can keep its report waiting.
MonthHasRoom ==
    RetryAfter * (MaxSlips + MaxRefused + 1) + MaxSlips + WeeksInMonth < MonthLength - SendHour
ReportInv == (Pending => Spent <= Allowed) /\ ReportsCatchUp

LEMMA MonthClock ==
    /\ MonthLength \in Nat \ {0} /\ DayLength <= MonthLength
    /\ \A t \in Int : /\ Report(t) \in Int /\ Since(t) \in Int
                      /\ Report(t) * MonthLength \in Int
                      /\ Report(t) * MonthLength <= t /\ t < Report(t) * MonthLength + MonthLength
    /\ \A t \in Int : \/ Report(t + 1) = Report(t) /\ Since(t + 1) = Since(t) + 1
                      \/ /\ Report(t + 1) = Report(t) + 1 /\ Since(t + 1) = -SendHour
                         /\ Since(t) = MonthLength - SendHour - 1
    /\ \A t \in Int : Since(t) >= 0 => ~(Day(t) % MonthDays = 0 /\ Hour(t) < SendHour)
<1>1. DayLength \in Nat \ {0} /\ MonthDays \in Nat \ {0} /\ SendHour \in Nat
  BY MailAssumption
<1>2. MonthLength \in Nat \ {0} /\ DayLength <= MonthLength
  <2>1. \A a, b \in Nat \ {0} : a * b \in Nat \ {0} /\ b <= a * b
    OBVIOUS
  <2>. QED BY <1>1, <2>1 DEF MonthLength
<1>3. \A a \in Int : (a * MonthDays) * DayLength = a * MonthLength /\ a * MonthLength \in Int /\ a * MonthDays \in Int
  <2>1. \A a, b, c \in Int : (a * b) * c = a * (b * c)
    OBVIOUS
  <2>. QED BY <1>1, <1>2, <2>1 DEF MonthLength
<1>4. ASSUME NEW t \in Int
      PROVE  /\ Report(t) \in Int /\ \A k \in Int : k <= Report(t) <=> k * MonthLength <= t
  <2>1. Day(t) \in Int
    BY MailDays
  <2>2. Report(t) \in Int
    BY <1>1, <2>1, Division DEF Report
  <2>3. ASSUME NEW k \in Int
        PROVE  k <= Report(t) <=> k * MonthLength <= t
    <3>1. k <= Report(t) <=> k * MonthDays <= Day(t)
      BY <1>1, <2>1, Division DEF Report
    <3>2. k * MonthDays <= Day(t) <=> (k * MonthDays) * DayLength <= t
      BY <1>3, MailDays
    <3>. QED BY <1>3, <3>1, <3>2
  <2>. QED BY <2>2, <2>3
<1>5. ASSUME NEW t \in Int
      PROVE  /\ Since(t) \in Int /\ Report(t) * MonthLength \in Int
             /\ Report(t) * MonthLength <= t /\ t < Report(t) * MonthLength + MonthLength
  <2>1. PICK k \in Int : k = Report(t)
    BY <1>4
  <2>2. k <= k /\ ~(k + 1 <= k) /\ k + 1 \in Int
    OBVIOUS
  <2>3. k * MonthLength <= t /\ ~((k + 1) * MonthLength <= t)
    BY <1>4, <2>1, <2>2
  <2>4. k * MonthLength \in Int /\ (k + 1) * MonthLength = k * MonthLength + MonthLength
    BY <1>2
  <2>5. k * MonthLength <= t /\ t < k * MonthLength + MonthLength
    BY <1>2, <2>3, <2>4
  <2>. QED BY <1>1, <2>1, <2>4, <2>5 DEF Since
<1>6. ASSUME NEW t \in Int
      PROVE  \/ Report(t + 1) = Report(t) /\ Since(t + 1) = Since(t) + 1
             \/ /\ Report(t + 1) = Report(t) + 1 /\ Since(t + 1) = -SendHour
                /\ Since(t) = MonthLength - SendHour - 1
  <2>0. t + 1 \in Int
    OBVIOUS
  <2>1. PICK k, l \in Int : k = Report(t) /\ l = Report(t + 1)
    BY <1>4, <2>0
  <2>2. k <= l
    BY <2>0, <2>1, MailDays
  <2>3. PICK p, q \in Int : p = k * MonthLength /\ q = l * MonthLength
    BY <1>3
  <2>4. p <= t /\ t < p + MonthLength /\ q <= t + 1 /\ t + 1 < q + MonthLength
    BY <1>5, <2>0, <2>1, <2>3
  <2>5. (k + 1) * MonthLength = p + MonthLength /\ (k + 2) * MonthLength = p + MonthLength + MonthLength
    BY <1>2, <2>3
  <2>6. l < k + 2
    <3>1. k + 2 <= l <=> (k + 2) * MonthLength <= t + 1
      BY <1>4, <2>0, <2>1
    <3>2. ~((k + 2) * MonthLength <= t + 1)
      BY <1>2, <2>4, <2>5
    <3>. QED BY <3>1, <3>2
  <2>7. Since(t) = t - p - SendHour /\ Since(t + 1) = (t + 1) - q - SendHour
    <3>1. p = Report(t) * MonthLength /\ q = Report(t + 1) * MonthLength
      BY <2>1, <2>3
    <3>. QED BY <3>1 DEF Since
  <2>8. CASE l = k
    <3>1. q = p
      BY <2>3, <2>8
    <3>2. Since(t + 1) = Since(t) + 1
      BY <1>1, <2>7, <3>1
    <3>. QED BY <2>1, <2>8, <3>2
  <2>9. CASE l = k + 1
    <3>1. q = p + MonthLength
      BY <2>3, <2>5, <2>9
    <3>2. t + 1 = q
      BY <1>2, <2>4, <3>1
    <3>3. Since(t + 1) = -SendHour /\ Since(t) = MonthLength - SendHour - 1
      BY <1>1, <1>2, <2>7, <3>1, <3>2
    <3>. QED BY <2>1, <2>9, <3>3
  <2>. QED BY <2>2, <2>6, <2>8, <2>9
<1>7. ASSUME NEW t \in Int, Since(t) >= 0, Day(t) % MonthDays = 0, Hour(t) < SendHour
      PROVE  FALSE
  <2>1. PICK k, d, h \in Int : k = Report(t) /\ d = Day(t) /\ h = Hour(t)
    BY <1>4, MailClock
  <2>2. t = d * DayLength + h
    BY <2>1, MailClock
  <2>3. d = k * MonthDays
    <3>1. \A x \in Int, n \in Nat \ {0} : x % n = 0 => x = (x \div n) * n
      OBVIOUS
    <3>2. d = (d \div MonthDays) * MonthDays
      BY <1>1, <1>7, <2>1, <3>1
    <3>. QED BY <2>1, <3>2 DEF Report
  <2>4. t = k * MonthLength + h /\ k * MonthLength \in Int
    BY <1>3, <2>2, <2>3
  <2>5. Since(t) = t - k * MonthLength - SendHour
    BY <2>1 DEF Since
  <2>. QED BY <1>1, <1>7, <2>1, <2>4, <2>5
<1>. QED BY <1>2, <1>4, <1>5, <1>6, <1>7

\* No month has more days of the summary than this.
LEMMA WeeksCount ==
    ASSUME MailTypeOK, NotesTrue
    PROVE  IsFiniteSet(DaysOut) /\ Cardinality(DaysOut) \in Nat /\ Cardinality(DaysOut) <= WeeksInMonth /\ WeeksInMonth \in Int
<1>1. WeekDays \in Nat \ {0} /\ MonthDays \in Nat \ {0} /\ TargetDay \in Nat
  BY MailAssumption
<1>2. PICK k \in Int : k = Report(time)
  BY MonthClock, TimesAreInt DEF MailTypeOK
<1>3. PICK lo \in Int : lo = k * MonthDays
  BY <1>1
<1>4. PICK e, w \in Int : e = (TargetDay - lo) \div WeekDays /\ w = (MonthDays - 1) \div WeekDays
  <2>1. TargetDay - lo \in Int /\ MonthDays - 1 \in Int
    BY <1>1
  <2>. QED BY <1>1, <2>1, Division
<1>5. PICK c \in Int : c = -e
  OBVIOUS
<1>6. PICK f : f = [q \in c .. c + w |-> q * WeekDays + TargetDay]
  OBVIOUS
<1>. DEFINE T == {f[q] : q \in c .. c + w}
<1>7. 0 <= w
  <2>1. 0 * WeekDays = 0 /\ 0 <= MonthDays - 1 /\ MonthDays - 1 \in Int
    BY <1>1
  <2>. QED BY <1>1, <1>4, <2>1, Division
<1>8. lo - TargetDay <= c * WeekDays /\ c * WeekDays \in Int
  <2>2. e * WeekDays <= TargetDay - lo /\ e * WeekDays \in Int
    <3>1. TargetDay - lo \in Int /\ e <= e
      BY <1>1
    <3>. QED BY <1>1, <1>4, <3>1, Division
  <2>3. c * WeekDays = -(e * WeekDays) /\ c * WeekDays \in Int
    <3>1. \A a \in Int, n \in Int : (-a) * n = -(a * n) /\ (-a) * n \in Int
      OBVIOUS
    <3>. QED BY <1>1, <1>5, <3>1
  <2>. QED BY <1>1, <2>2, <2>3
<1>9. ASSUME NEW d \in DaysOut
      PROVE  d \in T
  <2>1. d \in Int /\ d % WeekDays = TargetDay /\ d \div MonthDays = k
    <3>1. d \in mailed["weekly"] /\ mailed["weekly"] \subseteq Times
      BY <1>9 DEF DaysOut, MailTypeOK, Mails
    <3>. QED BY <1>2, <3>1, TimesAreInt DEF NotesTrue, DaysOut
  <2>2. PICK q \in Int : q = d \div WeekDays
    BY <1>1, <2>1, Division
  <2>3. d = q * WeekDays + TargetDay /\ q * WeekDays \in Int
    <3>1. \A x \in Int, n \in Nat \ {0} : x = (x \div n) * n + (x % n)
      OBVIOUS
    <3>2. d = (d \div WeekDays) * WeekDays + (d % WeekDays)
      BY <1>1, <2>1, <3>1
    <3>. QED BY <1>1, <2>1, <2>2, <3>2
  <2>4. lo <= d /\ d < lo + MonthDays
    <3>1. k <= k /\ ~(k + 1 <= k) /\ k + 1 \in Int
      OBVIOUS
    <3>2. k * MonthDays <= d /\ ~((k + 1) * MonthDays <= d)
      BY <1>1, <2>1, <3>1, Division
    <3>3. (k + 1) * MonthDays = lo + MonthDays
      BY <1>1, <1>3
    <3>. QED BY <1>1, <1>3, <2>1, <3>2, <3>3
  <2>5. c <= q
    <3>1. (-q) * WeekDays = -(q * WeekDays) /\ -q \in Int
      BY <1>1
    <3>2. (-q) * WeekDays <= TargetDay - lo
      BY <1>1, <2>3, <2>4, <3>1
    <3>3. TargetDay - lo \in Int
      BY <1>1
    <3>4. -q <= e
      BY <1>1, <1>4, <3>1, <3>2, <3>3, Division
    <3>. QED BY <1>5, <3>4
  <2>6. q - c <= w
    <3>1. (q - c) * WeekDays = q * WeekDays - c * WeekDays
      BY <1>1
    <3>2. (q - c) * WeekDays <= MonthDays - 1
      BY <1>1, <1>8, <2>3, <2>4, <3>1
    <3>3. q - c \in Int /\ MonthDays - 1 \in Int
      BY <1>1
    <3>. QED BY <1>1, <1>4, <3>2, <3>3, Division
  <2>7. q \in c .. c + w
    BY <2>5, <2>6
  <2>. QED BY <1>6, <2>3, <2>7
<1>10. IsFiniteSet(c .. c + w) /\ Cardinality(c .. c + w) = w + 1
  <2>1. c + w \in Int /\ ~(c > c + w) /\ c + w - c + 1 = w + 1
    BY <1>7
  <2>. QED BY <2>1, FS_Interval
<1>11. f \in Surjection(c .. c + w, T)
  BY <1>6 DEF Surjection
<1>12. IsFiniteSet(T) /\ Cardinality(T) <= w + 1
  BY <1>10, <1>11, FS_Surjection
<1>13. DaysOut \subseteq T
  BY <1>9
<1>. HIDE DEF T
<1>14. IsFiniteSet(DaysOut) /\ Cardinality(DaysOut) <= Cardinality(T)
  BY <1>12, <1>13, FS_Subset
<1>15. Cardinality(DaysOut) \in Nat /\ Cardinality(T) \in Nat
  BY <1>12, <1>14, FS_CardinalityType
<1>. QED BY <1>4, <1>12, <1>14, <1>15 DEF WeeksInMonth

\* What the sum is made of.
ReportFacts ==
    /\ Cardinality(AtWork) \in Nat /\ IsFiniteSet(AtWork) /\ (AtWork = {} <=> Cardinality(AtWork) = 0)
    /\ Cardinality(AtWork) <= slips + 1
    /\ Load \in Nat /\ Load <= Cardinality(AtWork)
    /\ One(ran) \in {0, 1} /\ RetryIn \in Int /\ RetryIn + One(ran) <= RetryAfter
    /\ RetryWait \in Nat /\ RetryWait + One(ran) <= RetryAfter
    /\ IsFiniteSet(DaysOut) /\ Cardinality(DaysOut) \in Nat /\ Cardinality(DaysOut) <= WeeksInMonth /\ WeeksInMonth \in Int
    /\ time \in Int /\ Since(time) \in Int /\ Report(time) \in Int
    /\ slips \in Nat /\ refused \in Nat /\ repeats \in Nat /\ RetryAfter \in Nat \ {0}
    /\ slips <= MaxSlips /\ refused <= MaxRefused /\ repeats <= slips

LEMMA ReportNumbers == TruthInv => ReportFacts
<1>. SUFFICES ASSUME TruthInv PROVE ReportFacts
  OBVIOUS
<1>. DEFINE n == Cardinality(AtWork)
            u == settings.tried["monthly"]
<1>1. MailTypeOK /\ WorkPaid /\ NotesTrue /\ RepeatInv
  BY DEF TruthInv, RepeatInv
<1>2. n \in Nat /\ IsFiniteSet(AtWork) /\ (AtWork = {} <=> n = 0) /\ n <= slips + 1
  BY <1>1, WorkCounts DEF WorkPaid
<1>3. u \in Int /\ u <= time /\ time \in Int /\ RetryAfter \in Nat \ {0} /\ One(ran) \in {0, 1}
  <2>1. settings \in Settings /\ time \in Times
    BY <1>1 DEF MailTypeOK
  <2>. QED BY <1>1, <2>1, TimesAreInt, MailAssumption DEF NotesTrue, Mails, One
<1>4. Load \in Nat /\ Load <= n
  <2>1. CASE HasPaid \/ AtWork = {}
    BY <1>2, <2>1 DEF Load
  <2>2. CASE ~(HasPaid \/ AtWork = {})
    BY <1>2, <2>2 DEF Load
  <2>. QED BY <2>1, <2>2
<1>5. RetryIn \in Int /\ RetryIn + One(ran) <= RetryAfter
  <2>. HIDE DEF u
  <2>1. RetryIn = u + RetryAfter - time - One(ran)
    BY DEF RetryIn, u
  <2>. QED BY <1>3, <2>1
<1>6. RetryWait \in Nat /\ RetryWait + One(ran) <= RetryAfter
  BY <1>3, <1>5 DEF RetryWait
<1>7. slips \in Nat /\ refused \in Nat /\ repeats \in Nat /\ slips <= MaxSlips /\ refused <= MaxRefused /\ repeats <= slips
  BY <1>1, MailNumbers, PaidFor DEF MailTypeOK
<1>8. Since(time) \in Int /\ Report(time) \in Int
  BY <1>3, MonthClock
<1>. QED BY <1>1, <1>2, <1>3, <1>4, <1>5, <1>6, <1>7, <1>8, WeeksCount DEF ReportFacts

\* The products of a wait with what went wrong.
LEMMA WaitsGrow ==
    ASSUME NEW w \in Nat \ {0}
    PROVE  /\ \A a \in Int : w * (a + 1) = w * a + w /\ w * a \in Int
           /\ \A a, b \in Int : a <= b => w * a <= w * b
           /\ \A a \in Nat : a <= w * a
<1>1. \A a \in Int : w * (a + 1) = w * a + w /\ w * a \in Int
  OBVIOUS
<1>2. \A a \in Int : w * a = a * w
  OBVIOUS
<1>3. \A a, b \in Int : a <= b => w * a <= w * b
  <2>1. \A a, b \in Int : a <= b <=> a * w <= b * w
    BY Division
  <2>. QED BY <1>2, <2>1
<1>4. \A a \in Nat : a <= w * a
  OBVIOUS
<1>. QED BY <1>1, <1>3, <1>4

LEMMA LoadMoves ==
    ASSUME TruthInv, TruthInv', NEW r \in MailRuns, NEW me, TurnsInto(r, me), RunStep(r, me), time' = time
    PROVE  /\ Joins(r, me) => Load' <= Load + (IF AtWork = {} THEN 0 ELSE 1)
           /\ GoesOn(r, me) \/ WillSend(r, me) => Load' <= Load
           /\ HasGone(r, me) =>
                 Load' <= Load + (IF Report(mailRun[r].at) < Report(time) THEN 0 ELSE 1)
           /\ me = AtRest => Load' <= Load
           /\ me = AtRest /\ (mailRun[r].pc = "record" \/ AtWork # {r}) => Load' <= Load - 1
<1>. DEFINE n == Cardinality(AtWork)
            m == Cardinality(AtWork')
            ToPay(y) == y.pc = "record" \/ (y.pc = "send" /\ Report(y.at) < Report(time))
<1>1. mailRun'[r] = me /\ (\A s \in MailRuns \ {r} : mailRun'[s] = mailRun[s]) /\ MailTypeOK /\ MailTypeOK'
  <2>1. MailTypeOK /\ MailTypeOK'
    BY DEF TruthInv, RepeatInv
  <2>. QED BY <2>1, StepGrows
<1>2. (HasPaid <=> \E s \in MailRuns : ToPay(mailRun[s])) /\ (HasPaid' <=> \E s \in MailRuns : ToPay(mailRun'[s]))
  BY DEF HasPaid
<1>3. ReportFacts
  BY ReportNumbers
<1>4. ReportFacts'
  BY ReportNumbers, PTL
<1>5. /\ n \in Nat /\ m \in Nat /\ Load \in Nat /\ Load' \in Nat
      /\ (AtWork = {} <=> n = 0) /\ (AtWork' = {} <=> m = 0) /\ IsFiniteSet(AtWork)
      /\ Load = (IF HasPaid \/ n = 0 THEN n ELSE n - 1) /\ Load' = (IF HasPaid' \/ m = 0 THEN m ELSE m - 1)
  BY <1>3, <1>4 DEF ReportFacts, Load
<1>6. \A s \in MailRuns : ToPay(mailRun[s]) => s \in AtWork
  BY DEF AtWork
<1>7. AtRest.pc = "rest" /\ ~ToPay(AtRest)
  BY RestTold
<1>8. HasPaid' /\ ~ToPay(me) => \E s \in MailRuns \ {r} : ToPay(mailRun[s])
  BY <1>1, <1>2
<1>9. HasPaid' /\ ~ToPay(me) => HasPaid
  BY <1>2, <1>8
<1>. HIDE DEF ToPay
<1>10. ASSUME Joins(r, me)
       PROVE  Load' <= Load + (IF AtWork = {} THEN 0 ELSE 1)
  <2>1. me.pc = "gate" /\ mailRun[r].pc = "rest"
    BY <1>10 DEF Joins
  <2>2. ~ToPay(me)
    BY <2>1 DEF ToPay
  <2>3. m = n + 1
    <3>1. r \notin AtWork
      BY <2>1 DEF AtWork
    <3>2. AtWork' = AtWork \cup {r}
      BY <1>1, <2>1 DEF AtWork
    <3>. QED BY <1>5, <3>1, <3>2, FS_AddElement
  <2>4. AtWork = {} => ~HasPaid
    BY <1>2, <1>6
  <2>. HIDE DEF n, m
  <2>5. CASE HasPaid
    BY <1>5, <2>3, <2>4, <2>5
  <2>6. CASE ~HasPaid
    <3>1. ~HasPaid'
      BY <1>9, <2>2, <2>6
    <3>. QED BY <1>5, <2>3, <2>6, <3>1
  <2>. QED BY <2>5, <2>6
<1>11. ASSUME AtWork' = AtWork
       PROVE  Load' <= Load + 1 /\ ((HasPaid' => HasPaid) => Load' <= Load)
  <2>1. n = m
    BY <1>11
  <2>. HIDE DEF n, m
  <2>. QED BY <1>5, <2>1
<1>12. ASSUME GoesOn(r, me) \/ WillSend(r, me)
       PROVE  Load' <= Load
  <2>1. me.pc # "rest" /\ mailRun[r].pc # "rest"
    BY <1>12 DEF GoesOn, WillSend, NotesTry
  <2>2. ~ToPay(me)
    <3>1. me.pc = "gate" \/ (me.pc = "send" /\ me.at = time)
      BY <1>12 DEF GoesOn, WillSend
    <3>2. ~(Report(time) < Report(time))
      BY <1>3 DEF ReportFacts
    <3>. QED BY <3>1, <3>2 DEF ToPay
  <2>3. AtWork' = AtWork
    BY <1>1, <2>1 DEF AtWork
  <2>. QED BY <1>9, <1>11, <2>2, <2>3
<1>13. ASSUME HasGone(r, me)
       PROVE  Load' <= Load + (IF Report(mailRun[r].at) < Report(time) THEN 0 ELSE 1)
  <2>1. mailRun[r].pc = "send" /\ me.pc = "record"
    BY <1>13 DEF HasGone
  <2>2. AtWork' = AtWork
    BY <1>1, <2>1 DEF AtWork
  <2>3. Report(mailRun[r].at) < Report(time) => HasPaid
    BY <1>2, <2>1 DEF ToPay
  <2>. QED BY <1>5, <1>11, <2>2, <2>3
<1>14. ASSUME me = AtRest
       PROVE  /\ Load' <= Load
              /\ mailRun[r].pc = "record" \/ AtWork # {r} => Load' <= Load - 1
  <2>1. r \in AtWork /\ AtWork' = AtWork \ {r}
    BY <1>1, <1>7, <1>14, AtWorkMoves DEF Joins
  <2>2. m = n - 1
    BY <1>5, <2>1, FS_RemoveElement
  <2>3. n # 0
    BY <1>5, <2>1
  <2>4. ~ToPay(me)
    BY <1>7, <1>14
  <2>5. mailRun[r].pc = "record" => HasPaid
    BY <1>2 DEF ToPay
  <2>6. AtWork # {r} => m # 0
    BY <1>5, <2>1
  <2>. HIDE DEF n, m
  <2>7. CASE HasPaid
    BY <1>5, <2>2, <2>3, <2>7
  <2>8. CASE ~HasPaid
    <3>1. ~HasPaid'
      BY <1>9, <2>4, <2>8
    <3>. QED BY <1>5, <2>2, <2>3, <2>5, <2>6, <2>8, <3>1
  <2>. QED BY <2>7, <2>8
<1>. QED BY <1>10, <1>12, <1>13, <1>14

\* The last try of the report, from one state to the next.
LEMMA RetryMoves ==
    ASSUME TruthInv, TruthInv', NEW r \in MailRuns, NEW me, TurnsInto(r, me), RunStep(r, me), time' = time
    PROVE  /\ Joins(r, me) \/ GoesOn(r, me) \/ WillSend(r, me) => RetryWait' <= RetryWait
           /\ HasGone(r, me) /\ (mailRun[r].mail = "weekly" \/ Report(mailRun[r].at) # Report(time)) =>
                 RetryWait' <= RetryWait
           /\ FindsNothing(r, me) \/ HasNoted(r, me) => RetryWait' <= RetryWait
           /\ FindsNothing(r, me) /\ ~ran /\ ~OnItsWay /\ RetryIn > 0 => RetryWait' <= RetryWait - 1
<1>. DEFINE Going(y) == y.pc = "send" /\ y.mail = "monthly" /\ Report(y.at) = Report(time)
            u == settings.tried["monthly"]
            v == settings'.tried["monthly"]
<1>1. mailRun'[r] = me /\ (\A s \in MailRuns \ {r} : mailRun'[s] = mailRun[s]) /\ MailTypeOK /\ MailTypeOK'
  <2>1. MailTypeOK /\ MailTypeOK'
    BY DEF TruthInv, RepeatInv
  <2>. QED BY <2>1, StepGrows
<1>2. (OnItsWay <=> \E s \in MailRuns : Going(mailRun[s])) /\ (OnItsWay' <=> \E s \in MailRuns : Going(mailRun'[s]))
  BY DEF OnItsWay
<1>3. ReportFacts
  BY ReportNumbers
<1>4. ReportFacts'
  BY ReportNumbers, PTL
<1>5. /\ u \in Int /\ v \in Int /\ time \in Int /\ RetryAfter \in Nat /\ One(ran) \in {0, 1} /\ One(ran') \in {0, 1}
      /\ RetryIn = u + RetryAfter - time - One(ran) /\ RetryIn' = v + RetryAfter - time - One(ran')
      /\ RetryWait = (IF OnItsWay \/ RetryIn < 0 THEN 0 ELSE RetryIn)
      /\ RetryWait' = (IF OnItsWay' \/ RetryIn' < 0 THEN 0 ELSE RetryIn')
  <2>1. u \in Int /\ v \in Int
    BY <1>1, TimesAreInt DEF MailTypeOK, Mails
  <2>. QED BY <1>3, <1>4, <2>1 DEF ReportFacts, RetryIn, RetryWait
<1>6. ASSUME v = u, Going(mailRun[r]) => Going(me), ran' = ran \/ ran' = TRUE
      PROVE  /\ RetryWait' <= RetryWait
             /\ ran' = TRUE /\ ~ran /\ ~OnItsWay /\ RetryIn > 0 => RetryWait' <= RetryWait - 1
  <2>1. OnItsWay => OnItsWay'
    BY <1>1, <1>2, <1>6
  <2>2. One(ran) <= One(ran') /\ (ran' = TRUE /\ ~ran => One(ran') = 1 /\ One(ran) = 0)
    BY <1>6 DEF One
  <2>. HIDE DEF u, v, Going
  <2>. QED BY <1>5, <1>6, <2>1, <2>2
<1>7. CASE Joins(r, me) \/ GoesOn(r, me)
  <2>1. settings' \in {settings} /\ ran' = ran /\ mailRun[r].pc # "send"
    BY <1>7 DEF Joins, GoesOn
  <2>2. ~Going(mailRun[r]) /\ v = u
    BY <2>1
  <2>. QED BY <1>6, <1>7, <2>1, <2>2, RestTold DEF Joins, GoesOn, FindsNothing, WillSend, NotesTry, HasGone, HasNoted, NotesSent
<1>8. CASE WillSend(r, me)
  <2>1. /\ mailRun[r].pc = "gate" /\ ran' = ran /\ settings'.tried = [settings.tried EXCEPT ![mailRun[r].mail] = time]
        /\ me.pc = "send" /\ me.mail = mailRun[r].mail /\ me.at = time
    BY <1>8 DEF WillSend, NotesTry
  <2>2. RetryWait' <= RetryWait
    <3>1. CASE mailRun[r].mail = "weekly"
      <4>1. v = u /\ ~Going(mailRun[r])
        BY <1>1, <2>1, <3>1
      <4>. QED BY <1>6, <2>1, <4>1
    <3>2. CASE mailRun[r].mail = "monthly"
      <4>1. OnItsWay'
        BY <1>1, <1>2, <2>1, <3>2
      <4>2. RetryWait' = 0 /\ RetryWait \in Nat
        BY <1>3, <4>1 DEF ReportFacts, RetryWait
      <4>. QED BY <4>2
    <3>. QED BY <1>1, <3>1, <3>2 DEF MailTypeOK, Mails
  <2>. QED BY <1>8, <2>1, <2>2, RestTold DEF FindsNothing, HasGone, HasNoted, NotesSent
<1>9. CASE HasGone(r, me)
  <2>1. settings' = settings /\ ran' = ran /\ mailRun[r].pc = "send" /\ me.pc = "record"
    BY <1>9 DEF HasGone
  <2>2. ASSUME mailRun[r].mail = "weekly" \/ Report(mailRun[r].at) # Report(time)
        PROVE  RetryWait' <= RetryWait
    <3>1. ~Going(mailRun[r]) /\ v = u
      BY <2>1, <2>2
    <3>. QED BY <1>6, <2>1, <3>1
  <2>. QED BY <2>1, <2>2, RestTold DEF Joins, GoesOn, FindsNothing, WillSend, NotesTry, HasNoted, NotesSent
<1>10. CASE FindsNothing(r, me) \/ HasNoted(r, me)
  <2>1. settings'.tried = settings.tried /\ ran' = TRUE /\ mailRun[r].pc # "send" /\ me = AtRest
    BY <1>10 DEF FindsNothing, HasNoted, NotesSent
  <2>2. ~Going(mailRun[r]) /\ v = u
    BY <2>1
  <2>. QED BY <1>6, <2>1, <2>2, RestTold DEF Joins, GoesOn, WillSend, HasGone
<1>. QED BY <1>7, <1>8, <1>9, <1>10

\* A run that finds no report to send, in its month, waits for another try.
LEMMA ReportIsDue ==
    ASSUME TruthInv, Pending, NEW r \in MailRuns, FindsNothing(r, AtRest)
    PROVE  RetryIn + One(ran) > 0
<1>. DEFINE saw == mailRun[r].saw
            u == settings.tried["monthly"]
<1>1. /\ MailTypeOK /\ saw \in Settings /\ time \in Times /\ settings \in Settings
      /\ Told(saw, settings.tried, mailed, time) /\ mailed["monthly"] \subseteq Times
  BY DEF TruthInv, RepeatInv, MailTypeOK, NotesTrue, RunTold, Mails
<1>2. /\ time \in Int /\ saw.tried["monthly"] \in Int /\ saw.sent["monthly"] \in Int /\ u \in Int
      /\ RetryAfter \in Nat /\ One(ran) \in {0, 1}
  BY <1>1, TimesAreInt, MailAssumption DEF Mails, One
<1>3. ~MailDue("monthly", time, saw)
  BY DEF FindsNothing
<1>4. saw.sent["monthly"] < Report(time)
  <2>1. Report(time) \in Int /\ Report(time) \notin mailed["monthly"] /\ 0 <= Report(time)
    <3>1. Report(time) \in Times
      BY <1>1, ReportIsTime
    <3>2. Report(time) \in Nat
      BY <3>1, MailNumbers
    <3>. QED BY <3>2 DEF Pending
  <2>2. CASE saw.sent["monthly"] = NoTime
    BY <2>1, <2>2 DEF NoTime
  <2>3. CASE saw.sent["monthly"] # NoTime
    <3>1. saw.sent["monthly"] \in mailed["monthly"]
      BY <1>1, <2>3 DEF Told
    <3>2. saw.sent["monthly"] <= Report(time)
      BY <3>1 DEF TruthInv, RepeatInv, MailsAreNew, Issue, Mails
    <3>. QED BY <1>2, <2>1, <3>1, <3>2
  <2>. QED BY <2>2, <2>3
<1>5. monthlyReportDue(time, saw.sent["monthly"])
  <2>1. ~(Day(time) % MonthDays = 0 /\ Hour(time) < SendHour)
    BY <1>2, MonthClock DEF Pending
  <2>. QED BY <1>4, <2>1 DEF monthlyReportDue
<1>6. ~Elapsed(time, saw.tried["monthly"], RetryAfter)
  BY <1>3, <1>5 DEF MailDue, MayRetry
<1>7. saw.tried["monthly"] <= u
  BY <1>1 DEF Told, Mails
<1>8. time - saw.tried["monthly"] < RetryAfter
  BY <1>2, <1>6 DEF Elapsed
<1>. HIDE DEF saw, u
<1>9. u + RetryAfter - time > 0
  BY <1>2, <1>7, <1>8
<1>10. RetryIn = u + RetryAfter - time - One(ran)
  BY DEF RetryIn, u
<1>. QED BY <1>2, <1>9, <1>10

\* The days of the summary that went out this month, from one state to the next.
LEMMA DaysMove ==
    ASSUME TruthInv, TruthInv', NEW r \in MailRuns, time' = time, UNCHANGED <<mailed, repeats>> \/ GoesOut(r)
    PROVE  /\ Cardinality(DaysOut) + repeats <= Cardinality(DaysOut') + repeats'
           /\ GoesOut(r) /\ mailRun[r].mail = "weekly" /\ Report(mailRun[r].at) = Report(time) =>
                 Cardinality(DaysOut) + repeats + 1 <= Cardinality(DaysOut') + repeats'
<1>. DEFINE c == Cardinality(DaysOut)
            d == Cardinality(DaysOut')
            k == Day(mailRun[r].at)
<1>1. ReportFacts /\ MailTypeOK
  BY ReportNumbers DEF TruthInv, RepeatInv
<1>2. ReportFacts'
  BY ReportNumbers, PTL
<1>3. c \in Nat /\ d \in Nat /\ repeats \in Nat /\ repeats' \in Nat /\ IsFiniteSet(DaysOut) /\ IsFiniteSet(DaysOut')
  BY <1>1, <1>2 DEF ReportFacts
<1>4. mailed["weekly"] \subseteq mailed'["weekly"] /\ repeats <= repeats'
  <2>1. CASE UNCHANGED <<mailed, repeats>>
    BY <1>3, <2>1
  <2>2. CASE GoesOut(r)
    <3>1. repeats' = repeats \/ repeats' = repeats + 1
      BY <2>2 DEF GoesOut
    <3>2. mailed["weekly"] \subseteq mailed'["weekly"]
      BY <1>1, <2>2, MailOut DEF Mails
    <3>. QED BY <1>3, <3>1, <3>2
  <2>. QED BY <2>1, <2>2
<1>5. DaysOut \subseteq DaysOut'
  BY <1>4 DEF DaysOut
<1>6. c <= d
  BY <1>3, <1>5, FS_Subset
<1>7. ASSUME GoesOut(r), mailRun[r].mail = "weekly", Report(mailRun[r].at) = Report(time)
      PROVE  c + repeats + 1 <= d + repeats'
  <2>1. mailed'["weekly"] = mailed["weekly"] \cup {k} /\ (repeats' = IF k \in mailed["weekly"] THEN repeats + 1 ELSE repeats)
    BY <1>1, <1>7, MailOut DEF Issue
  <2>. HIDE DEF c, d
  <2>2. CASE k \in mailed["weekly"]
    BY <1>3, <1>6, <2>1, <2>2
  <2>3. CASE k \notin mailed["weekly"]
    <3>1. k \div MonthDays = Report(time)
      BY <1>7 DEF Report
    <3>2. DaysOut' = DaysOut \cup {k} /\ k \notin DaysOut
      BY <2>1, <2>3, <3>1 DEF DaysOut
    <3>3. d = c + 1
      BY <1>3, <3>2, FS_AddElement DEF c, d
    <3>. QED BY <1>3, <2>1, <2>3, <3>3
  <2>. QED BY <2>2, <2>3
<1>. HIDE DEF c, d
<1>8. c + repeats <= d + repeats'
  BY <1>3, <1>4, <1>6
<1>. QED BY <1>7, <1>8 DEF c, d

\* What is spent and what is allowed, from a state to the next.
LEMMA SumKept ==
    ASSUME NEW s \in Int, NEW x \in Int, NEW y \in Int, NEW l \in Int, NEW m \in Int, NEW w \in Int, NEW v \in Int,
           NEW a \in Int, NEW b \in Int, NEW e \in Int, NEW f \in Int,
           s + x + l + w <= a + e, y + m + v + a + e <= x + l + w + b + f
    PROVE  s + y + m + v <= b + f
OBVIOUS

LEMMA ReportRunStep ==
    ASSUME TruthInv, TruthInv', NEW r \in MailRuns, NEW me, TurnsInto(r, me), RunStep(r, me), time' = time
    PROVE  Pending' /\ Spent <= Allowed => Spent' <= Allowed'
<1>. DEFINE c == Cardinality(DaysOut)
            d == Cardinality(DaysOut')
            a == RetryAfter * (slips + refused + 1)
            b == RetryAfter * (slips' + refused' + 1)
            s == Since(time)
            x == One(ran)
            y == One(ran')
            w == RetryWait
            v == RetryWait'
            l == Load
            m == Load'
            e == repeats + c
            f == repeats' + d
<1>1. ReportFacts /\ MailTypeOK /\ MailTypeOK'
  BY ReportNumbers DEF TruthInv, RepeatInv
<1>2. ReportFacts'
  BY ReportNumbers, PTL
<1>3. /\ c \in Nat /\ d \in Nat /\ l \in Nat /\ m \in Nat /\ w \in Nat /\ v \in Nat /\ s \in Int
      /\ x \in {0, 1} /\ y \in {0, 1} /\ repeats \in Nat /\ repeats' \in Nat
      /\ slips \in Nat /\ slips' \in Nat /\ refused \in Nat /\ refused' \in Nat
      /\ RetryAfter \in Nat \ {0} /\ v + y <= RetryAfter
  BY <1>1, <1>2 DEF ReportFacts
<1>3n. /\ e \in Nat /\ f \in Nat /\ l \in Nat /\ m \in Nat /\ w \in Nat /\ v \in Nat /\ s \in Int
      /\ x \in {0, 1} /\ y \in {0, 1} /\ RetryAfter \in Nat \ {0} /\ v + y <= RetryAfter
  <2>. HIDE DEF c, d
  <2>1. e \in Nat /\ f \in Nat
    <3>1. \A i, j \in Nat : i + j \in Nat
      OBVIOUS
    <3>2. c \in Nat /\ d \in Nat /\ repeats \in Nat /\ repeats' \in Nat
      BY <1>3
    <3>. QED BY <3>1, <3>2, Zenon
  <2>. QED BY <1>3, <2>1
<1>4. a \in Int /\ b \in Int /\ (slips' = slips /\ refused' = refused => b = a)
      /\ (slips' + refused' = slips + refused + 1 => b = a + RetryAfter)
  <2>1. \A n \in Int : RetryAfter * (n + 1) = RetryAfter * n + RetryAfter /\ RetryAfter * n \in Int
    BY <1>3, WaitsGrow
  <2>2. PICK g, h : g = slips + refused /\ h = slips' + refused'
    OBVIOUS
  <2>3. g \in Int /\ h \in Int
    BY <1>3, <2>2
  <2>4. a = RetryAfter * (g + 1) /\ b = RetryAfter * (h + 1)
    BY <2>2
  <2>. HIDE DEF a, b
  <2>5. slips' = slips /\ refused' = refused => h = g
    BY <2>2
  <2>6. slips' + refused' = slips + refused + 1 => h = g + 1
    BY <1>3, <2>2
  <2>7. g + 1 \in Int /\ h + 1 \in Int
    BY <2>3
  <2>8. h = g + 1 => RetryAfter * (h + 1) = RetryAfter * (g + 1) + RetryAfter
    BY <2>1, <2>7
  <2>9. a \in Int /\ b \in Int
    BY <2>1, <2>4, <2>7, Zenon
  <2>10. h = g => b = a
    BY <2>4
  <2>11. h = g + 1 => b = a + RetryAfter
    BY <2>4, <2>8, Zenon
  <2>. QED BY <2>5, <2>6, <2>9, <2>10, <2>11, Zenon
<1>. HIDE DEF a, b, c, d, s, x, y, w, v, l, m, e, f
<1>5. SUFFICES ASSUME Pending'
               PROVE  y + m + v + a + e <= x + l + w + b + f
  <2>1. (s + x + l + w <= a + e /\ y + m + v + a + e <= x + l + w + b + f) => s + y + m + v <= b + f
    <3>1. x \in Int /\ y \in Int /\ l \in Int /\ m \in Int /\ w \in Int /\ v \in Int /\ e \in Int /\ f \in Int
      BY <1>3n
    <3>. QED BY <1>3n, <1>4, <3>1, SumKept
  <2>2. Spent = s + x + l + w /\ Allowed = a + e
    <3>1. \A i \in Int, j, k \in Nat : i + j + k = i + (j + k)
      OBVIOUS
    <3>2. Allowed = a + repeats + c
      BY DEF Allowed, a, c
    <3>3. Allowed = a + e
      BY <1>3, <1>4, <3>1, <3>2 DEF e
    <3>. QED BY <3>3 DEF Spent, s, x, l, w
  <2>3. Spent' = s + y + m + v /\ Allowed' = b + f
    <3>1. \A i \in Int, j, k \in Nat : i + j + k = i + (j + k)
      OBVIOUS
    <3>2. Allowed' = b + repeats' + d
      BY DEF Allowed, b, d
    <3>3. Allowed' = b + f
      BY <1>3, <1>4, <3>1, <3>2 DEF f
    <3>4. Since(time') = s
      BY DEF s
    <3>. QED BY <3>3, <3>4 DEF Spent, y, m, v
  <2>. QED BY <2>1, <2>2, <2>3
<1>6. Pending'
  BY <1>5
<1>7. /\ e <= f
      /\ GoesOut(r) /\ mailRun[r].mail = "weekly" /\ Report(mailRun[r].at) = Report(time) => e + 1 <= f
  <2>1. UNCHANGED <<mailed, repeats>> \/ GoesOut(r)
    BY DEF RunStep, Joins, GoesOn, FindsNothing, WillSend, HasGone, HasNoted, IsRefused, IsLost
  <2>2. /\ c + repeats <= d + repeats'
        /\ GoesOut(r) /\ mailRun[r].mail = "weekly" /\ Report(mailRun[r].at) = Report(time) =>
              c + repeats + 1 <= d + repeats'
    BY <2>1, DaysMove DEF c, d
  <2>3. e = c + repeats /\ f = d + repeats'
    BY <1>3 DEF e, f
  <2>4. e + 1 = c + repeats + 1
    BY <1>3 DEF e
  <2>. QED BY <2>2, <2>3, <2>4
<1>8. CASE Joins(r, me)
  <2>1. y = x /\ refused' = refused /\ ((AtWork = {} /\ slips' = slips) \/ slips' = slips + 1)
    BY <1>8 DEF Joins, Slip, NoSlip, x, y
  <2>2. v <= w /\ m <= l + (IF AtWork = {} THEN 0 ELSE 1)
    BY <1>8, LoadMoves, RetryMoves DEF l, m, v, w
  <2>3. slips' = slips + 1 => b = a + RetryAfter
    BY <1>3, <1>4, <2>1
  <2>4. (m <= l /\ b = a) \/ (m <= l + 1 /\ b = a + RetryAfter)
    BY <1>3, <1>4, <2>1, <2>2, <2>3
  <2>. QED BY <1>3n, <1>4, <1>5, <1>7, <2>1, <2>2, <2>4
<1>9. CASE GoesOn(r, me) \/ WillSend(r, me)
  <2>1. y = x /\ b = a
    BY <1>4, <1>9 DEF GoesOn, WillSend, NoSlip, x, y
  <2>2. v <= w /\ m <= l
    BY <1>9, LoadMoves, RetryMoves DEF l, m, v, w
  <2>. QED BY <1>3n, <1>4, <1>5, <1>7, <2>1, <2>2
<1>10. CASE FindsNothing(r, me)
  <2>1. y = 1 /\ b = a /\ me = AtRest /\ mailRun[r].pc = "gate"
    BY <1>4, <1>10 DEF FindsNothing, NoSlip, y, One
  <2>2. v <= w /\ m <= l
    BY <1>10, <2>1, LoadMoves, RetryMoves DEF l, m, v, w
  <2>3. CASE ran
    <3>1. x = 1
      BY <2>3 DEF x, One
    <3>. QED BY <1>3n, <1>4, <1>5, <1>7, <2>1, <2>2, <3>1
  <2>4. CASE ~ran /\ AtWork # {r}
    <3>1. m <= l - 1
      BY <2>1, <2>4, LoadMoves DEF l, m
    <3>. QED BY <1>3n, <1>4, <1>5, <1>7, <2>1, <2>2, <3>1
  <2>5. CASE ~ran /\ AtWork = {r}
    <3>1. RetryIn > 0
      <4>1. Pending
        BY <1>6, <1>10 DEF Pending, FindsNothing
      <4>2. RetryIn + One(ran) > 0 /\ One(ran) = 0
        BY <1>10, <2>1, <2>5, <4>1, ReportIsDue DEF One
      <4>. QED BY <1>1, <4>2 DEF ReportFacts
    <3>2. ~OnItsWay
      <4>1. \A z \in MailRuns : mailRun[z].pc # "rest" => z = r
        BY <2>5 DEF AtWork
      <4>. QED BY <2>1, <4>1 DEF OnItsWay
    <3>3. v <= w - 1
      BY <1>10, <2>5, <3>1, <3>2, RetryMoves DEF v, w
    <3>. QED BY <1>3n, <1>4, <1>5, <1>7, <2>1, <2>2, <3>3
  <2>. QED BY <2>3, <2>4, <2>5
<1>11. CASE HasGone(r, me)
  <2>1. y = x /\ b = a /\ GoesOut(r) /\ mailRun[r].pc = "send"
    BY <1>4, <1>11 DEF HasGone, NoSlip, x, y
  <2>2. Report(mailRun[r].at) <= Report(time) /\ Report(mailRun[r].at) \in Int /\ Report(time) \in Int
    <3>1. mailRun[r].at <= time /\ mailRun[r].at \in Times /\ time \in Times
      BY <1>1, <2>1 DEF TruthInv, RepeatInv, MailsAreNew, SendsNew, MailTypeOK
    <3>2. mailRun[r].at \in Int /\ time \in Int
      BY <3>1, TimesAreInt
    <3>. QED BY <3>1, <3>2, MailDays, MonthClock
  <2>3. mailRun[r].mail = "weekly" \/ Report(mailRun[r].at) # Report(time)
    <3>. SUFFICES ASSUME mailRun[r].mail = "monthly", Report(mailRun[r].at) = Report(time) PROVE FALSE
      BY <1>1 DEF MailTypeOK, Mails
    <3>1. Report(time) \in mailed'["monthly"]
      BY <1>1, <2>1, MailOut DEF Issue
    <3>. QED BY <1>6, <3>1 DEF Pending
  <2>4. v <= w /\ m <= l + (IF Report(mailRun[r].at) < Report(time) THEN 0 ELSE 1)
    BY <1>11, <2>3, LoadMoves, RetryMoves DEF l, m, v, w
  <2>5. CASE Report(mailRun[r].at) < Report(time)
    BY <1>3n, <1>4, <1>5, <1>7, <2>1, <2>4, <2>5
  <2>6. CASE Report(mailRun[r].at) = Report(time)
    <3>1. e + 1 <= f
      BY <1>7, <2>1, <2>3, <2>6
    <3>2. m <= l + 1
      BY <1>3, <2>4
    <3>. QED BY <1>3n, <1>4, <1>5, <2>1, <2>4, <3>1, <3>2
  <2>. QED BY <2>2, <2>5, <2>6
<1>12. CASE HasNoted(r, me)
  <2>1. y = 1 /\ b = a /\ me = AtRest /\ mailRun[r].pc = "record"
    BY <1>4, <1>12 DEF HasNoted, NotesSent, NoSlip, y, One
  <2>2. v <= w /\ m <= l - 1
    BY <1>12, <2>1, LoadMoves, RetryMoves DEF l, m, v, w
  <2>. QED BY <1>3n, <1>4, <1>5, <1>7, <2>1, <2>2
<1>13. CASE IsRefused(r, me) \/ IsLost(r, me)
  <2>1. me = AtRest /\ slips' + refused' = slips + refused + 1
    <3>1. me = AtRest /\ ((slips' = slips /\ refused' = refused + 1) \/ (slips' = slips + 1 /\ refused' = refused))
      BY <1>13, Zenon DEF IsRefused, IsLost, Slip
    <3>2. \A g, h \in Nat : g + (h + 1) = g + h + 1 /\ (g + 1) + h = g + h + 1
      OBVIOUS
    <3>3. slips' + refused' = slips + (refused + 1) \/ slips' + refused' = (slips + 1) + refused
      BY <3>1, Zenon
    <3>4. slips + (refused + 1) = slips + refused + 1 /\ (slips + 1) + refused = slips + refused + 1
      <4>1. slips \in Nat /\ refused \in Nat
        BY <1>3
      <4>. QED BY <3>2, <4>1, Zenon
    <3>5. slips' + refused' = slips + refused + 1
      BY <3>3, <3>4, Zenon
    <3>. QED BY <3>1, <3>5
  <2>2. m <= l /\ b = a + RetryAfter
    BY <1>4, <2>1, LoadMoves DEF l, m
  <2>. QED BY <1>3n, <1>4, <1>5, <1>7, <2>1, <2>2
<1>. QED BY <1>8, <1>9, <1>10, <1>11, <1>12, <1>13 DEF RunStep

LEMMA ReportPasses ==
    ASSUME TruthInv, TruthInv', Passes, MonthHasRoom, ReportInv
    PROVE  ReportInv'
<1>. DEFINE a == RetryAfter * (slips + refused + 1)
            c == Cardinality(DaysOut)
            d == Cardinality(DaysOut')
<1>1. ReportFacts
  BY ReportNumbers
<1>2. ReportFacts'
  BY ReportNumbers, PTL
<1>3. ran /\ time' = time + 1 /\ ran' = FALSE /\ UNCHANGED <<settings, mailRun, slips, refused, mailed, repeats>>
  BY DEF Passes
<1>4. One(ran) = 1 /\ One(ran') = 0
  BY <1>3 DEF One
<1>5. /\ c \in Nat /\ d \in Nat /\ repeats \in Nat /\ slips \in Nat /\ refused \in Nat /\ RetryAfter \in Nat \ {0}
      /\ Load \in Nat /\ Load' \in Nat /\ RetryWait \in Nat /\ RetryWait' \in Nat
      /\ Since(time) \in Int /\ Since(time') \in Int /\ Report(time) \in Int /\ time \in Int /\ time' \in Int
      /\ slips <= MaxSlips /\ refused <= MaxRefused /\ repeats <= slips /\ c <= WeeksInMonth /\ WeeksInMonth \in Int
  BY <1>1, <1>2 DEF ReportFacts
<1>6. a \in Int /\ slips + RetryAfter <= a
  <2>1. \A e \in Int : RetryAfter * (e + 1) = RetryAfter * e + RetryAfter /\ RetryAfter * e \in Int
    BY <1>5, WaitsGrow
  <2>2. slips + refused <= RetryAfter * (slips + refused)
    <3>1. slips + refused \in Nat
      BY <1>5
    <3>. QED BY <1>5, <3>1, WaitsGrow
  <2>3. PICK e \in Int : e = slips + refused
    BY <1>5
  <2>4. RetryAfter * (e + 1) = RetryAfter * e + RetryAfter /\ RetryAfter * e \in Int /\ e <= RetryAfter * e
    BY <2>1, <2>2, <2>3
  <2>5. a = RetryAfter * (e + 1)
    BY <1>5, <2>3
  <2>. HIDE DEF a
  <2>. QED BY <1>5, <2>3, <2>4, <2>5
<1>. HIDE DEF a, c, d
<1>7. \/ Report(time') = Report(time) /\ Since(time') = Since(time) + 1
      \/ Report(time') = Report(time) + 1 /\ Since(time') = -SendHour /\ Since(time) = MonthLength - SendHour - 1
  BY <1>3, <1>5, MonthClock
<1>8. SendHour \in Nat /\ MonthLength \in Nat /\ SendHour < MonthLength
  <2>1. SendHour \in Nat /\ SendHour < DayLength /\ DayLength \in Nat
    BY MailAssumption
  <2>. QED BY <2>1, MonthClock
<1>9. ASSUME Pending', Report(time') = Report(time), Since(time) >= 0
      PROVE  Spent' <= Allowed'
  <2>1. Pending /\ Since(time') = Since(time) + 1
    BY <1>3, <1>5, <1>7, <1>9 DEF Pending
  <2>2. Since(time) + 1 + Load + RetryWait <= a + repeats + c
    BY <1>4, <2>1 DEF ReportInv, Spent, Allowed, a, c
  <2>3. AtWork' = AtWork /\ (HasPaid' <=> HasPaid) /\ (OnItsWay' <=> OnItsWay) /\ DaysOut' = DaysOut
    BY <1>3, <1>9 DEF AtWork, HasPaid, OnItsWay, DaysOut
  <2>4. Load' = Load /\ d = c
    BY <2>3 DEF Load, c, d
  <2>5. RetryWait' = RetryWait
    <3>1. settings.tried["monthly"] \in Int
      BY TimesAreInt DEF TruthInv, RepeatInv, MailTypeOK, Mails
    <3>2. RetryIn' = RetryIn
      <4>. DEFINE u == settings.tried["monthly"]
      <4>1. RetryIn = u + RetryAfter - time - 1 /\ RetryIn' = u + RetryAfter - time' - 0
        BY <1>3, <1>4 DEF RetryIn
      <4>. HIDE DEF u
      <4>2. u \in Int
        BY <3>1 DEF u
      <4>. QED BY <1>3, <1>5, <4>1, <4>2
    <3>. QED BY <2>3, <3>2 DEF RetryWait
  <2>6. Since(time') + 0 + Load' + RetryWait' <= a + repeats + d
    BY <1>5, <1>6, <2>1, <2>2, <2>4, <2>5
  <2>. QED BY <1>3, <1>4, <2>6 DEF Spent, Allowed, a, d
<1>10. ASSUME Pending', Since(time') = 0
       PROVE  Spent' <= Allowed'
  <2>. DEFINE n == Cardinality(AtWork)
              l == Load'
              w == RetryWait'
              q == RetryIn'
              z == Since(time')
  <2>1. n \in Nat /\ n <= slips + 1 /\ l <= n
    <3>1. AtWork' = AtWork
      BY <1>3 DEF AtWork
    <3>. QED BY <1>1, <1>2, <3>1 DEF ReportFacts
  <2>2. q \in Int /\ q + 1 <= RetryAfter
    <3>. DEFINE u == settings.tried["monthly"]
    <3>1. u \in Int /\ u <= time
      BY TimesAreInt DEF TruthInv, NotesTrue, RepeatInv, MailTypeOK, Mails
    <3>2. q = u + RetryAfter - (time + 1) - 0
      BY <1>3, <1>4 DEF RetryIn
    <3>. HIDE DEF u, q
    <3>. QED BY <1>5, <3>1, <3>2
  <2>3. w = 0 \/ w = q
    BY DEF RetryWait
  <2>4. l \in Nat /\ w \in Nat /\ z = 0
    BY <1>5, <1>10
  <2>5. Spent' = z + 0 + l + w /\ Allowed' = a + repeats + d
    <3>1. Spent' = z + 0 + l + w
      BY <1>4 DEF Spent
    <3>. QED BY <1>3, <3>1 DEF Allowed, a, d
  <2>. HIDE DEF n, l, w, q, z
  <2>6. w + 1 <= RetryAfter
    BY <1>5, <2>2, <2>3
  <2>7. z + 0 + l + w <= a + repeats + d
    BY <1>5, <1>6, <2>1, <2>4, <2>6
  <2>. QED BY <2>5, <2>7
<1>11. ASSUME Pending'
       PROVE  Spent' <= Allowed'
  <2>1. Since(time') >= 0
    BY <1>11 DEF Pending
  <2>2. \/ Report(time') = Report(time) /\ Since(time) >= 0
        \/ Since(time') = 0
    BY <1>5, <1>7, <1>8, <2>1
  <2>. QED BY <1>9, <1>10, <1>11, <2>2
<1>12. ASSUME Report(time') = Report(time) + 1
       PROVE  Report(time) \in mailed["monthly"]
  <2>. SUFFICES ASSUME Report(time) \notin mailed["monthly"] PROVE FALSE
    OBVIOUS
  <2>1. Since(time) = MonthLength - SendHour - 1
    BY <1>5, <1>7, <1>12
  <2>2. Since(time) + 1 + Load + RetryWait <= a + repeats + c
    <3>1. Pending
      BY <1>8, <2>1 DEF Pending
    <3>. QED BY <1>4, <3>1 DEF ReportInv, Spent, Allowed, a, c
  <2>3. a <= RetryAfter * (MaxSlips + MaxRefused + 1) /\ RetryAfter * (MaxSlips + MaxRefused + 1) \in Int
    <3>1. PICK e, f \in Int : e = slips + refused + 1 /\ f = MaxSlips + MaxRefused + 1
      BY <1>5, MailNumbers
    <3>2. e <= f
      BY <1>5, <3>1, MailNumbers
    <3>3. RetryAfter * e <= RetryAfter * f /\ RetryAfter * f \in Int
      BY <1>5, <3>1, <3>2, WaitsGrow
    <3>. QED BY <3>1, <3>3 DEF a
  <2>4. PICK p \in Int : p = RetryAfter * (MaxSlips + MaxRefused + 1)
    BY <2>3
  <2>5. a <= p /\ p + MaxSlips + WeeksInMonth < MonthLength - SendHour /\ MaxSlips \in Nat
    BY <2>3, <2>4, MailNumbers DEF MonthHasRoom
  <2>. QED BY <1>5, <1>6, <1>8, <2>1, <2>2, <2>5
<1>13. ReportsCatchUp'
  <2>1. ASSUME NEW k \in 0 .. Report(time') - 1
        PROVE  k \in mailed["monthly"]
    <3>1. CASE k \in 0 .. Report(time) - 1
      BY <3>1 DEF ReportInv, ReportsCatchUp
    <3>2. CASE k \notin 0 .. Report(time) - 1
      <4>1. Report(time') = Report(time) + 1 /\ k = Report(time)
        BY <1>5, <1>7, <2>1, <3>2
      <4>. QED BY <1>12, <4>1
    <3>. QED BY <3>1, <3>2
  <2>. QED BY <1>3, <2>1 DEF ReportsCatchUp
<1>. QED BY <1>11, <1>13 DEF ReportInv

LEMMA ReportStepKeeps ==
    ASSUME MonthHasRoom, TruthInv, ReportInv, [MailNext]_mailVars
    PROVE  ReportInv'
<1>1. TruthInv' /\ MailTypeOK /\ MailTypeOK'
  BY TruthStepKeeps DEF TruthInv, RepeatInv
<1>2. CASE UNCHANGED mailVars
  <2>1. UNCHANGED <<time, settings, mailRun, ran, slips, refused, mailed, repeats>>
    BY <1>2 DEF mailVars
  <2>2. (Pending' <=> Pending) /\ (ReportsCatchUp' <=> ReportsCatchUp) /\ Allowed' = Allowed
    BY <2>1 DEF Pending, ReportsCatchUp, Allowed, DaysOut
  <2>3. Load' = Load /\ RetryWait' = RetryWait
    BY <2>1 DEF Load, HasPaid, AtWork, RetryWait, RetryIn, OnItsWay
  <2>. QED BY <2>1, <2>2, <2>3 DEF ReportInv, Spent
<1>3. CASE Passes
  BY <1>1, <1>3, ReportPasses
<1>4. ASSUME NEW r \in MailRuns,
             Begins(r) \/ NotDue(r) \/ TooFewQueries(r) \/ TriesMail(r) \/ Sends(r) \/ Records(r) \/ MailRunDies(r)
      PROVE  ReportInv'
  <2>1. PICK me : time' = time /\ TurnsInto(r, me) /\ RunStep(r, me)
    BY <1>1, <1>4, RunSteps
  <2>2. mailed["monthly"] \subseteq mailed'["monthly"]
    BY <1>1, <2>1, StepGrows DEF Mails
  <2>3. ReportsCatchUp'
    BY <2>1, <2>2 DEF ReportInv, ReportsCatchUp
  <2>4. Pending' => Pending
    BY <2>1, <2>2 DEF Pending
  <2>5. Pending' => Spent' <= Allowed'
    BY <1>1, <2>1, <2>4, ReportRunStep DEF ReportInv
  <2>. QED BY <2>3, <2>5 DEF ReportInv
<1>. QED BY <1>2, <1>3, <1>4 DEF MailNext

LEMMA ReportAtStart ==
    ASSUME MailInit
    PROVE  ReportInv
<1>1. TruthInv /\ time = 0 /\ ran = FALSE /\ slips = 0 /\ refused = 0 /\ repeats = 0
  BY TruthAtStart DEF MailInit
<1>2. ReportFacts
  BY <1>1, ReportNumbers
<1>3. Report(0) = 0 /\ Since(0) <= 0
  <2>1. \A n \in Nat \ {0} : 0 \div n = 0 /\ 0 * n = 0
    OBVIOUS
  <2>2. DayLength \in Nat \ {0} /\ MonthDays \in Nat \ {0} /\ SendHour \in Nat /\ MonthLength \in Nat \ {0}
    BY MailAssumption, MonthClock
  <2>3. Report(0) = 0
    BY <2>1, <2>2 DEF Report, Day
  <2>4. 0 * MonthLength = 0
    BY <2>1, <2>2
  <2>5. Since(0) = 0 - 0 - SendHour
    BY <2>3, <2>4 DEF Since
  <2>. QED BY <2>2, <2>3, <2>5
<1>4. Load = 0
  <2>1. AtWork = {}
    BY RestTold DEF MailInit, AtWork
  <2>. QED BY <2>1, FS_EmptySet DEF Load
<1>5. RetryAfter * (0 + 0 + 1) = RetryAfter
  BY <1>2 DEF ReportFacts
<1>6. Spent <= Allowed
  <2>1. RetryWait \in Nat /\ RetryWait <= RetryAfter /\ Cardinality(DaysOut) \in Nat /\ One(ran) = 0 /\ RetryAfter \in Nat
        /\ Since(0) \in Int
    BY <1>1, <1>2 DEF ReportFacts, One
  <2>2. Spent = Since(0) + 0 + 0 + RetryWait /\ Allowed = RetryAfter + 0 + Cardinality(DaysOut)
    BY <1>1, <1>4, <1>5, <2>1 DEF Spent, Allowed
  <2>. QED BY <1>3, <2>1, <2>2
<1>7. ReportsCatchUp
  BY <1>1, <1>3 DEF ReportsCatchUp
<1>. QED BY <1>6, <1>7 DEF ReportInv

(* A week's summary goes out on its day, unless a write, an answer or a run   *)
(* was lost or late on that day, for any number of runs at work at once and    *)
(* any bounds that leave room for it (SummaryWentOut).                       *)
THEOREM SummaryComes ==
    ASSUME RoomToSend
    PROVE  MailSpec => []SummaryWentOut
<1>1. MailInit => TruthInv /\ SummaryInv
  BY TruthAtStart, SummaryAtStart
<1>2. TruthInv /\ SummaryInv /\ [MailNext]_mailVars => (TruthInv /\ SummaryInv)'
  BY TruthStepKeeps, SummaryStepKeeps
<1>3. TruthInv /\ SummaryInv => SummaryWentOut
  BY DEF SummaryInv
<1>. QED BY <1>1, <1>2, <1>3, PTL DEF MailSpec

(* A month's report goes out before the month is over, however often the       *)
(* summary takes its place or something goes wrong (ReportsCatchUp).          *)
THEOREM ReportsCome ==
    ASSUME MonthHasRoom
    PROVE  MailSpec => []ReportsCatchUp
<1>1. MailInit => TruthInv /\ ReportInv
  BY TruthAtStart, ReportAtStart
<1>2. TruthInv /\ ReportInv /\ [MailNext]_mailVars => (TruthInv /\ ReportInv)'
  BY TruthStepKeeps, ReportStepKeeps
<1>3. TruthInv /\ ReportInv => ReportsCatchUp
  BY DEF ReportInv
<1>. QED BY <1>1, <1>2, <1>3, PTL DEF MailSpec

(* MailsComeOnce for every value of the constants that leaves room for the     *)
(* mails: each comes once but for a slip, is tried not too soon but for a slip, *)
(* and comes in its time.                                                   *)
THEOREM MailsAllCome ==
    ASSUME RoomToSend, MonthHasRoom
    PROVE  MailSpec => []MailsComeOnce
<1>1. MailSpec => []SummaryWentOut
  BY SummaryComes
<1>2. MailSpec => []ReportsCatchUp
  BY ReportsCome
<1>3. repeats <= slips /\ hasty <= slips /\ SummaryWentOut /\ ReportsCatchUp => MailsComeOnce
  BY DEF MailsComeOnce
<1>. QED BY <1>1, <1>2, <1>3, RepeatsArePaid, TriesAreSpaced, PTL

-----------------------------------------------------------------------------
(* All of them together.                                                    *)

\* A behaviour of the whole is one of each part, which rests outside its scene.
LEMMA PartsBegin ==
    ASSUME Init
    PROVE  BudgetInit /\ OutboxInit /\ SchemaInit /\ RotationInit /\ RollupInit /\ MailInit
BY DEF Init

LEMMA PartsStep ==
    ASSUME [Next]_vars
    PROVE  /\ [BudgetNext]_budgetVars /\ [OutboxNext]_outboxVars /\ [SchemaNext]_schemaVars
           /\ [RotationNext]_rotationVars /\ [RollupNext]_rollupVars /\ [MailNext]_mailVars
<1>1. CASE UNCHANGED vars
  BY <1>1 DEF vars
<1>2. CASE InBudget(BudgetNext)
  BY <1>2 DEF InBudget
<1>3. CASE InOutbox(OutboxNext)
  BY <1>3 DEF InOutbox
<1>4. CASE InSchema(SchemaNext)
  BY <1>4 DEF InSchema
<1>5. CASE InRotation(RotationNext)
  BY <1>5 DEF InRotation
<1>6. CASE InRollups(RollupNext)
  BY <1>6 DEF InRollups
<1>7. CASE InMails(MailNext)
  BY <1>7 DEF InMails
<1>. QED BY <1>1, <1>2, <1>3, <1>4, <1>5, <1>6, <1>7 DEF Next

(* What is proved of a part holds where the runs check it: the instance of   *)
(* an install behaves as the run, the outbox, the migration, the replacing of *)
(* the key, the history and the mails do, each as its own module says.       *)
THEOREM InstallHasItsParts ==
    Spec => BudgetSpec /\ OutboxSpec /\ SchemaSpec /\ RotationSpec /\ RollupSpec /\ MailSpec
BY PartsBegin, PartsStep, PTL DEF Spec, BudgetSpec, OutboxSpec, SchemaSpec, RotationSpec, RollupSpec, MailSpec

(* The state of an install is of its type, whatever the sizes and the bounds *)
(* of its instance are: TypeOK of MCInstall, for every value of the constants. *)
THEOREM InstallTypeCorrect == Spec => []TypeOK
<1>1. RotationInv => RotationTypeOK
  BY DEF RotationInv
<1>2. RotationSpec => []RotationTypeOK
  BY <1>1, RotationInvariant, PTL
<1>3. BudgetTypeOK /\ OutboxTypeOK /\ SchemaTypeOK /\ RotationTypeOK /\ RollupTypeOK /\ MailTypeOK => TypeOK
  BY DEF TypeOK
<1>. QED
  BY <1>2, <1>3, InstallHasItsParts, BudgetTypes, OutboxTypeCorrect, SchemaTypeCorrect, RollupTypeCorrect,
     MailTypeCorrect, PTL

(* All safety that the runs check of an install, for every value of the       *)
(* constants: it keeps its budget and its promise to the alerts' owner, says   *)
(* what is true of its schema, loses no secret and no check of its history,   *)
(* and sends each mail, once.  An install keeps hours no longer than days     *)
(* and has room for the mails.                                               *)
THEOREM InstallIsSafe ==
    ASSUME HourlyDays <= DailyDays, RoomToSend, MonthHasRoom
    PROVE  Spec => /\ KeepsPromise
                   /\ [](/\ WithinCap /\ ReservesHold
                         /\ GivenUpWhenTried /\ RepeatsHaveACause
                         /\ SchemaAnswersAreTrue /\ RotationIsSafe
                         /\ BucketsAddUp /\ MailsComeOnce)
<1>1. OutboxSpec => KeepsPromise /\ []GivenUpWhenTried /\ []RepeatsHaveACause
  BY OutboxKeepsPromise, GivenUpOnlyWhenTried, RepeatsOnlyByFaults
<1>2. RollupSpec => []BucketsAddUp
  BY RollupsMissNothing
<1>3. MailSpec => []MailsComeOnce
  BY MailsAllCome
<1>. QED
  BY <1>1, <1>2, <1>3, InstallHasItsParts, RunsStayWithinCap, ReservesAreKept, SchemaAnswersStayTrue,
     RotationKeepsAll, PTL

================================================================================
