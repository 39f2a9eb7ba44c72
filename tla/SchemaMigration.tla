--------------------------- MODULE SchemaMigration ---------------------------
(***************************************************************************)
(* How an install brings its own database to the schema of its bundle       *)
(* (lib/migrate.ts), on the platform's calls of routes/platform.ts: the     *)
(* every-minute scheduled call and the release runner's health check.       *)
(* Isolates of an older and a newer bundle answer calls side by side.  A    *)
(* lock row that expires keeps calls from migrating together; a UNIQUE name *)
(* keeps a migration from being applied twice when the lock did not.        *)
(*                                                                         *)
(* Every call of the database is one step; it may fail, with or without     *)
(* its effect, and the request it belongs to may end at any await.          *)
(***************************************************************************)
EXTENDS Integers, FiniteSets

CONSTANTS
    Isolates,
    Bundled,      \* BUNDLED_SCHEMA_VERSION of each isolate's bundle
    Calls,        \* platform calls that may be under way at once
    HealthCalls,  \* those of them that are GET /health, which never wait
    IsolateOf     \* where each call runs

ASSUME SchemaAssumption ==
    /\ Bundled \in [Isolates -> Nat]
    /\ HealthCalls \subseteq Calls
    /\ IsolateOf \in [Calls -> Isolates]

Nobody == "nobody"
ASSUME NobodyAssumption == Nobody \notin Calls

VARIABLES
    applied,     \* the numbers in d1_migrations
    lock,        \* the row of d1_migrations_lock: the attempt that holds it, if it still runs
    call,        \* each call: where it is, and the names it read under the lock
    isCurrent,   \* knownCurrent of each isolate, while fresh
    hasFailed,   \* lastFailure of each isolate, while fresh
    answer,      \* what each call answered last
    disturbed    \* history: a database call failed, or outlived the lock it worked under

schemaVars == <<applied, lock, call, isCurrent, hasFailed, answer, disturbed>>
memoVars == <<isCurrent, hasFailed>>

Migrations == UNION {1 .. Bundled[i] : i \in Isolates}
BundleOf(c) == 1 .. Bundled[IsolateOf[c]]
AtHome == [pc |-> "idle", names |-> {}]

SchemaTypeOK ==
    /\ applied \subseteq Migrations
    /\ lock \in [state : {"free", "held", "expired"}, by : Calls \cup {Nobody}]
    /\ call \in [Calls -> [pc : {"idle", "read", "look", "take", "wait", "apply", "failing",
                                 "report", "orphan"},
                           names : SUBSET Migrations]]
    /\ isCurrent \in [Isolates -> BOOLEAN] /\ hasFailed \in [Isolates -> BOOLEAN]
    /\ answer \in [Calls -> {"none", "ok", "failed", "busy"}]
    /\ disturbed \in BOOLEAN

\* A database some earlier bundle migrated, or a new one.
SchemaInit ==
    /\ \E n \in {0} \cup Migrations : applied = 1 .. n
    /\ lock = [state |-> "free", by |-> Nobody]
    /\ call = [c \in Calls |-> AtHome]
    /\ isCurrent = [i \in Isolates |-> FALSE] /\ hasFailed = [i \in Isolates |-> FALSE]
    /\ answer = [c \in Calls |-> "none"]
    /\ disturbed = FALSE

-----------------------------------------------------------------------------
(* What a step shares.                                                      *)

Stands(c, pc, names) == call' = [call EXCEPT ![c] = [pc |-> pc, names |-> names]]
MovesTo(c, pc) == Stands(c, pc, call[c].names) /\ UNCHANGED answer
Rests(c) == Stands(c, "idle", {})

\* ensureSchema's result: a health call goes on to report what the database has.
Replies(c, result) ==
    IF c \in HealthCalls
    THEN /\ Stands(c, "report", {})
         /\ UNCHANGED answer
    ELSE /\ Rests(c)
         /\ answer' = [answer EXCEPT ![c] = result]

RemembersCurrent(c) ==
    /\ isCurrent' = [isCurrent EXCEPT ![IsolateOf[c]] = TRUE]
    /\ hasFailed' = [hasFailed EXCEPT ![IsolateOf[c]] = FALSE]

\* The row keeps the UUID of an attempt that is over, which no other one has.
Abandoned(c) == IF lock.by = c THEN [lock EXCEPT !.by = Nobody] ELSE lock

Missing(c) == BundleOf(c) \ call[c].names
First(ms) == CHOOSE m \in ms : \A n \in ms : m <= n

-----------------------------------------------------------------------------
(* One call.                                                                *)

Ensure(c) ==
    /\ call[c].pc = "idle"
    /\ \/ isCurrent[IsolateOf[c]] /\ Replies(c, "ok")
       \/ ~isCurrent[IsolateOf[c]] /\ hasFailed[IsolateOf[c]] /\ Replies(c, "failed")
       \/ ~isCurrent[IsolateOf[c]] /\ ~hasFailed[IsolateOf[c]] /\ MovesTo(c, "read")
    /\ UNCHANGED <<applied, lock, memoVars, disturbed>>

ReadApplied(c) ==
    /\ call[c].pc = "read"
    /\ \/ BundleOf(c) \subseteq applied /\ Replies(c, "ok") /\ RemembersCurrent(c)
       \/ ~(BundleOf(c) \subseteq applied) /\ MovesTo(c, "look") /\ UNCHANGED memoVars
    /\ UNCHANGED <<applied, lock, disturbed>>

LookAtLock(c) ==
    /\ call[c].pc = "look"
    /\ MovesTo(c, IF lock.state = "held" THEN "wait" ELSE "take")
    /\ UNCHANGED <<applied, lock, memoVars, disturbed>>

\* The batch that takes a lock nobody holds, or one that ran out, and reads the
\* names again.
MayTakeAnyway == TRUE
MayTake == lock.state # "held"
TakeLock(c) ==
    /\ call[c].pc = "take"
    /\ \/ /\ MayTake
          /\ lock' = [state |-> "held", by |-> c]
          /\ Stands(c, "apply", applied)
          /\ UNCHANGED answer
       \/ ~MayTake /\ MovesTo(c, "wait") /\ UNCHANGED lock
    /\ UNCHANGED <<applied, memoVars, disturbed>>

\* Another call is migrating: look again, or give up; a health call does not wait.
Wait(c) ==
    /\ call[c].pc = "wait"
    /\ \/ c \notin HealthCalls /\ MovesTo(c, "read")
       \/ Replies(c, "busy")
    /\ UNCHANGED <<applied, lock, memoVars, disturbed>>

\* One migration's transaction: its queries, its name, and the lock pushed on
\* if it is still this attempt's.
Lands(c, m) ==
    /\ m \notin applied
    /\ applied' = applied \cup {m}
    /\ lock' = IF lock.by = c THEN [lock EXCEPT !.state = "held"] ELSE lock

Apply(c) ==
    /\ call[c].pc = "apply" /\ Missing(c) # {}
    /\ LET m == First(Missing(c)) IN
       \/ /\ Lands(c, m)
          /\ Stands(c, "apply", call[c].names \cup {m})
          /\ UNCHANGED answer
       \/ m \in applied /\ MovesTo(c, "failing") /\ UNCHANGED <<applied, lock>>
    /\ UNCHANGED <<memoVars, disturbed>>

\* The lock row goes if it is still this attempt's; a DELETE that fails is only
\* logged, and the row runs out.
Release(c) ==
    /\ \/ call[c].pc = "apply" /\ Missing(c) = {} /\ Replies(c, "ok") /\ RemembersCurrent(c)
       \/ /\ call[c].pc = "failing"
          /\ Replies(c, "failed")
          /\ hasFailed' = [hasFailed EXCEPT ![IsolateOf[c]] = TRUE]
          /\ UNCHANGED isCurrent
    /\ \/ lock' = IF lock.by = c THEN [state |-> "free", by |-> Nobody] ELSE lock
       \/ lock' = Abandoned(c)
    /\ UNCHANGED <<applied, disturbed>>

\* readSchemaState: the highest number is the bundle's or above, and no lock is
\* held; a read that fails says not ok.
ReachesBundle(c) == \A m \in BundleOf(c) : \E n \in applied : m <= n
ReportHealth(c) ==
    /\ call[c].pc = "report"
    /\ Rests(c)
    /\ \E result \in {"ok", "busy"} :
         /\ result = "ok" => lock.state # "held" /\ ReachesBundle(c)
         /\ answer' = [answer EXCEPT ![c] = result]
    /\ UNCHANGED <<applied, lock, memoVars, disturbed>>

\* schemaIsCurrent: a public call only looks.
PublicLook(i) ==
    /\ ~isCurrent[i] /\ 1 .. Bundled[i] \subseteq applied
    /\ isCurrent' = [isCurrent EXCEPT ![i] = TRUE]
    /\ UNCHANGED <<applied, lock, call, hasFailed, answer, disturbed>>

-----------------------------------------------------------------------------
(* What goes wrong.                                                         *)

\* A database call fails before a migration began: not remembered.  A lock
\* taken by a batch whose answer was lost stays until it runs out.
CallFails(c) ==
    /\ call[c].pc \in {"read", "look", "take"}
    /\ Replies(c, "failed")
    /\ \/ UNCHANGED lock
       \/ call[c].pc = "take" /\ MayTake /\ lock' = [state |-> "held", by |-> Nobody]
    /\ disturbed' = TRUE
    /\ UNCHANGED <<applied, memoVars>>

\* A migration's batch fails, with or without its effect.
ApplyFails(c) ==
    /\ call[c].pc = "apply" /\ Missing(c) # {}
    /\ Lands(c, First(Missing(c))) \/ UNCHANGED <<applied, lock>>
    /\ MovesTo(c, "failing")
    /\ disturbed' = TRUE
    /\ UNCHANGED memoVars

\* The request ends where it awaits; a migration it sent may still land.
Dies(c) ==
    /\ call[c].pc \notin {"idle", "orphan"}
    /\ \/ /\ call[c].pc = "apply" /\ Missing(c) # {}
          /\ MovesTo(c, "orphan")
          /\ UNCHANGED lock
       \/ /\ Rests(c)
          /\ lock' = Abandoned(c)
          /\ UNCHANGED answer
    /\ UNCHANGED <<applied, memoVars, disturbed>>

OrphanEnds(c) ==
    /\ call[c].pc = "orphan"
    /\ Rests(c)
    /\ LET m == First(Missing(c)) IN
       \/ /\ m \notin applied
          /\ applied' = applied \cup {m}
          /\ lock' = IF lock.by = c THEN [state |-> "held", by |-> Nobody] ELSE lock
       \/ lock' = Abandoned(c) /\ UNCHANGED applied
    /\ UNCHANGED <<answer, memoVars, disturbed>>

\* MIGRATION_LOCK_TTL_MS pass.  With the attempt that took the lock still at
\* work, one of its calls took that long.
LockExpires ==
    /\ lock.state = "held"
    /\ lock' = [lock EXCEPT !.state = "expired"]
    /\ disturbed' = (disturbed \/ lock.by # Nobody)
    /\ UNCHANGED <<applied, call, memoVars, answer>>

\* CURRENT_TTL_MS or FAILURE_TTL_MS pass, or the isolate forgets both.
Forgets(i) ==
    /\ \/ isCurrent' = [isCurrent EXCEPT ![i] = FALSE] /\ UNCHANGED hasFailed
       \/ hasFailed' = [hasFailed EXCEPT ![i] = FALSE] /\ UNCHANGED isCurrent
       \/ /\ isCurrent' = [isCurrent EXCEPT ![i] = FALSE]
          /\ hasFailed' = [hasFailed EXCEPT ![i] = FALSE]
    /\ UNCHANGED <<applied, lock, call, answer, disturbed>>

SchemaNext ==
    \/ \E c \in Calls :
         \/ Ensure(c) \/ ReadApplied(c) \/ LookAtLock(c) \/ TakeLock(c) \/ Wait(c)
         \/ Apply(c) \/ Release(c) \/ ReportHealth(c)
         \/ CallFails(c) \/ ApplyFails(c) \/ Dies(c) \/ OrphanEnds(c)
    \/ \E i \in Isolates : PublicLook(i) \/ Forgets(i)
    \/ LockExpires

SchemaSpec == SchemaInit /\ [][SchemaNext]_schemaVars

-----------------------------------------------------------------------------
(* Properties.                                                              *)

\* Migrations go in oldest first, whoever applies them.
NoGap == \A m \in applied : 1 .. m \subseteq applied

\* What a call answered, or an isolate remembers, of a bundle is so.
CurrentIsCurrent ==
    /\ \A c \in Calls : answer[c] = "ok" => BundleOf(c) \subseteq applied
    /\ \A i \in Isolates : isCurrent[i] => 1 .. Bundled[i] \subseteq applied

(* What platform calls answer about the schema is true (lib/migrate.ts       *)
(* attempt, ensureSchema).  Migrations of two bundles, applied by calls that  *)
(* overlap, die, or lose their lock, go in without a gap; a call or health   *)
(* check that said its bundle's schema was there is right for good; and no   *)
(* call says a migration failed unless a database call failed or outlived    *)
(* its lock: calls that merely race each other never collide.                *)
SchemaAnswersAreTrue ==
    /\ NoGap
    /\ CurrentIsCurrent
    /\ \A c \in Calls : answer[c] = "failed" => disturbed
=============================================================================
