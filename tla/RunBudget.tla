------------------------------ MODULE RunBudget ------------------------------
(***************************************************************************)
(* What one scheduler run spends (lib/budget.ts RunBudget, and the calls     *)
(* scheduler.ts, lib/batch.ts and the dispatcher make on it).  Checks run    *)
(* side by side and reserve the most they can fetch; when only reservations *)
(* are in the way a check waits for another one to end.  What comes after   *)
(* the checks, retries of failed batches, deliveries, an email and the run's *)
(* record, asks what is left of the D1 queries.                              *)
(*                                                                         *)
(* The event loop runs one callback at a time, so everything between two    *)
(* awaits is one action.                                                    *)
(***************************************************************************)
EXTENDS Integers, FiniteSets

CONSTANTS
    NumChecks,            \* polled checks due, taken in this order
    Workers,              \* CONCURRENCY
    Probe,                \* the most fetches each check's probe can make (probeFetchLimit)
    Recheck,              \* and its confirmation re-check; 0 when it does not confirm
    D1Queries, Subrequests, MaxChecks,       \* PlanBudget
    EmailD1,              \* WEEKLY_SUMMARY_D1, the dearer of the two email jobs
    NotificationReserve, NotificationD1Cost,
    Batch,                \* BATCH: deliveries of a run
    DeliveryD1            \* the dearest deliveryD1Cost

Checks == 1 .. NumChecks
CheckD1 == 1
TailReserve == 3 + EmailD1
Reserve == NotificationReserve * NotificationD1Cost

ASSUME BudgetAssumption ==
    /\ NumChecks \in Nat /\ Workers \in Nat \ {0}
    /\ Probe \in [Checks -> Nat] /\ Recheck \in [Checks -> Nat]
    /\ D1Queries \in Nat /\ Subrequests \in Nat /\ MaxChecks \in Nat
    /\ EmailD1 \in Nat /\ NotificationReserve \in Nat \ {0}
    /\ NotificationD1Cost \in Nat \ {0} /\ Batch \in Nat /\ DeliveryD1 \in Nat \ {0}
    /\ 4 + Reserve <= D1Queries

VARIABLES
    usage,      \* D1 queries made (UsageCounter)
    committed,  \* committedD1, which is also the checks started
    reserved,   \* reservedFetches
    fetches,    \* fetches of ended checks
    ticket,     \* each check, and its hold on the budget
    phase,      \* where the run is
    take,       \* deliveries the run may claim
    left,       \* deliveries claimed and not yet handled
    retried,      \* checks whose writes were retried on their own
    extra,      \* other retries of failed batches
    sends,      \* fetches made after the checks: deliveries, a token, an email
    token       \* FCM's access token is cached

budgetVars == <<usage, committed, reserved, fetches, ticket, phase, take, left, retried, extra, sends, token>>
checkVars == <<committed, reserved, fetches, ticket>>
tailVars == <<take, left, retried, extra, sends, token>>

Phases == {"checks", "reread", "plan", "together", "alone", "tail", "retail", "deliver",
           "email", "finish", "release", "over"}
Due == [pc |-> "due", reserved |-> 0, held |-> FALSE, made |-> 0]

BudgetTypeOK ==
    /\ usage \in Nat /\ committed \in Nat /\ reserved \in Int /\ fetches \in Int
    /\ ticket \in [Checks -> [pc : {"due", "waiting", "woken", "probe", "recheck", "done", "deferred"},
                              reserved : Nat, held : BOOLEAN, made : Nat]]
    /\ phase \in Phases
    /\ take \in 0 .. Batch /\ left \in 0 .. take
    /\ retried \in Nat /\ extra \in Nat /\ sends \in Nat /\ token \in BOOLEAN

\* The run's first batch took the lease and read the monitors.
BudgetInit ==
    /\ usage = 1 /\ committed = 0 /\ reserved = 0 /\ fetches = 0
    /\ ticket = [c \in Checks |-> Due]
    /\ phase = "checks"
    /\ take = 0 /\ left = 0 /\ retried = 0 /\ extra = 0 /\ sends = 0 /\ token = FALSE

-----------------------------------------------------------------------------
(* The checks.                                                              *)

In(pcs) == {c \in Checks : ticket[c].pc \in pcs}
Running == In({"probe", "recheck"})     \* inFlight counts them
Waiting == In({"waiting"})              \* waiters

FetchesFit(n) == fetches + reserved + n <= Subrequests

\* tryStartCheck's test.
Fits(c, hold) ==
    /\ committed < MaxChecks
    /\ usage + committed + CheckD1 + TailReserve + Reserve <= D1Queries
    /\ FetchesFit(Probe[c] + hold + NotificationReserve)

Started(c, hold) ==
    /\ committed' = committed + CheckD1
    /\ reserved' = reserved + Probe[c] + hold
    /\ ticket' = [ticket EXCEPT ![c] = [pc |-> "probe", reserved |-> Probe[c] + hold,
                                        held |-> hold > 0, made |-> 0]]

Becomes(c, pc) == ticket' = [ticket EXCEPT ![c].pc = pc] /\ UNCHANGED <<committed, reserved>>

\* mapLimit hands out the checks in order; a woken one tries again.
Tries(c) ==
    \/ ticket[c].pc = "woken"
    \/ /\ ticket[c].pc = "due" /\ \A d \in Checks : d < c => ticket[d].pc # "due"
       /\ Cardinality(In({"waiting", "woken", "probe", "recheck"})) < Workers

\* startCheck: with the re-check's hold; else wait while anything runs; else
\* without the hold; else not in this run.
StartCheck(c) ==
    /\ phase = "checks" /\ Tries(c)
    /\ IF Fits(c, Recheck[c]) THEN Started(c, Recheck[c])
       ELSE IF Running # {} THEN Becomes(c, "waiting")
       ELSE IF Recheck[c] > 0 /\ Fits(c, 0) THEN Started(c, 0)
       ELSE Becomes(c, "deferred")
    /\ UNCHANGED <<usage, fetches, phase, tailVars>>

WokenFirst(t) ==
    IF Waiting = {} THEN t
    ELSE [t EXCEPT ![CHOOSE d \in Waiting : \A e \in Waiting : d <= e].pc = "woken"]

\* Everyone who waits is woken, to try again.
Woken(t) == [d \in Checks |-> IF t[d].pc = "waiting" THEN [t[d] EXCEPT !.pc = "woken"] ELSE t[d]]

\* CheckTicket.end.
End(c, spent, pc) ==
    /\ reserved' = reserved - ticket[c].reserved
    /\ fetches' = fetches + spent
    /\ ticket' = Woken([ticket EXCEPT ![c] = [Due EXCEPT !.pc = pc]])
    /\ UNCHANGED committed

\* CheckTicket.tryConfirm.
Confirms(c) == ticket[c].held \/ FetchesFit(Recheck[c])

Confirmed(c, n) ==
    LET later == IF ticket[c].held THEN 0 ELSE Recheck[c] IN
    /\ reserved' = reserved + later
    /\ ticket' = [ticket EXCEPT ![c] = [pc |-> "recheck", reserved |-> @.reserved + later,
                                        held |-> FALSE, made |-> n]]
    /\ UNCHANGED <<committed, fetches>>

\* The probe passes or needs no re-check, is confirmed, must wait for the next
\* run (no room, or the registry refuses for now), or throws.
ProbeEnds(c) ==
    /\ ticket[c].pc = "probe"
    /\ \/ \E n \in 0 .. Probe[c] :
            \/ End(c, n, "done")
            \/ Recheck[c] > 0 /\ End(c, n, "deferred")
            \/ Recheck[c] > 0 /\ Confirms(c) /\ Confirmed(c, n)
       \/ End(c, ticket[c].reserved, "done")
    /\ UNCHANGED <<usage, phase, tailVars>>

RecheckEnds(c) ==
    /\ ticket[c].pc = "recheck"
    /\ \/ \E n \in 0 .. Recheck[c] : End(c, ticket[c].made + n, "done")
       \/ End(c, ticket[c].reserved, "done")
    /\ UNCHANGED <<usage, phase, tailVars>>

-----------------------------------------------------------------------------
(* After the checks.                                                        *)

Spend(n) == usage' = usage + n
Enters(p) == phase' = p
CanSpendD1Late(keep) == usage + keep <= D1Queries
CanSpendD1(keep) == usage + 1 + keep <= D1Queries

Min(a, b) == IF a <= b THEN a ELSE b
UncommittedLeft == D1Queries - usage - TailReserve
D1Left == D1Queries - usage - committed - TailReserve

AllowanceBelowZero(max) == Min(max, Min(D1Left \div NotificationD1Cost, Subrequests - fetches))

\* notificationAllowance.
Allowance(max) ==
    LET n == Min(max, Min(D1Left \div NotificationD1Cost, Subrequests - fetches))
    IN  IF n > 0 THEN n ELSE 0

\* readWriteContext: one batch when a check needs it, retried in parts if it fails.
ReadContext ==
    /\ phase = "checks" /\ In({"done", "deferred"}) = Checks
    /\ \/ UNCHANGED usage /\ Enters("plan")
       \/ Spend(1) /\ (Enters("plan") \/ Enters("reread"))
    /\ UNCHANGED <<checkVars, tailVars>>

Reread ==
    /\ phase = "reread"
    /\ \/ CanSpendD1(2) /\ Spend(1) /\ extra' = extra + 1 /\ UNCHANGED phase
       \/ Enters("plan") /\ UNCHANGED <<usage, extra>>
    /\ UNCHANGED <<checkVars, take, left, retried, sends, token>>

\* The tail's results are in: some rows were claimed, and plaintext ones are
\* encrypted in place first (outboxEntriesFromRows).
Claimed(t, spent) ==
    /\ Enters("deliver")
    /\ \E n \in 0 .. t, legacy \in 0 .. 1 :
         legacy <= n /\ left' = n /\ Spend(spent + legacy)

\* runWritePlan's first batch: it lands, there is none, or it fails, and then
\* the groups go together, one by one when there is no tail, or are none.
WritePlan ==
    /\ phase = "plan"
    /\ take' = Allowance(Batch)
    /\ \/ Claimed(take', 1)
       \/ take' = 0 /\ Claimed(0, 0)
       \/ Spend(1) /\ UNCHANGED left /\ Enters("together")
       \/ take' = 0 /\ Spend(1) /\ UNCHANGED left /\ Enters("alone")
       \/ In({"done"}) = {} /\ Spend(1) /\ UNCHANGED left /\ Enters("retail")
    /\ UNCHANGED <<checkVars, retried, extra, sends, token>>

\* Keep room for the run record and the deliveries just claimed.
CanRetry == CanSpendD1(1 + take * NotificationD1Cost)

WriteTogether ==
    /\ phase = "together"
    /\ \/ CanRetry /\ Spend(1) /\ Enters("tail") /\ UNCHANGED left
       \/ CanRetry /\ Spend(1) /\ Enters("alone") /\ UNCHANGED left
       \/ ~CanRetry /\ Claimed(0, 0)
    /\ UNCHANGED <<checkVars, take, retried, extra, sends, token>>

\* writeGroupAlone: a check's writes whole, the parts of a group that failed,
\* or a group no check paid for.
WriteAlone ==
    /\ phase = "alone"
    /\ \/ /\ CanRetry /\ Spend(1) /\ UNCHANGED phase
          /\ \/ retried < Cardinality(In({"done"})) /\ retried' = retried + 1 /\ UNCHANGED extra
             \/ extra' = extra + 1 /\ UNCHANGED retried
       \/ /\ CanRetry => retried = Cardinality(In({"done"}))
          /\ Enters("tail") /\ UNCHANGED <<usage, retried, extra>>
    /\ UNCHANGED <<checkVars, take, left, sends, token>>

\* batchEach of the tail: its first batch is made whatever is left.
WriteTail ==
    /\ phase = "tail"
    /\ \/ Claimed(take, 1)
       \/ take = 0 /\ Claimed(0, 0)
       \/ Spend(1) /\ Enters("retail") /\ UNCHANGED left
    /\ UNCHANGED <<checkVars, take, retried, extra, sends, token>>

TailAlone ==
    /\ phase = "retail"
    /\ \/ CanRetry /\ Spend(1) /\ UNCHANGED <<phase, left>>
       \/ Claimed(take, 0)
    /\ UNCHANGED <<checkVars, take, retried, extra, sends, token>>

\* processOutbox: an entry goes only if its worst case fits.  A delivery is one
\* fetch; the first to the Android app also fetches a token.
Deliver ==
    /\ phase = "deliver"
    /\ \/ /\ left > 0
          /\ \E cost \in 1 .. DeliveryD1 : CanSpendD1(cost) /\ \E n \in 1 .. cost : Spend(n)
          /\ \E n \in 0 .. (IF token THEN 1 ELSE 2) :
               sends' = sends + n /\ token' = (token \/ n = 2)
          /\ left' = left - 1 /\ UNCHANGED phase
       \/ /\ left > 0 => \E cost \in 1 .. DeliveryD1 : ~CanSpendD1(cost)
          /\ left' = 0 /\ Enters("email") /\ UNCHANGED <<usage, sends, token>>
    /\ UNCHANGED <<checkVars, take, retried, extra>>

\* The weekly summary or the monthly report, if its queries fit.
Email ==
    /\ phase = "email" /\ Enters("finish")
    /\ \/ CanSpendD1(EmailD1) /\ \E n \in 0 .. EmailD1, s \in 0 .. 1 : Spend(n) /\ sends' = sends + s
       \/ UNCHANGED <<usage, sends>>
    /\ UNCHANGED <<checkVars, take, left, retried, extra, token>>

\* The run's record and the lease, together; the lease alone if that fails.
FinishRun ==
    /\ phase \in {"finish", "release"}
    /\ Spend(1)
    /\ \/ Enters("over")
       \/ phase = "finish" /\ Enters("release")
    /\ UNCHANGED <<checkVars, tailVars>>

BudgetNext ==
    \/ \E c \in Checks : StartCheck(c) \/ ProbeEnds(c) \/ RecheckEnds(c)
    \/ ReadContext \/ Reread \/ WritePlan \/ WriteTogether \/ WriteAlone \/ WriteTail \/ TailAlone
    \/ Deliver \/ Email \/ FinishRun

BudgetSpec == BudgetInit /\ [][BudgetNext]_budgetVars

-----------------------------------------------------------------------------

(* However checks overlap, fail and re-check, what they made and may still   *)
(* make never passes the plan's fetches; and the whole run stays under its   *)
(* plan's limits but for the margin PLAN_BUDGETS keeps back: two D1 queries   *)
(* (a tail batch after retries used up the queries, and a lease released     *)
(* apart from the record) and two fetches (the Android app's token and the   *)
(* email, which nothing reserves).                                           *)
WithinCap ==
    /\ fetches + reserved <= Subrequests
    /\ usage <= D1Queries + 2
    /\ fetches + reserved + sends <= Subrequests + 2

(* What is kept back for later is there later.  "Each check still keeps one   *)
(* query back": unless reads or parts of groups were retried before, every   *)
(* checked monitor's writes can be retried on their own after the batch of   *)
(* all of them failed twice.  And a run that filled up with checks still has *)
(* queries for the deliveries of NOTIFICATION_RESERVE, but one:              *)
(* notificationAllowance keeps the whole tail reserve although the read      *)
(* batch was already paid from it.                                           *)
ReservesHold ==
    /\ phase = "alone" /\ extra = 0 /\ retried < Cardinality(In({"done"})) => CanRetry
    /\ phase = "plan" /\ extra = 0 /\ committed > 0
           => D1Left \div NotificationD1Cost >= NotificationReserve - 1
=============================================================================
