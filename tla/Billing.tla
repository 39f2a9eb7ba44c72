-------------------------------- MODULE Billing --------------------------------
(***************************************************************************)
(* An account's subscriptions (billing/): what Stripe holds, the rows saved *)
(* from it, the tenant's status they decide, and the end of it all when the *)
(* account is deleted (account-deletion.ts).  Stripe tells of every change  *)
(* with an event, delivered until it is answered 200, in any order, more    *)
(* than once, and by deliveries that may die or stall past their locks.     *)
(*                                                                         *)
(* Plans, packs, invoices and mails are left out: a subscription is its     *)
(* status.  Checkout is one step: it holds the account's lock across its    *)
(* calls, and what it makes is only seen once the customer pays.            *)
(***************************************************************************)
EXTENDS Integers, Sequences

CONSTANTS
    Subs, NoSub,    \* subscriptions, one for each Checkout Session
    Deliveries, NoHolder,
    MaxRounds,      \* rounds of processEvent
    MaxTrouble      \* bound: of what "trouble" counts

ASSUME BillingAssumption ==
    NoSub \notin Subs /\ NoHolder \notin Deliveries /\ MaxRounds \in Nat \ {0} /\ MaxTrouble \in Nat

VARIABLES
    stripe,     \* each subscription's status at Stripe
    events,     \* Stripe's events: the subscription, and its row in stripe_events
    pages,      \* the Checkout Sessions still open at Stripe
    row,        \* the status saved in subscriptions
    standing,   \* the tenant's status, "gone" once there is no tenant
    session,    \* accounts.checkout_session_id
    lock,       \* billing_locks: whose token, and whether its time has passed
    job,        \* each delivery of an event: its last fetch, and whether it judged it
                \* with the deletion asked for
    account,    \* "open", "closing" (deletion_requested_at), "scrubbed" (deleted_at)
    closer,     \* the lifecycle job at work on a closing account
    struck, repaid,     \* subscriptions the webhook cancelled, and refunded
    slipped,    \* those saved as paid after the deletion was asked for, but judged before
    trouble     \* how often a paid subscription changed; calls threw or deliveries
                \* died; a lock passed while its holder was at work

billVars == <<stripe, events, pages, row, standing, session, lock, job, account, closer,
              struck, repaid, slipped, trouble>>
atStripe == <<stripe, events, pages>>
theirs == <<account, closer>>
history == <<struck, repaid, slipped>>

PaidStates == {"active", "past_due"}
Statuses == PaidStates \cup {"none", "unpaid", "canceled"}
Idle == [pc |-> "idle", event |-> 0, seen |-> "none", round |-> 0, asked |-> FALSE]
AtRest == [pc |-> "idle", todo |-> {}, settled |-> TRUE]
Within == {"fetch", "judge", "cancel", "refund", "save", "apply", "refetch"}

BillTypeOK ==
    /\ stripe \in [Subs -> Statuses] /\ row \in [Subs -> Statuses]
    /\ events \in Seq([sub : Subs, state : {"new", "taken", "done"}])
    /\ pages \subseteq Subs /\ session \in Subs \cup {NoSub}
    /\ standing \in {"trial", "active", "past_due", "suspended", "gone"}
    /\ lock \in [holder : Deliveries \cup {NoHolder}, over : BOOLEAN]
    /\ job \in [Deliveries -> [pc : Within \cup {"idle"}, event : 0 .. Len(events),
                               seen : Statuses, round : 0 .. MaxRounds, asked : BOOLEAN]]
    /\ account \in {"open", "closing", "scrubbed"}
    /\ closer \in [pc : {"idle", "session", "settle", "scrub"}, todo : SUBSET Subs, settled : BOOLEAN]
    /\ struck \subseteq Subs /\ repaid \subseteq Subs /\ slipped \subseteq Subs
    /\ trouble \in [turns : 0 .. MaxTrouble, faults : 0 .. MaxTrouble, late : 0 .. MaxTrouble]

BillInit ==
    /\ stripe = [s \in Subs |-> "none"] /\ row = [s \in Subs |-> "none"]
    /\ events = <<>> /\ pages = {} /\ session = NoSub
    /\ standing = "trial"
    /\ lock = [holder |-> NoHolder, over |-> FALSE]
    /\ job = [d \in Deliveries |-> Idle]
    /\ account = "open" /\ closer = AtRest
    /\ struck = {} /\ repaid = {} /\ slipped = {}
    /\ trouble = [turns |-> 0, faults |-> 0, late |-> 0]

JobAt(d, pc) == job[d].pc = pc
JobGoes(d, pc) == job' = [job EXCEPT ![d].pc = pc]
Of(d) == events[job[d].event].sub
Paid(status) == status \in PaidStates
Counts(kind) ==
    /\ trouble.turns + trouble.faults + trouble.late < MaxTrouble
    /\ trouble' = [trouble EXCEPT ![kind] = @ + 1]
Fault == Counts("faults")

\* What Stripe does to a subscription, and the event that tells of it.
Becomes(s, status) ==
    /\ stripe' = [stripe EXCEPT ![s] = status]
    /\ events' = Append(events, [sub |-> s, state |-> "new"])

-----------------------------------------------------------------------------
(* Stripe and the customer.                                                 *)

MayTurn == [none |-> {}, active |-> {"past_due", "canceled"}, past_due |-> {"active", "unpaid", "canceled"},
            unpaid |-> {"active", "canceled"}, canceled |-> {}]

Turns(s) ==
    /\ Counts("turns") /\ \E status \in MayTurn[stripe[s]] : Becomes(s, status)
    /\ UNCHANGED <<pages, row, standing, session, lock, job, theirs, history>>

LockFree == lock.holder = NoHolder
CanLock == lock.holder = NoHolder \/ lock.over

\* The account's saved rows decide whether it already pays.  The last page is
\* expired first; the id of a new one is lost when its save throws.
Checkout(s) ==
    /\ account # "scrubbed" /\ standing # "gone" /\ CanLock
    /\ stripe[s] = "none" /\ s \notin pages
    /\ \A t \in Subs : row[t] \notin {"active", "past_due", "unpaid"}
    /\ pages' = (pages \ {session}) \cup {s}
    /\ \/ session' = s /\ UNCHANGED trouble
       \/ UNCHANGED session /\ Fault
    /\ lock' = [holder |-> NoHolder, over |-> FALSE]
    /\ UNCHANGED <<stripe, events, row, standing, job, theirs, history>>

Pays(s) ==
    /\ s \in pages
    /\ pages' = pages \ {s} /\ Becomes(s, "active")
    /\ UNCHANGED <<row, standing, session, lock, job, theirs, history, trouble>>

\* endTrials.
TrialEnds ==
    /\ standing = "trial" /\ standing' = "suspended"
    /\ UNCHANGED <<atStripe, row, session, lock, job, theirs, history, trouble>>

-----------------------------------------------------------------------------
(* A delivery of an event.                                                  *)

Marks(e, state) == events' = [events EXCEPT ![e].state = state]

\* The event, then the account's lock.  While another has either, 409: nothing
\* is kept, and Stripe delivers the event again.
TakeEvent(d, e) ==
    /\ JobAt(d, "idle") /\ events[e].state = "new" /\ CanLock
    /\ Marks(e, "taken") /\ lock' = [holder |-> d, over |-> FALSE]
    /\ job' = [job EXCEPT ![d] = [Idle EXCEPT !.pc = "fetch", !.event = e]]
    /\ UNCHANGED <<stripe, pages, row, standing, session, theirs, history, trouble>>

\* The lock goes, and the event is processed, or open to its next delivery,
\* whoever has it by now.  (Both in one step: the work is done.)
Released(d) == IF lock.holder = d THEN [holder |-> NoHolder, over |-> FALSE] ELSE lock
Ends(d) == lock' = Released(d) /\ job' = [job EXCEPT ![d] = Idle]
Reopened(d, told) ==
    IF told[job[d].event].state = "taken" THEN [told EXCEPT ![job[d].event].state = "new"] ELSE told

Loses(d) == Ends(d) /\ events' = Reopened(d, events)

Fetch(d) ==
    /\ JobAt(d, "fetch")
    /\ job' = [job EXCEPT ![d].seen = stripe[Of(d)], ![d].round = 1, ![d].pc = "judge"]
    /\ UNCHANGED <<atStripe, row, standing, session, lock, theirs, history, trouble>>

HasRow(status) == status # "none"
IsActive(status) == status = "active"
CountsAsPaid(status) == Paid(status)
Second(d) == \E t \in Subs \ {Of(d)} : CountsAsPaid(row[t])
Closed == account = "scrubbed"
Closing == account # "open"

\* An account being deleted can't start to pay again, and only one subscription is kept.
Judge(d) ==
    /\ JobAt(d, "judge")
    /\ job' = [job EXCEPT ![d].asked = (account # "open"),
                          ![d].pc = IF Paid(job[d].seen) /\ (Closing \/ Second(d)) THEN "cancel" ELSE "save"]
    /\ UNCHANGED <<atStripe, row, standing, session, lock, theirs, history, trouble>>

\* Stripe refuses to cancel what is cancelled, unless the key is the same.
Cancels(d) ==
    /\ struck' = struck \cup {Of(d)}
    /\ \/ stripe[Of(d)] # "canceled" /\ Becomes(Of(d), "canceled")
       \/ Of(d) \in struck /\ UNCHANGED <<stripe, events>>

\* Cancelled by someone else: the call fails, and the next delivery sees it.
Refused(d) ==
    /\ JobAt(d, "cancel") /\ stripe[Of(d)] = "canceled" /\ Of(d) \notin struck
    /\ Loses(d)
    /\ UNCHANGED <<stripe, pages, row, standing, session, theirs, history, trouble>>

Cancel(d) ==
    /\ JobAt(d, "cancel") /\ Cancels(d)
    /\ job' = [job EXCEPT ![d].pc = "refund", ![d].seen = "canceled"]
    /\ UNCHANGED <<pages, row, standing, session, lock, theirs, repaid, slipped, trouble>>

RefundsIfHolding(d) == lock.holder = d
Refunds(d) == TRUE
Refund(d) ==
    /\ JobAt(d, "refund") /\ JobGoes(d, "save")
    /\ repaid' = IF Refunds(d) THEN repaid \cup {Of(d)} ELSE repaid
    /\ UNCHANGED <<atStripe, row, standing, session, lock, theirs, struck, slipped, trouble>>

Anyone(d) == TRUE
Holds(d) == lock.holder = d

Save(d) ==
    /\ JobAt(d, "save")
    /\ IF Holds(d)
       THEN /\ row' = [row EXCEPT ![Of(d)] = job[d].seen]
            /\ slipped' = IF Paid(job[d].seen) /\ account # "open" /\ ~job[d].asked THEN slipped \cup {Of(d)} ELSE slipped
            /\ JobGoes(d, "apply") /\ UNCHANGED <<events, lock>>
       ELSE Loses(d) /\ UNCHANGED <<row, slipped>>
    /\ UNCHANGED <<stripe, pages, standing, session, theirs, struck, repaid, trouble>>

StatusSaved ==
    IF \E s \in Subs : row[s] = "active" THEN "active"
    ELSE IF \E s \in Subs : row[s] = "past_due" THEN "past_due" ELSE "canceled"
\* stateForStatus of the row of the highest rank.
StandingFor ==
    IF \E s \in Subs : row[s] = "active" THEN "active"
    ELSE IF \E s \in Subs : row[s] = "past_due" THEN "past_due" ELSE "suspended"

\* Nothing to write, or a write that needs the lock: the plan, the packs or the
\* reason may change where the status does not.
Apply(d) ==
    /\ JobAt(d, "apply")
    /\ \/ standing \in {"gone", StandingFor} /\ JobGoes(d, "refetch") /\ UNCHANGED <<standing, events, lock>>
       \/ standing # "gone" /\ Holds(d) /\ standing' = StandingFor /\ JobGoes(d, "refetch") /\ UNCHANGED <<events, lock>>
       \/ standing # "gone" /\ ~Holds(d) /\ Loses(d) /\ UNCHANGED standing
    /\ UNCHANGED <<stripe, pages, row, session, theirs, history, trouble>>

\* Until two reads agree, or the rounds are over.  (A finished page's id goes:
\* it can't be expired any more, so it doesn't matter when.)
Refetch(d) ==
    /\ JobAt(d, "refetch")
    /\ IF stripe[Of(d)] = job[d].seen \/ job[d].round = MaxRounds
       THEN Ends(d) /\ Marks(job[d].event, "done") /\ session' = (IF session = Of(d) THEN NoSub ELSE session)
       ELSE /\ job' = [job EXCEPT ![d].seen = stripe[Of(d)], ![d].round = @ + 1, ![d].pc = "judge"]
            /\ UNCHANGED <<session, events, lock>>
    /\ UNCHANGED <<stripe, pages, row, standing, theirs, history, trouble>>

\* A call throws, the cancellation's perhaps after it took effect.
Throws(d) ==
    /\ ~JobAt(d, "idle") /\ Fault /\ Ends(d)
    /\ \/ events' = Reopened(d, events) /\ UNCHANGED <<stripe, struck>>
       \/ /\ JobAt(d, "cancel") /\ stripe[Of(d)] # "canceled"
          /\ stripe' = [stripe EXCEPT ![Of(d)] = "canceled"] /\ struck' = struck \cup {Of(d)}
          /\ events' = Append(Reopened(d, events), [sub |-> Of(d), state |-> "new"])
    /\ UNCHANGED <<pages, row, standing, session, theirs, repaid, slipped>>

DeliveryDies(d) ==
    /\ ~JobAt(d, "idle") /\ job' = [job EXCEPT ![d] = Idle] /\ Fault
    /\ UNCHANGED <<atStripe, row, standing, session, lock, theirs, history>>

\* Their minute passes: the event's, and the account's.
Late(busy) == IF busy THEN Counts("late") ELSE UNCHANGED trouble

ClaimPasses(e) ==
    /\ events[e].state = "taken" /\ Marks(e, "new")
    /\ Late(\E d \in Deliveries : job[d].event = e)
    /\ UNCHANGED <<stripe, pages, row, standing, session, lock, job, theirs, history>>

LockPasses ==
    /\ lock.holder # NoHolder /\ ~lock.over /\ lock' = [lock EXCEPT !.over = TRUE]
    /\ Late(~JobAt(lock.holder, "idle"))
    /\ UNCHANGED <<atStripe, row, standing, session, job, theirs, history>>

-----------------------------------------------------------------------------
(* The end of the account.                                                  *)

RequestDeletion ==
    /\ account = "open" /\ account' = "closing"
    /\ UNCHANGED <<atStripe, row, standing, session, lock, job, closer, history, trouble>>

\* The tenant goes: its account is closing, or it stayed suspended.
TenantGoes ==
    /\ standing # "gone" /\ (account = "closing" \/ standing = "suspended") /\ standing' = "gone"
    /\ UNCHANGED <<atStripe, row, session, lock, job, theirs, history, trouble>>

\* settleAccountBilling, by the request and by every tick after it.
SettleReads ==
    /\ account = "closing" /\ closer.pc = "idle"
    /\ closer' = [pc |-> "session", todo |-> {s \in Subs : row[s] \notin {"none", "canceled"}}, settled |-> TRUE]
    /\ UNCHANGED <<atStripe, row, standing, session, lock, job, account, history, trouble>>

SessionExpires ==
    /\ closer.pc = "session" /\ closer' = [closer EXCEPT !.pc = "settle"]
    /\ pages' = pages \ {session} /\ session' = NoSub
    /\ UNCHANGED <<stripe, events, row, standing, lock, job, account, history, trouble>>

\* Stripe refuses to cancel what it has cancelled already; a later tick sees that saved.
SettleOne(s) ==
    /\ closer.pc = "settle" /\ s \in closer.todo
    /\ closer' = [closer EXCEPT !.todo = @ \ {s}, !.settled = @ /\ stripe[s] # "canceled"]
    /\ IF stripe[s] # "canceled" THEN Becomes(s, "canceled") /\ row' = [row EXCEPT ![s] = "canceled"]
       ELSE UNCHANGED <<stripe, events, row>>
    /\ UNCHANGED <<pages, standing, session, lock, job, account, history, trouble>>

Settled ==
    /\ closer.pc = "settle" /\ closer.todo = {}
    /\ closer' = IF standing = "gone" /\ closer.settled THEN [closer EXCEPT !.pc = "scrub"] ELSE AtRest
    /\ UNCHANGED <<atStripe, row, standing, session, lock, job, account, history, trouble>>

\* scrubAccount takes the account's billing lock with it.
Scrub ==
    /\ closer.pc = "scrub" /\ closer' = AtRest /\ account' = "scrubbed"
    /\ lock' = [holder |-> NoHolder, over |-> FALSE] /\ session' = NoSub
    /\ UNCHANGED <<atStripe, row, standing, job, history, trouble>>

DeliveryStep(d) ==
    \/ Fetch(d) \/ Judge(d) \/ Cancel(d) \/ Refund(d)
    \/ Save(d) \/ Apply(d) \/ Refetch(d) \/ Refused(d) \/ Throws(d)
CloserStep ==
    \/ SettleReads \/ SessionExpires \/ Settled \/ Scrub \/ \E s \in Subs : SettleOne(s)
Delivered == \E d \in Deliveries, e \in 1 .. Len(events) : TakeEvent(d, e)

BillNext ==
    \/ \E s \in Subs : Turns(s) \/ Checkout(s) \/ Pays(s)
    \/ TrialEnds \/ Delivered
    \/ \E d \in Deliveries : DeliveryStep(d) \/ DeliveryDies(d)
    \/ \E e \in 1 .. Len(events) : ClaimPasses(e)
    \/ LockPasses \/ RequestDeletion \/ TenantGoes \/ CloserStep

BillSpec == BillInit /\ [][BillNext]_billVars

-----------------------------------------------------------------------------
Untold(s) == \E e \in 1 .. Len(events) : events[e].sub = s /\ events[e].state # "done"

(* Once its events are processed, a subscription is saved as it is at Stripe, *)
(* and the tenant is as its subscriptions say, whatever the order of the      *)
(* deliveries: no slow or repeated one puts an older answer last.             *)
LastWordIsStripes ==
    /\ \A s \in Subs : Untold(s) \/ row[s] = stripe[s]
    /\ (\A s \in Subs : ~Untold(s)) /\ (\E s \in Subs : row[s] # "none") => standing \in {"gone", StandingFor}

(* A customer is never left paying twice: once all events are processed, one  *)
(* subscription at most is paid for.                                          *)
OnePays ==
    (\A s \in Subs : ~Untold(s)) => \A s, t \in Subs : Paid(stripe[s]) /\ Paid(stripe[t]) => s = t

(* A subscription is taken for a second one, and cancelled, only when another *)
(* is paid for at Stripe, or the platform was not told yet that it is not.    *)
KeepsOne ==
    [][\A d \in Deliveries : JobAt(d, "judge") /\ job'[d].pc = "cancel" =>
          Closing \/ \E t \in Subs \ {Of(d)} : Paid(stripe[t]) \/ Untold(t)]_billVars

(* What the webhook cancels it refunds, also when it stalled in between,      *)
(* unless a call threw or the delivery died.                                  *)
StruckIsRepaid ==
    trouble.faults = 0 =>
        \A s \in struck : Untold(s) \/ s \in repaid \/ \E d \in Deliveries : JobAt(d, "refund") /\ Of(d) = s

(* A deleted account is not charged: nothing is paid at Stripe that a later   *)
(* event will not cancel, unless a delivery judged it before the deletion was *)
(* asked for and saved it after.                                              *)
ScrubbedIsFree ==
    account = "scrubbed" => \A s \in Subs : Paid(stripe[s]) => Untold(s) \/ s \in slipped

(* Every event is processed in the end, and an account that is to be deleted  *)
(* is, although deliveries die and locks are left behind.                     *)
BillingSettles ==
    LET unsettled == account = "closing" \/ \E s \in Subs : Untold(s) IN unsettled ~> ~unsettled
================================================================================
