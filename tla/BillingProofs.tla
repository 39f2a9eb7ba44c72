----------------------------- MODULE BillingProofs -----------------------------
(***************************************************************************)
(* Proofs about Billing, for any number of subscriptions, deliveries and    *)
(* rounds, however often deliveries stall past their locks, die or throw:   *)
(* the last word saved is Stripe's, one subscription is paid for, what was  *)
(* struck is repaid, and a deleted account is not charged.                  *)
(*                                                                         *)
(* A delivery holds an older answer of Stripe's only while a newer event of *)
(* the same subscription waits that nobody took: taking it takes the lock,  *)
(* and without the lock nothing is saved.                                   *)
(***************************************************************************)
EXTENDS Billing, TLAPS, SequenceTheorems

EventRecords == [sub : Subs, state : {"new", "taken", "done"}]
JobRecords ==
    [pc : Within \cup {"idle"}, event : 0 .. Len(events), seen : Statuses, round : 0 .. MaxRounds, asked : BOOLEAN]
Locks == [holder : Deliveries \cup {NoHolder}, over : BOOLEAN]
Closers == [pc : {"idle", "session", "settle", "scrub"}, todo : SUBSET Subs, settled : BOOLEAN]
Troubles == [turns : 0 .. MaxTrouble, faults : 0 .. MaxTrouble, late : 0 .. MaxTrouble]

EventHeld == \A d \in Deliveries : (job[d].pc = "idle") <=> (job[d].event = 0)

\* A subscription is born when it is paid for the first time, and told of.
BornInv ==
    /\ \A s \in pages : stripe[s] = "none"
    /\ \A e \in DOMAIN events : stripe[events[e].sub] # "none"
    /\ \A s \in closer.todo : stripe[s] # "none"
    /\ \A s \in Subs : row[s] # "none" => stripe[s] # "none"

Knows(d) == job[d].pc \notin {"idle", "fetch"}
Stale(d) == Knows(d) /\ job[d].seen # stripe[Of(d)]
IsLast(e) == \A f \in DOMAIN events : events[f].sub = events[e].sub => f <= e
Untaken(e) == events[e].state = "new" /\ \A d \in Deliveries : job[d].event # e

FreshHolder ==
    \A d \in Deliveries : lock.holder = d /\ Stale(d) =>
        \E e \in DOMAIN events : events[e].sub = Of(d) /\ IsLast(e) /\ Untaken(e)
RowFollows ==
    \A s \in Subs : row[s] # stripe[s] =>
        \E e \in DOMAIN events : events[e].sub = s /\ IsLast(e) /\ events[e].state # "done"
SavedLast ==
    \A d \in Deliveries, e \in DOMAIN events :
        job[d].pc \in {"apply", "refetch"} /\ job[d].event = e /\ IsLast(e) => row[Of(d)] = stripe[Of(d)]
StruckStays == \A s \in struck : stripe[s] = "canceled"
FollowsInv == FreshHolder /\ RowFollows /\ SavedLast /\ StruckStays

\* While the tenant is not as its subscriptions say, an event is left whose
\* delivery will see that.
Wrong == (\E s \in Subs : row[s] # "none") /\ standing \notin {"gone", StandingFor}
Left(e) == events[e].state # "done" /\ \A d \in Deliveries : job[d].pc = "refetch" => job[d].event # e
StandingInv == Wrong => \E e \in DOMAIN events : Left(e)

\* Who judged, and still has the lock, may save.
JudgedAlone(d) ==
    lock.holder = d /\ job[d].pc = "save" /\ Paid(job[d].seen) => \A t \in Subs \ {Of(d)} : ~Paid(row[t])
OneInv ==
    /\ \A s, t \in Subs : Paid(row[s]) /\ Paid(row[t]) => s = t
    /\ \A d \in Deliveries : JudgedAlone(d)

RefundInv ==
    trouble.faults = 0 =>
        \A s \in struck : s \in repaid \/ \E d \in Deliveries : job[d].pc = "refund" /\ Of(d) = s

\* What is still saved as paid, but for what slipped, the closing account cancels.
Owed == {s \in Subs : Paid(row[s])} \ slipped
AskedOK(d) == job[d].pc = "refund" \/ (job[d].pc = "save" /\ job[d].asked) => ~Paid(job[d].seen)
EndInv ==
    /\ closer.pc # "idle" => account = "closing"
    /\ closer.pc \in {"session", "settle"} /\ closer.settled => Owed \subseteq closer.todo
    /\ closer.pc = "scrub" \/ account = "scrubbed" => Owed = {}
    /\ \A d \in Deliveries : AskedOK(d)

BillInv == BillTypeOK /\ EventHeld /\ BornInv /\ FollowsInv /\ StandingInv /\ OneInv /\ RefundInv /\ EndInv

-----------------------------------------------------------------------------
LEMMA BillInitOK == BillInit => BillInv
<1>. SUFFICES ASSUME BillInit PROVE BillInv
  OBVIOUS
<1>1. BillTypeOK
  BY BillingAssumption DEF BillInit, BillTypeOK, Statuses, PaidStates, Idle, AtRest, Within
<1>2. EventHeld /\ BornInv
  BY DEF BillInit, EventHeld, BornInv, Idle, AtRest
<1>3. FollowsInv
  BY DEF BillInit, FollowsInv, FreshHolder, Stale, Knows, RowFollows, SavedLast, StruckStays, Idle
<1>4. StandingInv /\ OneInv
  BY DEF BillInit, StandingInv, Wrong, OneInv, JudgedAlone, Paid, PaidStates, Idle
<1>5. RefundInv /\ EndInv
  BY DEF BillInit, RefundInv, EndInv, Owed, AskedOK, Paid, PaidStates, Idle, AtRest
<1>. QED BY <1>1, <1>2, <1>3, <1>4, <1>5 DEF BillInv

\* What the types say, one variable at a time.
LEMMA Typed ==
    ASSUME BillTypeOK
    PROVE  /\ stripe \in [Subs -> Statuses] /\ row \in [Subs -> Statuses]
           /\ events \in Seq(EventRecords) /\ Len(events) \in Nat /\ DOMAIN events = 1 .. Len(events)
           /\ \A e \in DOMAIN events : events[e] \in EventRecords
           /\ pages \subseteq Subs /\ session \in Subs \cup {NoSub}
           /\ lock \in Locks /\ job \in [Deliveries -> JobRecords]
           /\ closer \in Closers /\ trouble \in Troubles
           /\ struck \subseteq Subs /\ repaid \subseteq Subs /\ slipped \subseteq Subs
<1>1. events \in Seq(EventRecords)
  BY DEF BillTypeOK, EventRecords
<1>2. Len(events) \in Nat /\ DOMAIN events = 1 .. Len(events) /\ \A e \in DOMAIN events : events[e] \in EventRecords
  BY <1>1
<1>3. lock \in Locks /\ closer \in Closers /\ trouble \in Troubles
  BY DEF BillTypeOK, Locks, Closers, Troubles
<1>4. job \in [Deliveries -> JobRecords]
  BY DEF BillTypeOK, JobRecords
<1>. QED BY <1>1, <1>2, <1>3, <1>4 DEF BillTypeOK

LEMMA TypedNext ==
    ASSUME stripe' \in [Subs -> Statuses], row' \in [Subs -> Statuses], events' \in Seq(EventRecords),
           pages' \subseteq Subs, session' \in Subs \cup {NoSub},
           standing' \in {"trial", "active", "past_due", "suspended", "gone"},
           lock' \in Locks, job' \in [Deliveries -> JobRecords'],
           account' \in {"open", "closing", "scrubbed"}, closer' \in Closers, trouble' \in Troubles,
           struck' \subseteq Subs, repaid' \subseteq Subs, slipped' \subseteq Subs
    PROVE  BillTypeOK'
<1>1. events' \in Seq([sub : Subs, state : {"new", "taken", "done"}])
  BY DEF EventRecords
<1>2. job' \in [Deliveries -> [pc : Within \cup {"idle"}, event : 0 .. Len(events'),
                                seen : Statuses, round : 0 .. MaxRounds, asked : BOOLEAN]]
  BY DEF JobRecords
<1>3. /\ lock' \in [holder : Deliveries \cup {NoHolder}, over : BOOLEAN]
      /\ closer' \in [pc : {"idle", "session", "settle", "scrub"}, todo : SUBSET Subs, settled : BOOLEAN]
      /\ trouble' \in [turns : 0 .. MaxTrouble, faults : 0 .. MaxTrouble, late : 0 .. MaxTrouble]
  BY DEF Locks, Closers, Troubles
<1>. QED BY <1>1, <1>2, <1>3 DEF BillTypeOK

\* A delivery at work has an event at hand.
LEMMA EventAtHand ==
    ASSUME BillInv, NEW d \in Deliveries, job[d].pc # "idle"
    PROVE  job[d].event \in DOMAIN events /\ Of(d) \in Subs
<1>1. job[d].event \in 0 .. Len(events) /\ job[d].event # 0 /\ Len(events) \in Nat
  BY Typed DEF BillInv, EventHeld, JobRecords
<1>2. job[d].event \in DOMAIN events
  BY <1>1, Typed DEF BillInv
<1>3. events[job[d].event] \in EventRecords
  BY <1>2, Typed DEF BillInv
<1>. QED BY <1>2, <1>3 DEF Of, EventRecords

-----------------------------------------------------------------------------
(* What steps do to the events.                                             *)

SubsKept ==
    /\ DOMAIN events \subseteq DOMAIN events'
    /\ \A e \in DOMAIN events : events'[e].sub = events[e].sub
StatesKept ==
    \A e \in DOMAIN events :
        /\ events[e].state = "new" => events'[e].state = "new"
        /\ events[e].state # "done" => events'[e].state # "done"

LEMMA Marking ==
    ASSUME events \in Seq(EventRecords), NEW e \in DOMAIN events, NEW state \in {"new", "taken", "done"},
           Marks(e, state)
    PROVE  /\ events' \in Seq(EventRecords) /\ DOMAIN events' = DOMAIN events /\ Len(events') = Len(events) /\ SubsKept
           /\ events'[e].state = state
           /\ \A f \in DOMAIN events : f # e => events'[f] = events[f]
<1>0. e \in 1 .. Len(events) /\ DOMAIN events = 1 .. Len(events) /\ events[e] \in EventRecords
  OBVIOUS
<1>1. [events[e] EXCEPT !.state = state] \in EventRecords
  BY <1>0 DEF EventRecords
<1>2. events' = [events EXCEPT ![e] = [events[e] EXCEPT !.state = state]]
  BY DEF Marks
<1>3. events' \in Seq(EventRecords) /\ Len(events') = Len(events) /\ DOMAIN events' = DOMAIN events
  BY <1>0, <1>1, <1>2, ExceptSeq
<1>4. events'[e].sub = events[e].sub /\ events'[e].state = state
  BY <1>0, <1>1, <1>2 DEF EventRecords
<1>5. \A f \in DOMAIN events : f # e => events'[f] = events[f]
  BY <1>2
<1>. QED BY <1>3, <1>4, <1>5 DEF SubsKept

\* Stripe may deliver the event again.
LEMMA Reopening ==
    ASSUME BillInv, NEW d \in Deliveries, job[d].pc # "idle", NEW told, told = Reopened(d, events)
    PROVE  /\ told \in Seq(EventRecords) /\ Len(told) = Len(events) /\ DOMAIN told = DOMAIN events
           /\ \A e \in DOMAIN events :
                 /\ told[e].sub = events[e].sub
                 /\ events[e].state = "new" => told[e].state = "new"
                 /\ events[e].state # "done" => told[e].state # "done"
<1>. DEFINE e == job[d].event
<1>0. /\ events \in Seq(EventRecords) /\ e \in 1 .. Len(events) /\ DOMAIN events = 1 .. Len(events)
      /\ events[e] \in EventRecords
  BY EventAtHand, Typed DEF BillInv
<1>1. CASE events[e].state = "taken"
  <2>1. told = [events EXCEPT ![e] = [events[e] EXCEPT !.state = "new"]]
    BY <1>1 DEF Reopened
  <2>2. [events[e] EXCEPT !.state = "new"] \in EventRecords
    BY <1>0 DEF EventRecords
  <2>3. told \in Seq(EventRecords) /\ Len(told) = Len(events) /\ DOMAIN told = DOMAIN events
    BY <1>0, <2>1, <2>2, ExceptSeq
  <2>4. told[e].sub = events[e].sub /\ told[e].state = "new"
    BY <1>0, <2>1, <2>2 DEF EventRecords
  <2>5. \A f \in DOMAIN events : f # e => told[f] = events[f]
    BY <2>1
  <2>. QED BY <2>3, <2>4, <2>5
<1>2. CASE events[e].state # "taken"
  BY <1>0, <1>2 DEF Reopened
<1>. QED BY <1>1, <1>2

LEMMA Losing ==
    ASSUME BillInv, NEW d \in Deliveries, job[d].pc # "idle", events' = Reopened(d, events)
    PROVE  events' \in Seq(EventRecords) /\ Len(events') = Len(events) /\ DOMAIN events' = DOMAIN events /\ SubsKept /\ StatesKept
BY Reopening DEF SubsKept, StatesKept

\* An event is added to what was told, with perhaps one open again.
NewEvent(s) ==
    /\ SubsKept /\ StatesKept
    /\ Len(events') = Len(events) + 1 /\ DOMAIN events' = DOMAIN events \cup {Len(events) + 1}
    /\ events'[Len(events) + 1].sub = s /\ events'[Len(events) + 1].state = "new"

LEMMA Telling ==
    ASSUME BillInv, NEW told \in Seq(EventRecords), NEW s \in Subs,
           Len(told) = Len(events), DOMAIN told = DOMAIN events,
           \A e \in DOMAIN events :
                 /\ told[e].sub = events[e].sub
                 /\ events[e].state = "new" => told[e].state = "new"
                 /\ events[e].state # "done" => told[e].state # "done",
           events' = Append(told, [sub |-> s, state |-> "new"])
    PROVE  events' \in Seq(EventRecords) /\ NewEvent(s)
<1>0. Len(events) \in Nat /\ DOMAIN events = 1 .. Len(events)
  BY Typed DEF BillInv
<1>1. [sub |-> s, state |-> "new"] \in EventRecords
  BY DEF EventRecords
<1>2. /\ events' \in Seq(EventRecords) /\ Len(events') = Len(told) + 1
      /\ \A e \in DOMAIN events : events'[e] = told[e]
      /\ events'[Len(told) + 1] = [sub |-> s, state |-> "new"]
  BY <1>0, <1>1
<1>3. DOMAIN events' = DOMAIN events \cup {Len(events) + 1}
  BY <1>0, <1>2
<1>4. SubsKept /\ StatesKept
  BY <1>2, <1>3 DEF SubsKept, StatesKept
<1>. QED BY <1>2, <1>3, <1>4 DEF NewEvent

LEMMA Becoming ==
    ASSUME BillInv, NEW s \in Subs, NEW status \in Statuses, Becomes(s, status)
    PROVE  /\ events' \in Seq(EventRecords) /\ NewEvent(s)
           /\ stripe' \in [Subs -> Statuses] /\ stripe' = [stripe EXCEPT ![s] = status]
<1>1. events' = Append(events, [sub |-> s, state |-> "new"]) /\ events \in Seq(EventRecords)
  BY Typed DEF Becomes, BillInv
<1>2. events' \in Seq(EventRecords) /\ NewEvent(s)
  BY <1>1, Telling
<1>3. stripe' \in [Subs -> Statuses] /\ stripe' = [stripe EXCEPT ![s] = status]
  BY Typed DEF Becomes, BillInv
<1>. QED BY <1>2, <1>3

LEMMA OfStays ==
    ASSUME BillInv, SubsKept, NEW d \in Deliveries, job[d].pc # "idle", job'[d].event = job[d].event
    PROVE  Of(d)' = Of(d)
BY EventAtHand DEF SubsKept, Of

\* The records of deliveries, as events are added.
LEMMA JobsTyped ==
    ASSUME BillInv, job' \in [Deliveries -> JobRecords], Len(events') \in Nat, Len(events') >= Len(events)
    PROVE  job' \in [Deliveries -> JobRecords']
<1>1. JobRecords \subseteq JobRecords'
  BY Typed DEF BillInv, JobRecords
<1>. QED BY <1>1

-----------------------------------------------------------------------------
(* The order of answers (FollowsInv) under the kinds of steps there are.    *)

\* A delivery that does not come to know less, and saves nothing.
Quietly(d) ==
    /\ job'[d].event \in {job[d].event, 0}
    /\ job'[d].pc \in {"apply", "refetch"} => job[d].pc \in {"apply", "refetch"} /\ job'[d].event = job[d].event
    /\ Stale(d)' => Stale(d) /\ job'[d].event = job[d].event

LEMMA QuietOrder ==
    ASSUME BillInv, UNCHANGED <<stripe, row>>, \A s \in struck' : stripe[s] = "canceled",
           SubsKept, DOMAIN events' = DOMAIN events, StatesKept,
           lock'.holder \in {lock.holder, NoHolder}, \A d \in Deliveries : Quietly(d)
    PROVE  FollowsInv'
<1>0. FreshHolder /\ RowFollows /\ SavedLast /\ 0 \notin DOMAIN events
  BY Typed DEF BillInv, FollowsInv
<1>1. \A e \in DOMAIN events : IsLast(e)' <=> IsLast(e)
  BY DEF IsLast, SubsKept
<1>2. FreshHolder'
  <2>. SUFFICES ASSUME NEW d \in Deliveries, lock'.holder = d, Stale(d)'
                PROVE  \E e \in DOMAIN events' : events'[e].sub = Of(d)' /\ IsLast(e)' /\ Untaken(e)'
    BY DEF FreshHolder
  <2>1. Stale(d) /\ job'[d].event = job[d].event /\ lock.holder = d
    BY BillingAssumption DEF Quietly
  <2>2. Of(d)' = Of(d)
    BY <2>1, OfStays DEF Stale, Knows
  <2>3. PICK e \in DOMAIN events : events[e].sub = Of(d) /\ IsLast(e) /\ Untaken(e)
    BY <1>0, <2>1 DEF FreshHolder
  <2>4. Untaken(e)'
    BY <1>0, <2>3 DEF Untaken, StatesKept, Quietly
  <2>. QED BY <1>1, <2>2, <2>3, <2>4 DEF SubsKept
<1>3. RowFollows'
  <2>. SUFFICES ASSUME NEW s \in Subs, row'[s] # stripe'[s]
                PROVE  \E e \in DOMAIN events' : events'[e].sub = s /\ IsLast(e)' /\ events'[e].state # "done"
    BY DEF RowFollows
  <2>1. PICK e \in DOMAIN events : events[e].sub = s /\ IsLast(e) /\ events[e].state # "done"
    BY <1>0 DEF RowFollows
  <2>. QED BY <1>1, <2>1 DEF SubsKept, StatesKept
<1>4. SavedLast'
  <2>. SUFFICES ASSUME NEW d \in Deliveries, NEW e \in DOMAIN events', job'[d].event = e,
                       job'[d].pc \in {"apply", "refetch"}, IsLast(e)'
                PROVE  row'[Of(d)'] = stripe'[Of(d)']
    BY DEF SavedLast
  <2>1. job[d].pc \in {"apply", "refetch"} /\ job'[d].event = job[d].event
    BY DEF Quietly
  <2>2. Of(d)' = Of(d) /\ job[d].event \in DOMAIN events
    BY <2>1, OfStays, EventAtHand
  <2>3. IsLast(e)
    BY <1>1, <2>1, <2>2
  <2>. QED BY <1>0, <2>1, <2>2, <2>3 DEF SavedLast
<1>. QED BY <1>2, <1>3, <1>4 DEF FollowsInv, StruckStays

\* Stripe tells of a change, and who made it may know it.
LEMMA TellsOrder ==
    ASSUME BillInv, NEW s \in Subs, NEW status, stripe' = [stripe EXCEPT ![s] = status], NewEvent(s),
           \A t \in Subs \ {s} : row'[t] = row[t],
           \A t \in struck' : t \in struck \cup {s}, s \in struck' => status = "canceled",
           lock'.holder \in {lock.holder, NoHolder},
           \A d \in Deliveries :
              /\ job'[d].event \in {job[d].event, 0}
              /\ job'[d].pc \in {"apply", "refetch"} => job[d].pc \in {"apply", "refetch"} /\ job'[d].event = job[d].event
              /\ Knows(d)' => Knows(d) /\ job'[d].event = job[d].event /\ (job'[d].seen = job[d].seen \/ Of(d) = s)
    PROVE  FollowsInv'
<1>n. PICK n \in Nat : n = Len(events) + 1
  BY Typed DEF BillInv
<1>0. /\ FreshHolder /\ RowFollows /\ SavedLast /\ StruckStays
      /\ DOMAIN events = 1 .. Len(events) /\ Len(events) \in Nat /\ stripe \in [Subs -> Statuses] /\ struck \subseteq Subs
  BY Typed DEF BillInv, FollowsInv
<1>1. /\ n \in DOMAIN events' /\ events'[n].sub = s /\ events'[n].state = "new" /\ n \notin DOMAIN events
      /\ DOMAIN events' = DOMAIN events \cup {n} /\ SubsKept /\ StatesKept
  BY <1>n, <1>0 DEF NewEvent
<1>2. IsLast(n)' /\ \A d \in Deliveries : job'[d].event # n
  <2>1. \A d \in Deliveries : job[d].event \in 0 .. Len(events)
    BY Typed DEF BillInv, JobRecords
  <2>2. \A e \in DOMAIN events' : e <= n
    BY <1>n, <1>0, <1>1
  <2>. QED BY <1>n, <1>0, <1>1, <2>1, <2>2 DEF IsLast
<1>3. \A e \in DOMAIN events : IsLast(e)' => events[e].sub # s /\ IsLast(e)
  BY <1>n, <1>0, <1>1 DEF IsLast, SubsKept
<1>4. \A e \in DOMAIN events : IsLast(e) /\ events[e].sub # s => IsLast(e)'
  BY <1>0, <1>1 DEF IsLast, SubsKept
<1>5. FreshHolder'
  <2>. SUFFICES ASSUME NEW d \in Deliveries, lock'.holder = d, Stale(d)'
                PROVE  \E e \in DOMAIN events' : events'[e].sub = Of(d)' /\ IsLast(e)' /\ Untaken(e)'
    BY DEF FreshHolder
  <2>1. Knows(d) /\ job'[d].event = job[d].event /\ (job'[d].seen = job[d].seen \/ Of(d) = s) /\ lock.holder = d
    BY BillingAssumption DEF Stale
  <2>2. Of(d)' = Of(d) /\ Of(d) \in Subs
    BY <1>1, <2>1, OfStays, EventAtHand DEF Knows
  <2>3. CASE Of(d) = s
    BY <1>1, <1>2, <2>2, <2>3 DEF Untaken
  <2>4. CASE Of(d) # s
    <3>1. Stale(d)
      BY <1>0, <2>1, <2>2, <2>4 DEF Stale
    <3>2. PICK e \in DOMAIN events : events[e].sub = Of(d) /\ IsLast(e) /\ Untaken(e)
      BY <1>0, <2>1, <3>1 DEF FreshHolder
    <3>3. Untaken(e)'
      BY <1>0, <1>1, <3>2 DEF Untaken, StatesKept
    <3>. QED BY <1>1, <1>4, <2>2, <2>4, <3>2, <3>3 DEF SubsKept
  <2>. QED BY <2>3, <2>4
<1>6. RowFollows'
  <2>. SUFFICES ASSUME NEW t \in Subs, row'[t] # stripe'[t]
                PROVE  \E e \in DOMAIN events' : events'[e].sub = t /\ IsLast(e)' /\ events'[e].state # "done"
    BY DEF RowFollows
  <2>1. CASE t = s
    BY <1>1, <1>2, <2>1
  <2>2. CASE t # s
    <3>1. PICK e \in DOMAIN events : events[e].sub = t /\ IsLast(e) /\ events[e].state # "done"
      BY <1>0, <2>2 DEF RowFollows
    <3>. QED BY <1>1, <1>4, <2>2, <3>1 DEF SubsKept, StatesKept
  <2>. QED BY <2>1, <2>2
<1>7. SavedLast'
  <2>. SUFFICES ASSUME NEW d \in Deliveries, NEW e \in DOMAIN events', job'[d].event = e,
                       job'[d].pc \in {"apply", "refetch"}, IsLast(e)'
                PROVE  row'[Of(d)'] = stripe'[Of(d)']
    BY DEF SavedLast
  <2>1. job[d].pc \in {"apply", "refetch"} /\ job'[d].event = job[d].event
    OBVIOUS
  <2>2. Of(d)' = Of(d) /\ job[d].event \in DOMAIN events /\ Of(d) \in Subs
    BY <1>1, <2>1, OfStays, EventAtHand
  <2>3. Of(d) # s /\ IsLast(e)
    BY <1>3, <2>1, <2>2 DEF Of
  <2>4. row[Of(d)] = stripe[Of(d)]
    BY <1>0, <2>1, <2>2, <2>3 DEF SavedLast
  <2>. QED BY <1>0, <2>2, <2>3, <2>4
<1>8. StruckStays'
  BY <1>0 DEF StruckStays
<1>. QED BY <1>5, <1>6, <1>7, <1>8 DEF FollowsInv

\* An event is taken with the lock: nobody else may save now.
LEMMA TakesOrder ==
    ASSUME BillInv, NEW d \in Deliveries, NEW e \in DOMAIN events, events[e].state = "new", Marks(e, "taken"),
           UNCHANGED <<stripe, row, struck>>, lock'.holder = d, job'[d].pc = "fetch",
           \A c \in Deliveries : c # d => job'[c] = job[c]
    PROVE  FollowsInv'
<1>0. RowFollows /\ SavedLast /\ StruckStays /\ events \in Seq(EventRecords)
  BY Typed DEF BillInv, FollowsInv
<1>1. /\ SubsKept /\ DOMAIN events' = DOMAIN events /\ events'[e].state = "taken"
      /\ \A f \in DOMAIN events : f # e => events'[f] = events[f]
  BY <1>0, Marking
<1>2. \A f \in DOMAIN events : IsLast(f)' <=> IsLast(f)
  BY <1>1 DEF IsLast, SubsKept
<1>3. FreshHolder'
  BY DEF FreshHolder, Stale, Knows
<1>4. RowFollows'
  <2>. SUFFICES ASSUME NEW s \in Subs, row'[s] # stripe'[s]
                PROVE  \E f \in DOMAIN events' : events'[f].sub = s /\ IsLast(f)' /\ events'[f].state # "done"
    BY DEF RowFollows
  <2>1. PICK f \in DOMAIN events : events[f].sub = s /\ IsLast(f) /\ events[f].state # "done"
    BY <1>0 DEF RowFollows
  <2>. QED BY <1>1, <1>2, <2>1 DEF SubsKept
<1>5. SavedLast'
  <2>. SUFFICES ASSUME NEW c \in Deliveries, NEW f \in DOMAIN events', job'[c].event = f,
                       job'[c].pc \in {"apply", "refetch"}, IsLast(f)'
                PROVE  row'[Of(c)'] = stripe'[Of(c)']
    BY DEF SavedLast
  <2>1. c # d /\ job'[c] = job[c]
    OBVIOUS
  <2>2. Of(c)' = Of(c) /\ job[c].event \in DOMAIN events
    BY <1>1, <2>1, OfStays, EventAtHand
  <2>. QED BY <1>0, <1>2, <2>1, <2>2 DEF SavedLast
<1>. QED BY <1>0, <1>3, <1>4, <1>5 DEF FollowsInv, StruckStays

\* The last event of a subscription is one.
LEMMA OneLast ==
    ASSUME BillInv, NEW e \in DOMAIN events, NEW f \in DOMAIN events,
           events[e].sub = events[f].sub, IsLast(e), IsLast(f)
    PROVE  e = f
<1>1. e <= f /\ f <= e /\ e \in Nat /\ f \in Nat
  BY Typed DEF IsLast, BillInv
<1>. QED BY <1>1

\* The lock's holder knows the last word, if anyone has its event.
LEMMA HolderIsFresh ==
    ASSUME BillInv, NEW h \in Deliveries, lock.holder = h, Knows(h),
           NEW d \in Deliveries, job[d].pc # "idle", Of(d) = Of(h), NEW f \in DOMAIN events, job[d].event = f, IsLast(f)
    PROVE  job[h].seen = stripe[Of(h)]
<1>. SUFFICES ASSUME Stale(h) PROVE FALSE
  BY DEF Stale
<1>1. PICK e \in DOMAIN events : events[e].sub = Of(h) /\ IsLast(e) /\ Untaken(e)
  BY DEF BillInv, FollowsInv, FreshHolder
<1>2. events[f].sub = Of(h)
  BY DEF Of
<1>. QED BY <1>1, <1>2, OneLast DEF Untaken

\* Only the lock's holder saves what it knows.
LEMMA SavesOrder ==
    ASSUME BillInv, NEW d \in Deliveries, job[d].pc = "save", lock.holder = d,
           row' = [row EXCEPT ![Of(d)] = job[d].seen], UNCHANGED <<stripe, events, struck, lock>>,
           job' \in [Deliveries -> JobRecords], job'[d].event = job[d].event, job'[d].seen = job[d].seen,
           job'[d].pc = "apply", \A c \in Deliveries : c # d => job'[c] = job[c]
    PROVE  FollowsInv'
<1>0. FreshHolder /\ RowFollows /\ SavedLast /\ StruckStays /\ row \in [Subs -> Statuses] /\ Knows(d) /\ Of(d) \in Subs
  BY Typed, EventAtHand DEF BillInv, FollowsInv, Knows
<1>1. \A c \in Deliveries : job'[c].event = job[c].event /\ Of(c)' = Of(c) /\ job'[c].seen = job[c].seen /\ (Knows(c)' <=> Knows(c))
  BY DEF Of, Knows
<1>2. \A e \in DOMAIN events : (IsLast(e)' <=> IsLast(e)) /\ (Untaken(e)' <=> Untaken(e))
  BY <1>1 DEF IsLast, Untaken
<1>3. FreshHolder'
  <2>. SUFFICES ASSUME NEW c \in Deliveries, lock'.holder = c, Stale(c)'
                PROVE  \E e \in DOMAIN events' : events'[e].sub = Of(c)' /\ IsLast(e)' /\ Untaken(e)'
    BY DEF FreshHolder
  <2>1. Stale(c) /\ lock.holder = c
    BY <1>1 DEF Stale
  <2>2. PICK e \in DOMAIN events : events[e].sub = Of(c) /\ IsLast(e) /\ Untaken(e)
    BY <1>0, <2>1 DEF FreshHolder
  <2>. QED BY <1>1, <1>2, <2>2
<1>4. RowFollows'
  <2>. SUFFICES ASSUME NEW s \in Subs, row'[s] # stripe'[s]
                PROVE  \E e \in DOMAIN events' : events'[e].sub = s /\ IsLast(e)' /\ events'[e].state # "done"
    BY DEF RowFollows
  <2>1. CASE s = Of(d)
    <3>1. Stale(d)
      BY <1>0, <2>1 DEF Stale
    <3>2. PICK e \in DOMAIN events : events[e].sub = s /\ IsLast(e) /\ Untaken(e)
      BY <1>0, <2>1, <3>1 DEF FreshHolder
    <3>. QED BY <1>2, <3>2 DEF Untaken
  <2>2. CASE s # Of(d)
    <3>1. PICK e \in DOMAIN events : events[e].sub = s /\ IsLast(e) /\ events[e].state # "done"
      BY <1>0, <2>2 DEF RowFollows
    <3>. QED BY <1>2, <3>1
  <2>. QED BY <2>1, <2>2
<1>5. SavedLast'
  <2>. SUFFICES ASSUME NEW c \in Deliveries, NEW e \in DOMAIN events', job'[c].event = e,
                       job'[c].pc \in {"apply", "refetch"}, IsLast(e)'
                PROVE  row'[Of(c)'] = stripe'[Of(c)']
    BY DEF SavedLast
  <2>1. job[c].pc # "idle" /\ Of(c)' = Of(c) /\ job[c].event \in DOMAIN events
    BY <1>1, EventAtHand
  <2>2. IsLast(e)
    BY <1>1, <1>2, <2>1
  <2>3. CASE Of(c) = Of(d)
    BY <1>0, <2>1, <2>2, <2>3, HolderIsFresh
  <2>4. CASE Of(c) # Of(d)
    <3>1. job[c].pc \in {"apply", "refetch"}
      BY <2>4
    <3>. QED BY <1>0, <2>1, <2>2, <2>4, <3>1 DEF SavedLast
  <2>. QED BY <2>3, <2>4
<1>. QED BY <1>0, <1>3, <1>4, <1>5 DEF FollowsInv, StruckStays

\* An event is processed once what it told of is saved.
LEMMA DoneOrder ==
    ASSUME BillInv, NEW d \in Deliveries, job[d].pc = "refetch", Marks(job[d].event, "done"), Ends(d),
           UNCHANGED <<stripe, row, struck>>
    PROVE  FollowsInv'
<1>. DEFINE g == job[d].event
<1>0. FreshHolder /\ RowFollows /\ SavedLast /\ StruckStays /\ events \in Seq(EventRecords) /\ g \in DOMAIN events
      /\ job \in [Deliveries -> JobRecords] /\ 0 \notin DOMAIN events
  BY Typed, EventAtHand DEF BillInv, FollowsInv
<1>1. /\ SubsKept /\ DOMAIN events' = DOMAIN events
      /\ \A f \in DOMAIN events : f # g => events'[f] = events[f]
  BY <1>0, Marking
<1>2. /\ \A c \in Deliveries : c # d => job'[c] = job[c]
      /\ job'[d] = Idle /\ lock'.holder \in {lock.holder, NoHolder} /\ lock'.holder # d
  BY <1>0, BillingAssumption DEF Ends, Released
<1>3. \A f \in DOMAIN events : IsLast(f)' <=> IsLast(f)
  BY <1>1 DEF IsLast, SubsKept
<1>4. FreshHolder'
  <2>. SUFFICES ASSUME NEW c \in Deliveries, lock'.holder = c, Stale(c)'
                PROVE  \E e \in DOMAIN events' : events'[e].sub = Of(c)' /\ IsLast(e)' /\ Untaken(e)'
    BY DEF FreshHolder
  <2>1. c # d /\ lock.holder = c /\ job'[c] = job[c]
    BY <1>2, BillingAssumption
  <2>2. Knows(c) /\ Of(c)' = Of(c)
    BY <1>1, <2>1, OfStays DEF Stale, Knows
  <2>3. Stale(c)
    BY <2>1, <2>2 DEF Stale
  <2>4. PICK e \in DOMAIN events : events[e].sub = Of(c) /\ IsLast(e) /\ Untaken(e)
    BY <1>0, <2>1, <2>3 DEF FreshHolder
  <2>5. e # g /\ Untaken(e)'
    BY <1>0, <1>1, <1>2, <2>4 DEF Untaken, Idle
  <2>. QED BY <1>1, <1>3, <2>2, <2>4, <2>5
<1>5. RowFollows'
  <2>. SUFFICES ASSUME NEW s \in Subs, row'[s] # stripe'[s]
                PROVE  \E e \in DOMAIN events' : events'[e].sub = s /\ IsLast(e)' /\ events'[e].state # "done"
    BY DEF RowFollows
  <2>1. PICK e \in DOMAIN events : events[e].sub = s /\ IsLast(e) /\ events[e].state # "done"
    BY <1>0 DEF RowFollows
  <2>2. e # g
    BY <1>0, <2>1 DEF SavedLast, Of
  <2>. QED BY <1>1, <1>3, <2>1, <2>2
<1>6. SavedLast'
  <2>. SUFFICES ASSUME NEW c \in Deliveries, NEW e \in DOMAIN events', job'[c].event = e,
                       job'[c].pc \in {"apply", "refetch"}, IsLast(e)'
                PROVE  row'[Of(c)'] = stripe'[Of(c)']
    BY DEF SavedLast
  <2>1. c # d /\ job'[c] = job[c]
    BY <1>2 DEF Idle
  <2>2. Of(c)' = Of(c) /\ job[c].event \in DOMAIN events
    BY <1>1, <2>1, OfStays, EventAtHand
  <2>. QED BY <1>0, <1>3, <2>1, <2>2 DEF SavedLast
<1>. QED BY <1>0, <1>4, <1>5, <1>6 DEF FollowsInv, StruckStays

-----------------------------------------------------------------------------
(* The other parts of the invariant.                                        *)

LEMMA StandingKept ==
    ASSUME BillInv, Wrong' => Wrong, SubsKept,
           \A e \in DOMAIN events : events[e].state # "done" => events'[e].state # "done",
           \A d \in Deliveries : job'[d].pc = "refetch" => job[d].pc = "refetch" /\ job'[d].event = job[d].event
    PROVE  StandingInv'
<1>. SUFFICES ASSUME Wrong' PROVE \E e \in DOMAIN events' : Left(e)'
  BY DEF StandingInv
<1>1. PICK e \in DOMAIN events : Left(e)
  BY DEF BillInv, StandingInv
<1>. QED BY <1>1 DEF Left, SubsKept

LEMMA WrongKept ==
    ASSUME UNCHANGED row, standing' \in {standing, "gone"} \/ standing = "trial"
    PROVE  Wrong' => Wrong
<1>1. StandingFor' = StandingFor /\ StandingFor # "trial"
  BY DEF StandingFor
<1>. QED BY <1>1 DEF Wrong

LEMMA OneKept ==
    ASSUME BillInv, SubsKept, \A s \in Subs : row'[s] = row[s] \/ row'[s] = "canceled",
           lock'.holder \in {lock.holder, NoHolder},
           \A d \in Deliveries : job'[d].pc = "save" /\ Paid(job'[d].seen) =>
              /\ job'[d].event = job[d].event /\ job'[d].seen = job[d].seen
              /\ job[d].pc = "save" \/ (job[d].pc = "judge" /\ ~Second(d))
    PROVE  OneInv'
<1>1. OneInv /\ ~Paid("canceled")
  BY DEF BillInv, Paid, PaidStates
<1>2. \A s \in Subs : Paid(row'[s]) => Paid(row[s])
  BY <1>1
<1>3. ASSUME NEW d \in Deliveries PROVE JudgedAlone(d)'
  <2>. SUFFICES ASSUME lock'.holder = d, job'[d].pc = "save", Paid(job'[d].seen)
                PROVE  \A t \in Subs \ {Of(d)'} : ~Paid(row'[t])
    BY DEF JudgedAlone, Paid
  <2>1. /\ lock.holder = d /\ job'[d].event = job[d].event /\ Paid(job[d].seen)
        /\ job[d].pc = "save" \/ (job[d].pc = "judge" /\ ~Second(d))
    BY BillingAssumption
  <2>2. Of(d)' = Of(d)
    BY <2>1, OfStays
  <2>3. \A t \in Subs \ {Of(d)} : ~Paid(row[t])
    BY <1>1, <2>1 DEF OneInv, JudgedAlone, Second, CountsAsPaid
  <2>. QED BY <1>2, <2>2, <2>3
<1>. QED BY <1>1, <1>2, <1>3 DEF OneInv, Paid

LEMMA RefundKept ==
    ASSUME BillInv, SubsKept, struck' = struck, repaid \subseteq repaid',
           trouble'.faults = 0 => trouble.faults = 0,
           \A d \in Deliveries : job[d].pc = "refund" /\ trouble'.faults = 0 =>
              (job'[d].pc = "refund" /\ job'[d].event = job[d].event) \/ Of(d) \in repaid'
    PROVE  RefundInv'
<1>. SUFFICES ASSUME trouble'.faults = 0, NEW s \in struck
              PROVE  s \in repaid' \/ \E d \in Deliveries : job'[d].pc = "refund" /\ Of(d)' = s
  BY DEF RefundInv
<1>1. s \in repaid \/ \E d \in Deliveries : job[d].pc = "refund" /\ Of(d) = s
  BY DEF BillInv, RefundInv
<1>2. ASSUME NEW d \in Deliveries, job[d].pc = "refund", Of(d) = s
      PROVE  s \in repaid' \/ (job'[d].pc = "refund" /\ Of(d)' = s)
  BY <1>2, OfStays
<1>. QED BY <1>1, <1>2

LEMMA EndKept ==
    ASSUME BillInv, UNCHANGED <<account, closer, slipped>>, \A s \in Subs : row'[s] = row[s] \/ row'[s] = "canceled",
           \A d \in Deliveries : AskedOK(d)'
    PROVE  EndInv'
<1>1. EndInv /\ ~Paid("canceled")
  BY DEF BillInv, Paid, PaidStates
<1>2. Owed' \subseteq Owed
  BY <1>1 DEF Owed, Paid
<1>. QED BY <1>1, <1>2 DEF EndInv

LEMMA BornKept ==
    ASSUME BillInv, UNCHANGED <<stripe, row>>, pages' \subseteq pages, closer'.todo \subseteq closer.todo,
           SubsKept, DOMAIN events' = DOMAIN events
    PROVE  BornInv'
BY DEF BillInv, BornInv, SubsKept

\* A step of a delivery that saves nothing and tells nothing.
LEMMA QuietStep ==
    ASSUME BillInv, BillTypeOK', NEW d \in Deliveries, \A c \in Deliveries : c # d => job'[c] = job[c],
           UNCHANGED <<stripe, row, pages, account, closer, slipped, struck>>, repaid \subseteq repaid',
           SubsKept, DOMAIN events' = DOMAIN events, StatesKept, lock'.holder \in {lock.holder, NoHolder},
           Quietly(d), (job'[d].pc = "idle") <=> (job'[d].event = 0),
           StandingInv', AskedOK(d)',
           job'[d].pc = "save" /\ Paid(job'[d].seen) =>
              /\ job'[d].event = job[d].event /\ job'[d].seen = job[d].seen
              /\ job[d].pc = "save" \/ (job[d].pc = "judge" /\ ~Second(d)),
           trouble'.faults = 0 => trouble.faults = 0,
           job[d].pc = "refund" /\ trouble'.faults = 0 =>
              (job'[d].pc = "refund" /\ job'[d].event = job[d].event) \/ Of(d) \in repaid'
    PROVE  BillInv'
<1>1. \A c \in Deliveries : Quietly(c)
  <2>. SUFFICES ASSUME NEW c \in Deliveries, c # d PROVE Quietly(c)
    OBVIOUS
  <2>1. job'[c] = job[c]
    OBVIOUS
  <2>2. Stale(c)' => Stale(c)
    BY <2>1, OfStays DEF Stale, Knows
  <2>. QED BY <2>1, <2>2 DEF Quietly
<1>2. FollowsInv'
  BY <1>1, QuietOrder DEF BillInv, FollowsInv, StruckStays
<1>3. OneInv'
  BY OneKept
<1>4. RefundInv'
  BY RefundKept
<1>5. EndInv'
  <2>1. \A c \in Deliveries : c # d => AskedOK(c)'
    BY DEF BillInv, EndInv, AskedOK, Paid
  <2>. QED BY <2>1, EndKept
<1>6. BornInv'
  BY BornKept
<1>7. EventHeld'
  BY DEF EventHeld, BillInv
<1>. QED BY <1>2, <1>3, <1>4, <1>5, <1>6, <1>7 DEF BillInv

\* A step of none of them.
LEMMA WorldStep ==
    ASSUME BillInv, BillTypeOK', BornInv', EndInv', UNCHANGED <<stripe, row, job, struck, repaid>>,
           SubsKept, DOMAIN events' = DOMAIN events, StatesKept, lock'.holder \in {lock.holder, NoHolder},
           standing' \in {standing, "gone"} \/ standing = "trial", trouble'.faults = 0 => trouble.faults = 0
    PROVE  BillInv'
<1>1. \A d \in Deliveries : Stale(d)' => Stale(d)
  BY OfStays DEF Stale, Knows
<1>2. FollowsInv'
  BY <1>1, QuietOrder DEF Quietly, BillInv, FollowsInv, StruckStays
<1>3. StandingInv'
  BY WrongKept, StandingKept DEF StatesKept
<1>4. OneInv'
  BY OneKept
<1>5. RefundInv'
  BY RefundKept
<1>6. EventHeld'
  BY DEF EventHeld, BillInv
<1>. QED BY <1>2, <1>3, <1>4, <1>5, <1>6 DEF BillInv

-----------------------------------------------------------------------------
(* Steps of the customer, of time and of the account's end that tell        *)
(* nothing.                                                                 *)

LEMMA Counting ==
    ASSUME BillInv, NEW kind \in {"turns", "faults", "late"}, Counts(kind)
    PROVE  /\ trouble' \in Troubles
           /\ kind = "faults" => trouble'.faults # 0
           /\ kind # "faults" => trouble'.faults = trouble.faults
<1>1. trouble \in Troubles
  BY Typed DEF BillInv
<1>. QED BY <1>1, BillingAssumption DEF Counts, Troubles

LEMMA JobsRest ==
    ASSUME BillInv, UNCHANGED job, Len(events') = Len(events)
    PROVE  job' \in [Deliveries -> JobRecords']
BY Typed, JobsTyped DEF BillInv

LEMMA QuietEvents ==
    ASSUME BillInv, UNCHANGED events
    PROVE  /\ SubsKept /\ StatesKept /\ DOMAIN events' = DOMAIN events /\ Len(events') = Len(events)
           /\ events' \in Seq(EventRecords)
BY Typed DEF BillInv, SubsKept, StatesKept

LEMMA FreeLock == [holder |-> NoHolder, over |-> FALSE] \in Locks /\ [holder |-> NoHolder, over |-> FALSE].holder = NoHolder
BY DEF Locks

LEMMA CheckoutStep ==
    ASSUME BillInv, NEW s \in Subs, Checkout(s)
    PROVE  BillInv'
<1>1. /\ UNCHANGED <<stripe, events, row, standing, job, account, closer, struck, repaid, slipped>>
      /\ stripe[s] = "none" /\ pages' = (pages \ {session}) \cup {s}
      /\ session' \in {s, session} /\ lock' = [holder |-> NoHolder, over |-> FALSE]
  BY DEF Checkout, theirs, history
<1>2. trouble' \in Troubles /\ (trouble'.faults = 0 => trouble.faults = 0)
  <2>1. UNCHANGED trouble \/ Counts("faults")
    BY DEF Checkout, Fault
  <2>. QED BY <2>1, Typed, Counting DEF BillInv
<1>3. BillTypeOK'
  BY <1>1, <1>2, Typed, TypedNext, QuietEvents, JobsRest, FreeLock DEF BillInv, BillTypeOK
<1>4. BornInv'
  BY <1>1 DEF BillInv, BornInv
<1>5. EndInv'
  BY <1>1 DEF BillInv, EndInv, Owed, AskedOK, Paid
<1>. QED BY <1>1, <1>2, <1>3, <1>4, <1>5, QuietEvents, FreeLock, WorldStep

LEMMA TimeSteps ==
    ASSUME BillInv,
           \/ TrialEnds \/ TenantGoes \/ LockPasses
           \/ \E e \in 1 .. Len(events) : ClaimPasses(e)
    PROVE  BillInv'
<1>1. UNCHANGED <<stripe, pages, row, session, job, account, closer, struck, repaid, slipped>>
  BY DEF TrialEnds, TenantGoes, LockPasses, ClaimPasses, atStripe, theirs, history
<1>2. trouble' \in Troubles /\ (trouble'.faults = 0 => trouble.faults = 0)
  <2>1. UNCHANGED trouble \/ Counts("late")
    BY DEF TrialEnds, TenantGoes, LockPasses, ClaimPasses, Late
  <2>. QED BY <2>1, Typed, Counting DEF BillInv
<1>3. lock' \in Locks /\ lock'.holder = lock.holder
  <2>1. UNCHANGED lock \/ lock' = [lock EXCEPT !.over = TRUE]
    BY DEF TrialEnds, TenantGoes, LockPasses, ClaimPasses
  <2>. QED BY <2>1, Typed DEF BillInv, Locks
<1>4. SubsKept /\ DOMAIN events' = DOMAIN events /\ Len(events') = Len(events) /\ StatesKept /\ events' \in Seq(EventRecords)
  <2>1. CASE UNCHANGED events
    BY <2>1, QuietEvents
  <2>2. CASE \E e \in 1 .. Len(events) : ClaimPasses(e)
    <3>1. PICK e \in DOMAIN events : Marks(e, "new") /\ events[e].state = "taken"
      BY <2>2, Typed DEF ClaimPasses, BillInv
    <3>. QED BY <3>1, Marking, Typed DEF StatesKept, BillInv
  <2>. QED BY <2>1, <2>2 DEF TrialEnds, TenantGoes, LockPasses, atStripe
<1>5. /\ standing' \in {standing, "gone"} \/ standing = "trial"
      /\ standing' \in {"trial", "active", "past_due", "suspended", "gone"}
  BY DEF TrialEnds, TenantGoes, LockPasses, ClaimPasses, BillInv, BillTypeOK
<1>6. BillTypeOK'
  BY <1>1, <1>2, <1>3, <1>4, <1>5, Typed, TypedNext, JobsRest DEF BillInv, BillTypeOK
<1>7. BornInv'
  BY <1>1, <1>4, BornKept
<1>8. EndInv'
  BY <1>1 DEF BillInv, EndInv, Owed, AskedOK, Paid
<1>. QED BY <1>1, <1>2, <1>3, <1>4, <1>5, <1>6, <1>7, <1>8, WorldStep

LEMMA AtRestTyped == AtRest \in Closers /\ AtRest.pc = "idle" /\ AtRest.todo = {}
BY DEF AtRest, Closers

LEMMA EndSteps ==
    ASSUME BillInv, RequestDeletion \/ SettleReads \/ SessionExpires \/ Settled \/ Scrub
    PROVE  BillInv'
<1>0. EndInv /\ BornInv /\ closer \in Closers /\ row \in [Subs -> Statuses] /\ lock \in Locks
  BY Typed DEF BillInv
<1>1. /\ UNCHANGED <<stripe, events, row, standing, job, struck, repaid, slipped, trouble>>
      /\ pages' \subseteq pages /\ session' \in {session, NoSub}
      /\ lock' \in Locks /\ lock'.holder \in {lock.holder, NoHolder}
  BY <1>0, FreeLock DEF RequestDeletion, SettleReads, SessionExpires, Settled, Scrub, atStripe, history
<1>2. ASSUME closer' \in Closers, account' \in {"open", "closing", "scrubbed"},
             \A s \in closer'.todo : stripe[s] # "none",
             closer'.pc # "idle" => account' = "closing",
             closer'.pc \in {"session", "settle"} /\ closer'.settled => Owed \subseteq closer'.todo,
             closer'.pc = "scrub" \/ account' = "scrubbed" => Owed = {}
      PROVE  BillInv'
  <2>1. BillTypeOK'
    BY <1>1, <1>2, Typed, TypedNext, QuietEvents, JobsRest DEF BillInv, BillTypeOK
  <2>2. BornInv'
    BY <1>0, <1>1, <1>2 DEF BornInv
  <2>3. EndInv'
    BY <1>0, <1>1, <1>2 DEF EndInv, Owed, AskedOK, Paid
  <2>. QED BY <1>1, <2>1, <2>2, <2>3, QuietEvents, WorldStep
<1>3. CASE RequestDeletion
  BY <1>0, <1>2, <1>3 DEF RequestDeletion, EndInv, BornInv
<1>4. CASE SettleReads
  <2>1. closer' = [pc |-> "session", todo |-> {s \in Subs : row[s] \notin {"none", "canceled"}}, settled |-> TRUE]
        /\ account' = account /\ account = "closing"
    BY <1>4 DEF SettleReads
  <2>2. closer' \in Closers /\ closer'.pc = "session" /\ closer'.todo = {s \in Subs : row[s] \notin {"none", "canceled"}}
    BY <2>1 DEF Closers
  <2>3. Owed \subseteq closer'.todo
    BY <2>2 DEF Owed, Paid, PaidStates
  <2>4. \A s \in closer'.todo : stripe[s] # "none"
    BY <1>0, <2>2 DEF BornInv
  <2>. QED BY <1>2, <2>1, <2>2, <2>3, <2>4
<1>5. CASE SessionExpires
  <2>1. closer' = [closer EXCEPT !.pc = "settle"] /\ account' = account /\ closer.pc = "session"
    BY <1>5 DEF SessionExpires
  <2>2. closer' \in Closers /\ closer'.pc = "settle" /\ closer'.todo = closer.todo /\ closer'.settled = closer.settled
    BY <1>0, <2>1 DEF Closers
  <2>. QED BY <1>0, <1>2, <2>1, <2>2 DEF EndInv, BornInv, BillInv, BillTypeOK
<1>6. CASE Settled
  <2>1. closer.pc = "settle" /\ closer.todo = {} /\ account' = account
    BY <1>6 DEF Settled
  <2>2. CASE closer' = AtRest
    BY <1>0, <1>2, <2>1, <2>2, AtRestTyped DEF EndInv, BillInv, BillTypeOK
  <2>3. CASE closer' = [closer EXCEPT !.pc = "scrub"] /\ closer.settled
    <3>1. closer' \in Closers /\ closer'.pc = "scrub" /\ closer'.todo = {}
      BY <1>0, <2>1, <2>3 DEF Closers
    <3>2. Owed = {}
      BY <1>0, <2>1, <2>3 DEF EndInv
    <3>. QED BY <1>0, <1>2, <2>1, <3>1, <3>2 DEF EndInv, BillInv, BillTypeOK
  <2>. QED BY <1>6, <2>2, <2>3 DEF Settled
<1>7. CASE Scrub
  <2>1. closer.pc = "scrub" /\ closer' = AtRest /\ account' = "scrubbed"
    BY <1>7 DEF Scrub
  <2>. QED BY <1>0, <1>2, <2>1, AtRestTyped DEF EndInv
<1>. QED BY <1>3, <1>4, <1>5, <1>6, <1>7

-----------------------------------------------------------------------------
(* Steps of a delivery that save and tell nothing.                          *)

LEMMA IdleTyped == BillInv => Idle \in JobRecords /\ Idle.pc = "idle" /\ Idle.event = 0
BY BillingAssumption, Typed DEF BillInv, Idle, JobRecords, Statuses

LEMMA Ending ==
    ASSUME BillInv, NEW d \in Deliveries, Ends(d)
    PROVE  /\ job' \in [Deliveries -> JobRecords] /\ job'[d] = Idle
           /\ \A c \in Deliveries : c # d => job'[c] = job[c]
           /\ lock' \in Locks /\ lock'.holder \in {lock.holder, NoHolder}
<1>1. job' = [job EXCEPT ![d] = Idle] /\ job \in [Deliveries -> JobRecords] /\ Idle \in JobRecords
  BY Typed, IdleTyped DEF Ends, BillInv
<1>2. lock' \in Locks /\ lock'.holder \in {lock.holder, NoHolder}
  BY Typed, FreeLock DEF Ends, Released, BillInv
<1>. QED BY <1>1, <1>2

LEMMA StopStep ==
    ASSUME BillInv, NEW d \in Deliveries, job[d].pc # "idle",
           job' \in [Deliveries -> JobRecords], job'[d] = Idle, \A c \in Deliveries : c # d => job'[c] = job[c],
           lock' \in Locks, lock'.holder \in {lock.holder, NoHolder},
           UNCHANGED events \/ events' = Reopened(d, events),
           UNCHANGED <<stripe, pages, row, standing, session, account, closer, struck, repaid, slipped>>,
           Counts("faults") \/ (UNCHANGED trouble /\ job[d].pc # "refund")
    PROVE  BillInv'
<1>1. SubsKept /\ DOMAIN events' = DOMAIN events /\ Len(events') = Len(events) /\ StatesKept /\ events' \in Seq(EventRecords)
  BY QuietEvents, Losing
<1>2. /\ trouble' \in Troubles /\ (trouble'.faults = 0 => trouble.faults = 0)
      /\ (job[d].pc = "refund" => trouble'.faults # 0)
  BY Typed, Counting DEF BillInv
<1>a. Len(events) \in Nat /\ job' \in [Deliveries -> JobRecords']
  BY <1>1, Typed, JobsTyped DEF BillInv
<1>3. BillTypeOK'
  BY <1>1, <1>2, <1>a, Typed, TypedNext DEF BillInv, BillTypeOK
<1>4. job'[d].pc = "idle" /\ job'[d].event = 0
  BY IdleTyped
<1>5. Quietly(d) /\ AskedOK(d)'
  BY <1>4 DEF Quietly, Stale, Knows, AskedOK
<1>6. StandingInv'
  BY <1>1, <1>4, WrongKept, StandingKept DEF StatesKept
<1>. QED BY <1>1, <1>2, <1>3, <1>4, <1>5, <1>6, QuietStep

LEMMA LoseStep ==
    ASSUME BillInv, NEW d \in Deliveries, job[d].pc \notin {"idle", "refund"}, Loses(d),
           UNCHANGED <<stripe, pages, row, standing, session, account, closer, struck, repaid, slipped, trouble>>
    PROVE  BillInv'
BY Ending, StopStep DEF Loses

LEMMA DiesStep ==
    ASSUME BillInv, NEW d \in Deliveries, DeliveryDies(d)
    PROVE  BillInv'
<1>1. /\ job[d].pc # "idle" /\ job' = [job EXCEPT ![d] = Idle] /\ Counts("faults")
      /\ UNCHANGED <<stripe, events, pages, row, standing, session, lock, account, closer, struck, repaid, slipped>>
  BY DEF DeliveryDies, JobAt, Fault, atStripe, theirs, history
<1>2. job' \in [Deliveries -> JobRecords] /\ job'[d] = Idle /\ \A c \in Deliveries : c # d => job'[c] = job[c]
  BY <1>1, Typed, IdleTyped DEF BillInv
<1>3. lock' \in Locks /\ lock'.holder \in {lock.holder, NoHolder}
  BY <1>1, Typed DEF BillInv
<1>. QED BY <1>1, <1>2, <1>3, StopStep

LEMMA AlongStep ==
    ASSUME BillInv, NEW d \in Deliveries, job[d].pc # "idle",
           UNCHANGED <<stripe, events, pages, row, session, lock, account, closer, struck, slipped, trouble>>,
           repaid \subseteq repaid', repaid' \subseteq Subs,
           standing' \in {"trial", "active", "past_due", "suspended", "gone"}, StandingInv',
           job' \in [Deliveries -> JobRecords], \A c \in Deliveries : c # d => job'[c] = job[c],
           job'[d].pc # "idle", job'[d].event = job[d].event,
           job'[d].pc \in {"apply", "refetch"} => job[d].pc \in {"apply", "refetch"},
           (Knows(d) /\ job'[d].seen = job[d].seen) \/ job'[d].seen = stripe[Of(d)],
           job'[d].pc = "refund" \/ (job'[d].pc = "save" /\ job'[d].asked) => ~Paid(job'[d].seen),
           job'[d].pc = "save" /\ Paid(job'[d].seen) =>
              job'[d].seen = job[d].seen /\ (job[d].pc = "save" \/ (job[d].pc = "judge" /\ ~Second(d))),
           job[d].pc = "refund" => Of(d) \in repaid'
    PROVE  BillInv'
<1>0. Len(events) \in Nat /\ job' \in [Deliveries -> JobRecords'] /\ events' \in Seq(EventRecords)
  BY Typed, QuietEvents, JobsTyped DEF BillInv
<1>1. BillTypeOK'
  BY <1>0, Typed, TypedNext DEF BillInv, BillTypeOK
<1>2. Of(d)' = Of(d)
  BY QuietEvents, OfStays
<1>3. Quietly(d) /\ AskedOK(d)'
  BY <1>2 DEF Quietly, Stale, Knows, AskedOK, Paid
<1>4. (job'[d].pc = "idle") <=> (job'[d].event = 0)
  BY DEF BillInv, EventHeld
<1>. QED BY <1>1, <1>3, <1>4, QuietEvents, QuietStep

\* It goes on without changing the tenant.
LEMMA AlongStands ==
    ASSUME BillInv, NEW d \in Deliveries, UNCHANGED <<events, row, standing>>,
           \A c \in Deliveries : c # d => job'[c] = job[c], job'[d].pc # "refetch"
    PROVE  StandingInv' /\ standing' \in {"trial", "active", "past_due", "suspended", "gone"}
<1>1. StandingInv'
  BY QuietEvents, WrongKept, StandingKept DEF StatesKept
<1>. QED BY <1>1 DEF BillInv, BillTypeOK

LEMMA FetchStep ==
    ASSUME BillInv, NEW d \in Deliveries, Fetch(d)
    PROVE  BillInv'
<1>0. /\ job \in [Deliveries -> JobRecords] /\ job[d].pc = "fetch" /\ stripe[Of(d)] \in Statuses /\ 1 \in 0 .. MaxRounds
      /\ repaid \subseteq Subs
  BY Typed, EventAtHand, BillingAssumption DEF Fetch, JobAt, BillInv
<1>1. /\ job' \in [Deliveries -> JobRecords] /\ \A c \in Deliveries : c # d => job'[c] = job[c]
      /\ job'[d].pc = "judge" /\ job'[d].event = job[d].event /\ job'[d].seen = stripe[Of(d)]
  BY <1>0 DEF Fetch, JobRecords, Within
<1>2. UNCHANGED <<stripe, events, pages, row, standing, session, lock, account, closer, struck, repaid, slipped, trouble>>
  BY DEF Fetch, atStripe, theirs, history
<1>. QED BY <1>0, <1>1, <1>2, AlongStands, AlongStep

LEMMA JudgeStep ==
    ASSUME BillInv, NEW d \in Deliveries, Judge(d)
    PROVE  BillInv'
<1>0. job \in [Deliveries -> JobRecords] /\ job[d].pc = "judge" /\ repaid \subseteq Subs
  BY Typed DEF Judge, JobAt, BillInv
<1>1. /\ job' \in [Deliveries -> JobRecords] /\ \A c \in Deliveries : c # d => job'[c] = job[c]
      /\ job'[d].pc = IF Paid(job[d].seen) /\ (Closing \/ Second(d)) THEN "cancel" ELSE "save"
      /\ job'[d].event = job[d].event /\ job'[d].seen = job[d].seen /\ job'[d].asked = Closing
  BY <1>0 DEF Judge, JobRecords, Within, Closing
<1>2. UNCHANGED <<stripe, events, pages, row, standing, session, lock, account, closer, struck, repaid, slipped, trouble>>
  BY DEF Judge, atStripe, theirs, history
<1>3. Knows(d) /\ (job'[d].pc = "save" /\ Paid(job'[d].seen) => ~Second(d) /\ ~job'[d].asked)
  BY <1>0, <1>1 DEF Knows
<1>. QED BY <1>0, <1>1, <1>2, <1>3, AlongStands, AlongStep

LEMMA RefundStep ==
    ASSUME BillInv, NEW d \in Deliveries, Refund(d)
    PROVE  BillInv'
<1>0. /\ job \in [Deliveries -> JobRecords] /\ job[d].pc = "refund" /\ repaid \subseteq Subs /\ Of(d) \in Subs
      /\ ~Paid(job[d].seen)
  BY Typed, EventAtHand DEF Refund, JobAt, BillInv, EndInv, AskedOK
<1>1. /\ job' \in [Deliveries -> JobRecords] /\ \A c \in Deliveries : c # d => job'[c] = job[c]
      /\ job'[d].pc = "save" /\ job'[d].event = job[d].event /\ job'[d].seen = job[d].seen
  BY <1>0 DEF Refund, JobGoes, JobRecords, Within
<1>2. /\ UNCHANGED <<stripe, events, pages, row, standing, session, lock, account, closer, struck, slipped, trouble>>
      /\ repaid' = repaid \cup {Of(d)}
  BY DEF Refund, Refunds, atStripe, theirs
<1>3. Knows(d)
  BY <1>0 DEF Knows
<1>. QED BY <1>0, <1>1, <1>2, <1>3, AlongStands, AlongStep

LEMMA ApplyStep ==
    ASSUME BillInv, NEW d \in Deliveries, Apply(d)
    PROVE  BillInv'
<1>0. job \in [Deliveries -> JobRecords] /\ job[d].pc = "apply" /\ Knows(d) /\ repaid \subseteq Subs
  BY Typed DEF Apply, JobAt, BillInv, Knows
<1>1. UNCHANGED <<stripe, pages, row, session, account, closer, struck, repaid, slipped, trouble>>
  BY DEF Apply, theirs, history
<1>2. CASE Loses(d) /\ UNCHANGED standing
  BY <1>0, <1>1, <1>2, LoseStep
<1>3. CASE JobGoes(d, "refetch") /\ UNCHANGED <<events, lock>> /\ standing' \in {"gone", StandingFor}
  <2>1. /\ job' \in [Deliveries -> JobRecords] /\ \A c \in Deliveries : c # d => job'[c] = job[c]
        /\ job'[d].pc = "refetch" /\ job'[d].event = job[d].event /\ job'[d].seen = job[d].seen
    BY <1>0, <1>3 DEF JobGoes, JobRecords, Within
  <2>2. StandingFor' = StandingFor /\ StandingFor \in {"active", "past_due", "suspended"}
    BY <1>1 DEF StandingFor
  <2>3. StandingInv'
    BY <1>3, <2>2 DEF StandingInv, Wrong
  <2>. QED BY <1>0, <1>1, <1>3, <2>1, <2>2, <2>3, AlongStep
<1>. QED BY <1>2, <1>3 DEF Apply

LEMMA RefusedStep ==
    ASSUME BillInv, NEW d \in Deliveries, Refused(d)
    PROVE  BillInv'
<1>1. /\ job[d].pc = "cancel" /\ Loses(d)
      /\ UNCHANGED <<stripe, pages, row, standing, session, account, closer, struck, repaid, slipped, trouble>>
  BY DEF Refused, JobAt, theirs, history
<1>. QED BY <1>1, LoseStep

-----------------------------------------------------------------------------
(* Steps of a delivery that take, save and finish.                          *)

LEMMA TakeEventStep ==
    ASSUME BillInv, NEW d \in Deliveries, NEW e \in 1 .. Len(events), TakeEvent(d, e)
    PROVE  BillInv'
<1>0. /\ events \in Seq(EventRecords) /\ e \in DOMAIN events /\ e # 0 /\ job \in [Deliveries -> JobRecords]
      /\ Idle \in JobRecords /\ job[d].pc = "idle" /\ events[e].state = "new" /\ Marks(e, "taken")
      /\ lock' = [holder |-> d, over |-> FALSE]
      /\ UNCHANGED <<stripe, pages, row, standing, session, account, closer, struck, repaid, slipped, trouble>>
  BY Typed, IdleTyped DEF TakeEvent, JobAt, BillInv, theirs, history
<1>1. /\ events' \in Seq(EventRecords) /\ DOMAIN events' = DOMAIN events /\ Len(events') = Len(events) /\ SubsKept
      /\ \A f \in DOMAIN events : events[f].state # "done" => events'[f].state # "done"
  BY <1>0, Marking
<1>2. /\ job' \in [Deliveries -> JobRecords] /\ \A c \in Deliveries : c # d => job'[c] = job[c]
      /\ job'[d].pc = "fetch" /\ job'[d].event = e
  <2>1. "fetch" \in Within /\ e \in 0 .. Len(events)
    BY Typed DEF BillInv, Within
  <2>2. /\ [Idle EXCEPT !.pc = "fetch", !.event = e] \in JobRecords
        /\ [Idle EXCEPT !.pc = "fetch", !.event = e].pc = "fetch"
        /\ [Idle EXCEPT !.pc = "fetch", !.event = e].event = e
    BY <1>0, <2>1 DEF JobRecords
  <2>3. job' = [job EXCEPT ![d] = [Idle EXCEPT !.pc = "fetch", !.event = e]]
    BY DEF TakeEvent
  <2>. QED BY <1>0, <2>2, <2>3
<1>3. lock' \in Locks /\ lock'.holder = d
  BY <1>0 DEF Locks
<1>4. BillTypeOK'
  <2>1. Len(events) \in Nat /\ job' \in [Deliveries -> JobRecords']
    BY <1>1, <1>2, Typed, JobsTyped DEF BillInv
  <2>. QED BY <1>0, <1>1, <1>3, <2>1, Typed, TypedNext DEF BillInv, BillTypeOK
<1>5. EventHeld'
  BY <1>0, <1>2 DEF BillInv, EventHeld
<1>6. BornInv'
  BY <1>0, <1>1, BornKept
<1>7. FollowsInv'
  BY <1>0, <1>2, <1>3, TakesOrder
<1>8. StandingInv'
  BY <1>0, <1>1, <1>2, WrongKept, StandingKept
<1>9. OneInv'
  BY <1>0, <1>2, <1>3 DEF BillInv, OneInv, JudgedAlone, Paid
<1>10. RefundInv'
  BY <1>0, <1>1, <1>2, RefundKept
<1>11. EndInv'
  <2>1. \A c \in Deliveries : AskedOK(c)'
    BY <1>2 DEF BillInv, EndInv, AskedOK, Paid
  <2>. QED BY <1>0, <2>1, EndKept
<1>. QED BY <1>4, <1>5, <1>6, <1>7, <1>8, <1>9, <1>10, <1>11 DEF BillInv

LEMMA SaveStep ==
    ASSUME BillInv, NEW d \in Deliveries, Save(d)
    PROVE  BillInv'
<1>. DEFINE s == Of(d)
<1>0. /\ job \in [Deliveries -> JobRecords] /\ row \in [Subs -> Statuses] /\ job[d].pc = "save" /\ Of(d) \in Subs
      /\ Knows(d) /\ job[d].seen \in Statuses
      /\ UNCHANGED <<stripe, pages, standing, session, account, closer, struck, repaid, trouble>>
  BY Typed, EventAtHand DEF Save, JobAt, BillInv, Knows, JobRecords, theirs
<1>1. CASE ~Holds(d)
  BY <1>0, <1>1, LoseStep DEF Save
<1>2. CASE Holds(d)
  <2>0. /\ lock.holder = d /\ row' = [row EXCEPT ![Of(d)] = job[d].seen] /\ UNCHANGED <<events, lock>>
        /\ slipped' = IF Paid(job[d].seen) /\ account # "open" /\ ~job[d].asked THEN slipped \cup {Of(d)} ELSE slipped
        /\ JobGoes(d, "apply")
    BY <1>2 DEF Save, Holds
  <2>1. /\ job' \in [Deliveries -> JobRecords] /\ \A c \in Deliveries : c # d => job'[c] = job[c]
        /\ job'[d].pc = "apply" /\ job'[d].event = job[d].event /\ job'[d].seen = job[d].seen
    BY <1>0, <2>0 DEF JobGoes, JobRecords, Within
  <2>2. row' \in [Subs -> Statuses] /\ row'[Of(d)] = job[d].seen /\ \A t \in Subs : t # Of(d) => row'[t] = row[t]
    BY <1>0, <2>0
  <2>3. BillTypeOK'
    <3>1. slipped' \subseteq Subs
      BY <1>0, <2>0, Typed DEF BillInv
    <3>2. Len(events) \in Nat /\ job' \in [Deliveries -> JobRecords']
      BY <2>0, <2>1, Typed, JobsTyped DEF BillInv
    <3>. QED BY <1>0, <2>0, <2>2, <3>1, <3>2, Typed, TypedNext DEF BillInv, BillTypeOK
  <2>4. EventHeld'
    BY <1>0, <2>1 DEF BillInv, EventHeld
  <2>5. BornInv'
    <3>1. stripe[Of(d)] # "none"
      BY <1>0, EventAtHand DEF BillInv, BornInv, Of
    <3>. QED BY <1>0, <2>0, <2>2, <3>1 DEF BillInv, BornInv
  <2>6. FollowsInv'
    BY <1>0, <2>0, <2>1, SavesOrder
  <2>7. StandingInv'
    <3>1. CASE row'[Of(d)] = row[Of(d)]
      <4>1. row' = row
        BY <1>0, <2>0, <3>1
      <4>. QED BY <1>0, <2>0, <2>1, <4>1, AlongStands
    <3>2. CASE row'[Of(d)] # row[Of(d)]
      <4>0. FreshHolder /\ RowFollows /\ SavedLast
        BY DEF BillInv, FollowsInv
      <4>1. CASE row[Of(d)] # stripe[Of(d)]
        <5>1. PICK e \in DOMAIN events : events[e].sub = Of(d) /\ IsLast(e) /\ events[e].state # "done"
          BY <1>0, <4>0, <4>1 DEF RowFollows
        <5>2. ASSUME NEW c \in Deliveries, job[c].pc = "refetch", job[c].event = e PROVE FALSE
          BY <4>0, <4>1, <5>1, <5>2 DEF SavedLast, Of
        <5>. QED BY <2>0, <2>1, <5>1, <5>2 DEF StandingInv, Left
      <4>2. CASE row[Of(d)] = stripe[Of(d)]
        <5>1. Stale(d)
          BY <1>0, <2>2, <3>2, <4>2 DEF Stale
        <5>2. PICK e \in DOMAIN events : Untaken(e)
          BY <2>0, <4>0, <5>1 DEF FreshHolder
        <5>. QED BY <2>0, <2>1, <5>2 DEF StandingInv, Left, Untaken
      <4>. QED BY <4>1, <4>2
    <3>. QED BY <3>1, <3>2
  <2>8. OneInv'
    <3>1. Paid(job[d].seen) => \A t \in Subs \ {Of(d)} : ~Paid(row[t])
      BY <1>0, <2>0 DEF BillInv, OneInv, JudgedAlone
    <3>2. \A t, u \in Subs : Paid(row'[t]) /\ Paid(row'[u]) => t = u
      BY <2>2, <3>1 DEF BillInv, OneInv
    <3>3. \A c \in Deliveries : lock'.holder = c => job'[c].pc # "save"
      BY <2>0, <2>1
    <3>. QED BY <3>2, <3>3 DEF OneInv, JudgedAlone, Paid
  <2>9. RefundInv'
    BY <1>0, <2>0, <2>1, RefundKept, QuietEvents
  <2>10. EndInv'
    <3>0. EndInv
      BY DEF BillInv
    <3>1. \A c \in Deliveries : AskedOK(c)'
      BY <2>1, <3>0 DEF EndInv, AskedOK, Paid
    <3>2. account # "open" => Owed' \subseteq Owed
      <4>1. Paid(job[d].seen) => ~job[d].asked
        BY <1>0, <3>0 DEF EndInv, AskedOK
      <4>. QED BY <1>0, <2>0, <2>2, <4>1 DEF Owed, Paid
    <3>3. account = "open" => closer.pc = "idle"
      BY <3>0 DEF EndInv
    <3>. QED BY <1>0, <3>0, <3>1, <3>2, <3>3 DEF EndInv
  <2>. QED BY <2>3, <2>4, <2>5, <2>6, <2>7, <2>8, <2>9, <2>10 DEF BillInv
<1>. QED BY <1>1, <1>2

LEMMA RefetchStep ==
    ASSUME BillInv, NEW d \in Deliveries, Refetch(d)
    PROVE  BillInv'
<1>0. /\ job \in [Deliveries -> JobRecords] /\ job[d].pc = "refetch" /\ job[d].event \in DOMAIN events /\ Of(d) \in Subs
      /\ events \in Seq(EventRecords) /\ stripe[Of(d)] \in Statuses /\ repaid \subseteq Subs /\ Knows(d)
      /\ UNCHANGED <<stripe, pages, row, standing, account, closer, struck, repaid, slipped, trouble>>
  BY Typed, EventAtHand DEF Refetch, JobAt, BillInv, theirs, history, Knows
<1>1. CASE /\ Ends(d) /\ Marks(job[d].event, "done")
           /\ session' = IF session = Of(d) THEN NoSub ELSE session
  <2>1. /\ events' \in Seq(EventRecords) /\ DOMAIN events' = DOMAIN events /\ Len(events') = Len(events) /\ SubsKept
        /\ \A f \in DOMAIN events : f # job[d].event => events'[f] = events[f]
    BY <1>0, <1>1, Marking
  <2>2. /\ job' \in [Deliveries -> JobRecords] /\ job'[d].pc = "idle" /\ job'[d].event = 0
        /\ \A c \in Deliveries : c # d => job'[c] = job[c]
        /\ lock' \in Locks /\ lock'.holder \in {lock.holder, NoHolder}
    BY <1>1, Ending, IdleTyped
  <2>3. BillTypeOK'
    <3>1. Len(events) \in Nat /\ job' \in [Deliveries -> JobRecords']
      BY <2>1, <2>2, Typed, JobsTyped DEF BillInv
    <3>. QED BY <1>0, <1>1, <2>1, <2>2, <3>1, Typed, TypedNext DEF BillInv, BillTypeOK
  <2>4. EventHeld'
    BY <2>2 DEF BillInv, EventHeld
  <2>5. BornInv'
    BY <1>0, <2>1, BornKept
  <2>6. FollowsInv'
    BY <1>0, <1>1, DoneOrder
  <2>7. StandingInv'
    <3>. SUFFICES ASSUME Wrong' PROVE \E e \in DOMAIN events' : Left(e)'
      BY DEF StandingInv
    <3>1. Wrong
      BY <1>0, WrongKept
    <3>2. PICK e \in DOMAIN events : Left(e)
      BY <3>1 DEF BillInv, StandingInv
    <3>3. e # job[d].event
      BY <1>0, <3>2 DEF Left
    <3>. QED BY <2>1, <2>2, <3>2, <3>3 DEF Left
  <2>8. OneInv'
    <3>1. \A c \in Deliveries : job'[c].pc = "save" => job'[c] = job[c]
      BY <2>2
    <3>. QED BY <1>0, <2>1, <2>2, <3>1, OneKept
  <2>9. RefundInv'
    BY <1>0, <2>1, <2>2, RefundKept
  <2>10. EndInv'
    <3>1. \A c \in Deliveries : AskedOK(c)'
      BY <2>2 DEF BillInv, EndInv, AskedOK, Paid
    <3>. QED BY <1>0, <3>1, EndKept
  <2>. QED BY <2>3, <2>4, <2>5, <2>6, <2>7, <2>8, <2>9, <2>10 DEF BillInv
<1>2. CASE /\ job[d].round # MaxRounds
           /\ job' = [job EXCEPT ![d].seen = stripe[Of(d)], ![d].round = @ + 1, ![d].pc = "judge"]
           /\ UNCHANGED <<session, events, lock>>
  <2>0. job[d].round + 1 \in 0 .. MaxRounds
    BY <1>0, <1>2, BillingAssumption DEF JobRecords
  <2>1. /\ job' \in [Deliveries -> JobRecords] /\ \A c \in Deliveries : c # d => job'[c] = job[c]
        /\ job'[d].pc = "judge" /\ job'[d].event = job[d].event /\ job'[d].seen = stripe[Of(d)]
    BY <1>0, <1>2, <2>0 DEF JobRecords, Within
  <2>. QED BY <1>0, <1>2, <2>1, AlongStands, AlongStep
<1>. QED BY <1>1, <1>2 DEF Refetch

-----------------------------------------------------------------------------
(* Steps that Stripe tells of.                                               *)

LEMMA TellStep ==
    ASSUME BillInv, NEW s \in Subs, NEW status \in Statuses, status # "none",
           stripe' = [stripe EXCEPT ![s] = status], events' \in Seq(EventRecords), NewEvent(s),
           pages' \subseteq pages, s \notin pages', UNCHANGED <<session, standing, account, slipped>>,
           row' \in [Subs -> Statuses], \A t \in Subs : row'[t] = row[t] \/ (t = s /\ row'[t] = "canceled"),
           lock' \in Locks, lock'.holder \in {lock.holder, NoHolder},
           closer' \in Closers, closer'.todo \subseteq closer.todo, trouble' \in Troubles,
           struck' \subseteq struck \cup {s}, s \in struck' => status = "canceled", repaid' \subseteq Subs,
           job' \in [Deliveries -> JobRecords],
           \A d \in Deliveries :
              /\ job'[d] = job[d] \/ job'[d] = Idle
                 \/ (Of(d) = s /\ job[d].pc = "cancel" /\ job'[d].pc = "refund" /\ job'[d].event = job[d].event),
           RefundInv', EndInv'
    PROVE  BillInv'
<1>0. /\ Len(events) \in Nat /\ DOMAIN events = 1 .. Len(events) /\ stripe \in [Subs -> Statuses] /\ struck \subseteq Subs
      /\ Idle.pc = "idle" /\ Idle.event = 0 /\ \A e \in DOMAIN events : events[e].sub \in Subs
  BY Typed, IdleTyped DEF BillInv, EventRecords
<1>1. /\ SubsKept /\ StatesKept /\ Len(events') = Len(events) + 1 /\ DOMAIN events' = DOMAIN events \cup {Len(events) + 1}
      /\ events'[Len(events) + 1].sub = s /\ events'[Len(events) + 1].state = "new"
  BY DEF NewEvent
<1>2. BillTypeOK'
  <2>1. stripe' \in [Subs -> Statuses] /\ struck' \subseteq Subs
    BY <1>0
  <2>2. Len(events') \in Nat /\ Len(events') >= Len(events)
    BY <1>0, <1>1
  <2>3. job' \in [Deliveries -> JobRecords']
    BY <2>2, JobsTyped
  <2>. QED BY <2>1, <2>3, Typed, TypedNext DEF BillInv, BillTypeOK
<1>3. EventHeld'
  BY <1>0 DEF BillInv, EventHeld
<1>4. BornInv'
  <2>1. \A t \in Subs : stripe[t] # "none" => stripe'[t] # "none"
    BY <1>0
  <2>2. \A p \in pages' : stripe'[p] = "none"
    BY <1>0, Typed DEF BillInv, BornInv
  <2>3. \A e \in DOMAIN events' : stripe'[events'[e].sub] # "none"
    BY <1>0, <1>1, <2>1 DEF BillInv, BornInv, SubsKept
  <2>4. \A t \in closer'.todo : stripe'[t] # "none"
    BY <2>1, Typed DEF BillInv, BornInv, Closers
  <2>5. \A t \in Subs : row'[t] # "none" => stripe'[t] # "none"
    BY <1>0, <2>1 DEF BillInv, BornInv
  <2>. QED BY <2>2, <2>3, <2>4, <2>5 DEF BornInv
<1>5. FollowsInv'
  <2>1. \A d \in Deliveries :
              /\ job'[d].event \in {job[d].event, 0}
              /\ job'[d].pc \in {"apply", "refetch"} => job[d].pc \in {"apply", "refetch"} /\ job'[d].event = job[d].event
              /\ Knows(d)' => Knows(d) /\ job'[d].event = job[d].event /\ (job'[d].seen = job[d].seen \/ Of(d) = s)
    BY <1>0 DEF Knows
  <2>2. \A t \in Subs \ {s} : row'[t] = row[t]
    OBVIOUS
  <2>. QED BY <2>1, <2>2, TellsOrder
<1>6. StandingInv'
  <2>1. PICK n \in Nat : n = Len(events) + 1
    BY <1>0
  <2>2. \A d \in Deliveries : job'[d].event # n
    <3>1. \A d \in Deliveries : job'[d].event \in 0 .. Len(events)
      BY DEF JobRecords
    <3>. QED BY <1>0, <2>1, <3>1
  <2>3. n \in DOMAIN events' /\ events'[n].state = "new"
    BY <1>1, <2>1
  <2>. QED BY <2>2, <2>3 DEF StandingInv, Left
<1>7. OneInv'
  <2>1. \A d \in Deliveries : job'[d].pc = "save" => job'[d] = job[d]
    BY <1>0
  <2>. QED BY <1>1, <2>1, OneKept
<1>. QED BY <1>2, <1>3, <1>4, <1>5, <1>6, <1>7 DEF BillInv

\* A subscription that has an event has no open page.
LEMMA NoPage ==
    ASSUME BillInv, NEW d \in Deliveries, job[d].pc # "idle"
    PROVE  Of(d) \notin pages
BY EventAtHand DEF BillInv, BornInv, Of

LEMMA CustomerSteps ==
    ASSUME BillInv, NEW s \in Subs, Turns(s) \/ Pays(s)
    PROVE  BillInv'
<1>0. /\ trouble \in Troubles /\ closer \in Closers /\ lock \in Locks /\ job \in [Deliveries -> JobRecords]
      /\ row \in [Subs -> Statuses] /\ stripe \in [Subs -> Statuses] /\ repaid \subseteq Subs
  BY Typed DEF BillInv
<1>1. UNCHANGED <<row, standing, session, lock, job, account, closer, struck, repaid, slipped>>
  BY DEF Turns, Pays, theirs, history
<1>2. PICK status \in Statuses \ {"none"} : Becomes(s, status) /\ s \notin pages' /\ pages' \subseteq pages /\ (s \in struck => status = "canceled")
  <2>1. CASE Turns(s)
    <3>1. PICK status \in MayTurn[stripe[s]] : Becomes(s, status)
      BY <2>1 DEF Turns
    <3>2. status \in Statuses \ {"none"} /\ stripe[s] \notin {"none", "canceled"}
      BY <1>0, <3>1 DEF MayTurn, Statuses, PaidStates
    <3>3. s \notin pages /\ s \notin struck
      BY <3>2 DEF BillInv, BornInv, FollowsInv, StruckStays
    <3>. QED BY <2>1, <3>1, <3>2, <3>3 DEF Turns
  <2>2. CASE Pays(s)
    <3>1. "active" \in Statuses \ {"none"} /\ Becomes(s, "active") /\ pages' = pages \ {s} /\ s \in pages
      BY <2>2 DEF Pays, Statuses, PaidStates
    <3>2. s \notin struck
      BY <3>1 DEF BillInv, BornInv, FollowsInv, StruckStays
    <3>. QED BY <3>1, <3>2
  <2>. QED BY <2>1, <2>2
<1>3. stripe' = [stripe EXCEPT ![s] = status] /\ events' \in Seq(EventRecords) /\ NewEvent(s)
  BY <1>2, Becoming
<1>4. trouble' \in Troubles /\ trouble'.faults = trouble.faults
  <2>1. Counts("turns") \/ UNCHANGED trouble
    BY DEF Turns, Pays
  <2>. QED BY <1>0, <2>1, Counting
<1>5. RefundInv'
  BY <1>1, <1>3, <1>4, RefundKept DEF NewEvent
<1>6. EndInv'
  <2>1. \A d \in Deliveries : AskedOK(d)'
    BY <1>1 DEF BillInv, EndInv, AskedOK, Paid
  <2>. QED BY <1>1, <2>1, EndKept
<1>. QED BY <1>0, <1>1, <1>2, <1>3, <1>4, <1>5, <1>6, TellStep

LEMMA SettleStep ==
    ASSUME BillInv, NEW s \in Subs, SettleOne(s)
    PROVE  BillInv'
<1>0. /\ closer \in Closers /\ row \in [Subs -> Statuses] /\ EndInv /\ BornInv /\ closer.pc = "settle" /\ s \in closer.todo
      /\ job \in [Deliveries -> JobRecords] /\ repaid \subseteq Subs /\ trouble \in Troubles /\ lock \in Locks
  BY Typed DEF BillInv, SettleOne
<1>1. /\ UNCHANGED <<pages, standing, session, lock, job, account, struck, repaid, slipped, trouble>>
      /\ closer' = [closer EXCEPT !.todo = @ \ {s}, !.settled = @ /\ stripe[s] # "canceled"]
  BY DEF SettleOne, history
<1>2. /\ closer' \in Closers /\ closer'.pc = closer.pc /\ closer'.todo = closer.todo \ {s}
      /\ closer'.settled = (closer.settled /\ stripe[s] # "canceled")
  BY <1>0, <1>1 DEF Closers
<1>3. CASE stripe[s] = "canceled"
  <2>1. UNCHANGED <<stripe, events, row>>
    BY <1>3 DEF SettleOne
  <2>2. BillTypeOK'
    BY <1>1, <1>2, <2>1, Typed, TypedNext, QuietEvents, JobsRest DEF BillInv, BillTypeOK
  <2>3. BornInv'
    BY <1>1, <1>2, <2>1, QuietEvents, BornKept
  <2>4. EndInv'
    BY <1>0, <1>1, <1>2, <1>3, <2>1 DEF EndInv, Owed, AskedOK, Paid
  <2>. QED BY <1>1, <2>1, <2>2, <2>3, <2>4, QuietEvents, WorldStep
<1>4. CASE stripe[s] # "canceled"
  <2>1. Becomes(s, "canceled") /\ row' = [row EXCEPT ![s] = "canceled"] /\ "canceled" \in Statuses
    BY <1>4 DEF SettleOne, Statuses
  <2>2. stripe' = [stripe EXCEPT ![s] = "canceled"] /\ events' \in Seq(EventRecords) /\ NewEvent(s)
    BY <2>1, Becoming
  <2>3. row' \in [Subs -> Statuses] /\ row'[s] = "canceled" /\ \A t \in Subs : t # s => row'[t] = row[t]
    BY <1>0, <2>1
  <2>4. RefundInv'
    BY <1>1, <2>2, RefundKept DEF NewEvent
  <2>5. EndInv'
    <3>1. Owed' \subseteq Owed \ {s}
      BY <1>1, <2>3 DEF Owed, Paid, PaidStates
    <3>2. \A d \in Deliveries : AskedOK(d)'
      BY <1>0, <1>1 DEF EndInv, AskedOK, Paid
    <3>. QED BY <1>0, <1>1, <1>2, <3>1, <3>2 DEF EndInv
  <2>6. s \notin pages
    BY <1>0 DEF BornInv
  <2>7. s \in Subs /\ struck' \subseteq struck \cup {s} /\ pages' \subseteq pages
    BY <1>1
  <2>. QED BY <1>0, <1>1, <1>2, <2>1, <2>2, <2>3, <2>4, <2>5, <2>6, <2>7, TellStep
<1>. QED BY <1>3, <1>4

LEMMA CancelStep ==
    ASSUME BillInv, NEW d \in Deliveries, Cancel(d)
    PROVE  BillInv'
<1>0. /\ job \in [Deliveries -> JobRecords] /\ job[d].pc = "cancel" /\ Of(d) \in Subs /\ Knows(d) /\ Of(d) \notin pages
      /\ row \in [Subs -> Statuses] /\ closer \in Closers /\ trouble \in Troubles /\ lock \in Locks
      /\ repaid \subseteq Subs /\ struck \subseteq Subs /\ "canceled" \in Statuses /\ ~Paid("canceled")
  BY Typed, EventAtHand, NoPage DEF Cancel, JobAt, Knows, BillInv, Statuses, Paid, PaidStates
<1>1. /\ UNCHANGED <<pages, row, standing, session, lock, account, closer, repaid, slipped, trouble>>
      /\ struck' = struck \cup {Of(d)}
  BY DEF Cancel, Cancels, theirs
<1>2. /\ job' \in [Deliveries -> JobRecords] /\ \A c \in Deliveries : c # d => job'[c] = job[c]
      /\ job'[d].pc = "refund" /\ job'[d].event = job[d].event /\ job'[d].seen = "canceled"
  BY <1>0 DEF Cancel, JobRecords, Within
<1>3. SubsKept => RefundInv'
  <2>. SUFFICES ASSUME SubsKept, trouble'.faults = 0, NEW s \in struck'
                PROVE  s \in repaid' \/ \E c \in Deliveries : job'[c].pc = "refund" /\ Of(c)' = s
    BY DEF RefundInv
  <2>1. Of(d)' = Of(d)
    BY <1>0, <1>2, OfStays
  <2>2. CASE s = Of(d)
    BY <1>2, <2>1, <2>2
  <2>3. CASE s \in struck
    <3>1. s \in repaid \/ \E c \in Deliveries : job[c].pc = "refund" /\ Of(c) = s
      BY <1>1, <2>3 DEF BillInv, RefundInv
    <3>2. ASSUME NEW c \in Deliveries, job[c].pc = "refund", Of(c) = s
          PROVE  job'[c].pc = "refund" /\ Of(c)' = s
      BY <1>0, <1>2, <3>2, OfStays
    <3>. QED BY <1>1, <3>1, <3>2
  <2>. QED BY <1>1, <2>2, <2>3
<1>4. EndInv'
  <2>1. \A c \in Deliveries : AskedOK(c)'
    BY <1>0, <1>2 DEF BillInv, EndInv, AskedOK, Paid
  <2>. QED BY <1>1, <2>1, EndKept
<1>5. CASE stripe[Of(d)] # "canceled" /\ Becomes(Of(d), "canceled")
  <2>1. PICK s \in Subs : s = Of(d)
    BY <1>0
  <2>2. stripe' = [stripe EXCEPT ![s] = "canceled"] /\ events' \in Seq(EventRecords) /\ NewEvent(s)
    BY <1>0, <1>5, <2>1, Becoming
  <2>3. RefundInv'
    BY <1>3, <2>2 DEF NewEvent
  <2>4. \A c \in Deliveries :
          \/ job'[c] = job[c]
          \/ (Of(c) = s /\ job[c].pc = "cancel" /\ job'[c].pc = "refund" /\ job'[c].event = job[c].event)
    BY <1>0, <1>2, <2>1
  <2>. QED BY <1>0, <1>1, <1>2, <1>4, <2>1, <2>2, <2>3, <2>4, TellStep
<1>6. CASE Of(d) \in struck /\ UNCHANGED <<stripe, events>>
  <2>1. stripe[Of(d)] = "canceled" /\ struck' = struck
    BY <1>0, <1>1, <1>6 DEF BillInv, FollowsInv, StruckStays
  <2>2. StandingInv' /\ standing' \in {"trial", "active", "past_due", "suspended", "gone"}
    BY <1>1, <1>2, <1>6, AlongStands
  <2>. QED BY <1>0, <1>1, <1>2, <1>6, <2>1, <2>2, AlongStep
<1>. QED BY <1>5, <1>6 DEF Cancel, Cancels

LEMMA ThrowsStep ==
    ASSUME BillInv, NEW d \in Deliveries, Throws(d)
    PROVE  BillInv'
<1>0. /\ job[d].pc # "idle" /\ Counts("faults") /\ Ends(d) /\ Of(d) \in Subs /\ Of(d) \notin pages
      /\ UNCHANGED <<pages, row, standing, session, account, closer, repaid, slipped>>
      /\ row \in [Subs -> Statuses] /\ closer \in Closers /\ repaid \subseteq Subs /\ "canceled" \in Statuses
  BY Typed, EventAtHand, NoPage DEF Throws, JobAt, Fault, theirs, BillInv, Statuses
<1>1. /\ job' \in [Deliveries -> JobRecords] /\ job'[d] = Idle /\ \A c \in Deliveries : c # d => job'[c] = job[c]
      /\ lock' \in Locks /\ lock'.holder \in {lock.holder, NoHolder}
  BY <1>0, Ending
<1>2. CASE events' = Reopened(d, events) /\ UNCHANGED <<stripe, struck>>
  BY <1>0, <1>1, <1>2, StopStep
<1>3. CASE /\ stripe' = [stripe EXCEPT ![Of(d)] = "canceled"] /\ struck' = struck \cup {Of(d)}
           /\ events' = Append(Reopened(d, events), [sub |-> Of(d), state |-> "new"])
  <2>1. PICK s \in Subs : s = Of(d)
    BY <1>0
  <2>2. events' \in Seq(EventRecords) /\ NewEvent(s)
    <3>. DEFINE told == Reopened(d, events)
    <3>1. /\ told \in Seq(EventRecords) /\ Len(told) = Len(events) /\ DOMAIN told = DOMAIN events
          /\ \A e \in DOMAIN events :
                 /\ told[e].sub = events[e].sub
                 /\ events[e].state = "new" => told[e].state = "new"
                 /\ events[e].state # "done" => told[e].state # "done"
      BY <1>0, Reopening
    <3>2. events' = Append(told, [sub |-> s, state |-> "new"])
      BY <1>3, <2>1
    <3>. HIDE DEF told
    <3>. QED BY <3>1, <3>2, Telling
  <2>3. trouble' \in Troubles /\ trouble'.faults # 0
    BY <1>0, Counting
  <2>4. RefundInv'
    BY <2>3 DEF RefundInv
  <2>5. EndInv'
    <3>1. \A c \in Deliveries : AskedOK(c)'
      BY <1>1, IdleTyped DEF BillInv, EndInv, AskedOK, Paid
    <3>. QED BY <1>0, <3>1, EndKept
  <2>6. \A c \in Deliveries : job'[c] = job[c] \/ job'[c] = Idle
    BY <1>1
  <2>. QED BY <1>0, <1>1, <1>3, <2>1, <2>2, <2>3, <2>4, <2>5, <2>6, TellStep
<1>. QED BY <1>2, <1>3 DEF Throws

-----------------------------------------------------------------------------
LEMMA BillNextOK ==
    ASSUME BillInv, [BillNext]_billVars
    PROVE  BillInv'
<1>1. CASE BillNext
  <2>1. ASSUME NEW s \in Subs, Turns(s) \/ Checkout(s) \/ Pays(s) PROVE BillInv'
    BY <2>1, CustomerSteps, CheckoutStep
  <2>2. CASE TrialEnds \/ TenantGoes \/ LockPasses \/ \E e \in 1 .. Len(events) : ClaimPasses(e)
    BY <2>2, TimeSteps
  <2>3. CASE Delivered
    BY <2>3, TakeEventStep DEF Delivered
  <2>4. ASSUME NEW d \in Deliveries, DeliveryStep(d) \/ DeliveryDies(d) PROVE BillInv'
    BY <2>4, FetchStep, JudgeStep, CancelStep, RefundStep, SaveStep, ApplyStep, RefetchStep, RefusedStep, ThrowsStep,
       DiesStep DEF DeliveryStep
  <2>5. CASE RequestDeletion \/ CloserStep
    BY <2>5, EndSteps, SettleStep DEF CloserStep
  <2>. QED BY <1>1, <2>1, <2>2, <2>3, <2>4, <2>5 DEF BillNext
<1>2. CASE UNCHANGED billVars
  <2>0. UNCHANGED <<stripe, events, pages, row, standing, session, lock, job, account, closer, struck, repaid, slipped, trouble>>
    BY <1>2 DEF billVars
  <2>1. BillTypeOK'
    BY <2>0 DEF BillInv, BillTypeOK
  <2>2. BornInv' /\ EndInv'
    BY <2>0 DEF BillInv, BornInv, EndInv, Owed, AskedOK, Paid
  <2>. QED BY <2>0, <2>1, <2>2, QuietEvents, WorldStep
<1>. QED BY <1>1, <1>2

(* The inductive invariant of billing: who holds the lock knows Stripe's     *)
(* last word, or an event that nobody took tells of it; the tenant follows   *)
(* what is saved, or an event is left that will see to it; who judged saves  *)
(* alone; what was struck is owed; and what a closing account still has to   *)
(* cancel (webhook.ts, lock.ts, account-deletion.ts).                        *)
THEOREM BillInvariant == BillSpec => []BillInv
<1>1. BillInit => BillInv
  BY BillInitOK
<1>2. BillInv /\ [BillNext]_billVars => BillInv'
  BY BillNextOK
<1>. QED BY <1>1, <1>2, PTL DEF BillSpec

(* Billing keeps its type.                                                   *)
THEOREM BillTypeCorrect == BillSpec => []BillTypeOK
<1>1. BillInv => BillTypeOK
  BY DEF BillInv
<1>. QED BY <1>1, BillInvariant, PTL

\* An untold subscription has an event that is not processed.
LEMMA ToldIsSaved ==
    ASSUME BillInv, NEW s \in Subs, ~Untold(s)
    PROVE  row[s] = stripe[s]
BY Typed DEF BillInv, FollowsInv, RowFollows, Untold

(* In whatever order deliveries run, stall, die and repeat, the row of a     *)
(* subscription whose events are processed is Stripe's last word, and the    *)
(* tenant follows (applySubscription, withBillingLock).                      *)
THEOREM TheLastWordStands == BillSpec => []LastWordIsStripes
<1>1. BillInv => LastWordIsStripes
  <2>. SUFFICES ASSUME BillInv PROVE LastWordIsStripes
    OBVIOUS
  <2>1. \A s \in Subs : Untold(s) \/ row[s] = stripe[s]
    BY ToldIsSaved
  <2>2. ASSUME \A s \in Subs : ~Untold(s), \E s \in Subs : row[s] # "none"
        PROVE  standing \in {"gone", StandingFor}
    <3>1. ~Wrong
      BY <2>2, Typed DEF BillInv, StandingInv, Left, Untold, EventRecords
    <3>. QED BY <2>2, <3>1 DEF Wrong
  <2>. QED BY <2>1, <2>2 DEF LastWordIsStripes
<1>. QED BY <1>1, BillInvariant, PTL

(* However many subscriptions are started, one at most is paid for once the  *)
(* events are processed (applySubscription).                                 *)
THEOREM OneIsPaidFor == BillSpec => []OnePays
<1>1. BillInv => OnePays
  BY ToldIsSaved DEF BillInv, OneInv, OnePays
<1>. QED BY <1>1, BillInvariant, PTL

(* A subscription is only struck as the second one beside another that is    *)
(* paid for, or whose event is still to come.                                *)
THEOREM OnlyASecondIsStruck == BillSpec => KeepsOne
<1>1. BillInv /\ [BillNext]_billVars =>
        [\A d \in Deliveries : JobAt(d, "judge") /\ job'[d].pc = "cancel" =>
            Closing \/ \E t \in Subs \ {Of(d)} : Paid(stripe[t]) \/ Untold(t)]_billVars
  <2>. SUFFICES ASSUME BillInv, BillNext, NEW d \in Deliveries, job[d].pc = "judge", job'[d].pc = "cancel", ~Closing
                PROVE  \E t \in Subs \ {Of(d)} : Paid(stripe[t]) \/ Untold(t)
    BY DEF JobAt
  <2>0. job \in [Deliveries -> JobRecords] /\ Idle.pc = "idle"
    BY Typed, IdleTyped DEF BillInv
  <2>1. Second(d)
    <3>1. CASE UNCHANGED job
      BY <3>1
    <3>2. CASE Delivered
      BY <2>0, <3>2 DEF Delivered, TakeEvent, JobAt
    <3>3. ASSUME NEW c \in Deliveries, DeliveryStep(c) \/ DeliveryDies(c) PROVE Second(d)
      <4>1. CASE c # d
        <5>1. job'[d] = job[d]
          BY <2>0, <3>3, <4>1 DEF DeliveryStep, DeliveryDies, Fetch, Judge, Cancel, Refund, Save, Apply, Refetch, Refused,
             Throws, Loses, Ends, JobGoes
        <5>. QED BY <5>1
      <4>2. CASE c = d /\ (Throws(d) \/ DeliveryDies(d))
        BY <2>0, <4>2 DEF Throws, DeliveryDies, Ends
      <4>3. CASE c = d /\ Judge(d)
        BY <2>0, <4>3 DEF Judge, JobRecords
      <4>. QED BY <3>3, <4>1, <4>2, <4>3 DEF DeliveryStep, Fetch, Cancel, Refund, Save, Apply, Refetch, Refused, JobAt
    <3>. QED BY <3>1, <3>2, <3>3 DEF BillNext, Turns, Checkout, Pays, TrialEnds, ClaimPasses, LockPasses, RequestDeletion,
         TenantGoes, CloserStep, SettleReads, SessionExpires, Settled, Scrub, SettleOne
  <2>2. PICK t \in Subs \ {Of(d)} : Paid(row[t])
    BY <2>1 DEF Second, CountsAsPaid
  <2>. QED BY <2>2, ToldIsSaved
<1>. QED BY <1>1, BillInvariant, PTL DEF BillSpec, KeepsOne

(* While no call throws and no delivery dies, what the webhook cancels it    *)
(* refunds, also after it stalled (cancelAndRefund).                         *)
THEOREM WhatIsStruckIsRepaid == BillSpec => []StruckIsRepaid
<1>1. BillInv => StruckIsRepaid
  BY DEF BillInv, RefundInv, StruckIsRepaid, JobAt
<1>. QED BY <1>1, BillInvariant, PTL

(* Nothing is paid for on a deleted account, but what is still to be told    *)
(* and what slipped past the request (settleAccountBilling, the webhook).    *)
THEOREM DeletedIsNotCharged == BillSpec => []ScrubbedIsFree
<1>1. BillInv => ScrubbedIsFree
  <2>. SUFFICES ASSUME BillInv, account = "scrubbed", NEW s \in Subs, Paid(stripe[s]), ~Untold(s)
                PROVE  s \in slipped
    BY DEF ScrubbedIsFree
  <2>1. Paid(row[s])
    BY ToldIsSaved
  <2>. QED BY <2>1 DEF BillInv, EndInv, Owed
<1>. QED BY <1>1, BillInvariant, PTL

================================================================================
