------------------------------- MODULE Outbox -------------------------------
(***************************************************************************)
(* The notification outbox (db/outbox.ts) and the dispatcher that drains it *)
(* (notifications/dispatcher.ts).  A run claims due rows by reading them,   *)
(* without a lock, and works from that copy: it calls the provider, marks   *)
(* the row and notes the result on the channel.  Anything thrown on the way *)
(* marks the row failed.  A run that outlived the scheduler's lease works   *)
(* beside the next one, and any run may die.                                *)
(***************************************************************************)
EXTENDS Integers, Sequences

CONSTANTS
    Keys,           \* event_key of each alert
    Drains,         \* runs that may be draining at once
    MaxAttempts,    \* MAX_ATTEMPTS
    Take,           \* the most rows one run claims
    MaxFaults       \* bound: failed and lost round trips, crashes, overlapping runs

ASSUME OutboxAssumption ==
    MaxAttempts \in Nat \ {0} /\ Take \in Nat \ {0} /\ MaxFaults \in Nat

VARIABLES
    row,        \* status and attempts of each row of notification_outbox
    line,       \* the due rows' keys, by next_attempt_at
    drain,      \* each run: its claimed entries and what it is doing with the first
    accepted,   \* history: times a provider took the alert
    tried,      \* history: attempts a provider took or refused, or on an unreadable payload
    closed,     \* history: its destination was found gone
    faults      \* history: faults so far

outboxVars == <<row, line, drain, accepted, tried, closed, faults>>

Queued == {"pending", "failed"}
Settled == {"sent", "dead"}
Present == Queued \cup Settled
Answers == {"accepted", "refused", "deferred", "expired", "gone", "none"}
Entries == [key : Keys, tries : 0 .. MaxAttempts]
Idle == [pc |-> "idle", todo |-> <<>>, answer |-> "none"]

OutboxTypeOK ==
    /\ row \in [Keys -> [status : {"none", "pending", "failed", "sent", "dead", "removed"},
                         tries : 0 .. MaxAttempts]]
    /\ line \in Seq(Keys)
    /\ drain \in [Drains -> [pc : {"idle", "deliver", "mark", "book", "catch"},
                             todo : Seq(Entries), answer : Answers]]
    /\ accepted \in [Keys -> Nat] /\ tried \in [Keys -> Nat]
    /\ closed \in [Keys -> BOOLEAN]
    /\ faults \in 0 .. MaxFaults

OutboxInit ==
    /\ row = [k \in Keys |-> [status |-> "none", tries |-> 0]]
    /\ line = <<>>
    /\ drain = [d \in Drains |-> Idle]
    /\ accepted = [k \in Keys |-> 0] /\ tried = [k \in Keys |-> 0]
    /\ closed = [k \in Keys |-> FALSE]
    /\ faults = 0

\* A row is in line once at most.
Place(k) == CHOOSE i \in DOMAIN line : line[i] = k
OffLine(k) ==
    IF \A i \in DOMAIN line : line[i] # k THEN line
    ELSE SubSeq(line, 1, Place(k) - 1) \o SubSeq(line, Place(k) + 1, Len(line))

\* enqueueStatements: the insert does nothing when the key is there.
Enqueue(k) ==
    /\ row[k].status = "none"
    /\ row' = [row EXCEPT ![k].status = "pending"]
    /\ line' = Append(line, k)
    /\ UNCHANGED <<drain, accepted, tried, closed, faults>>

\* next_attempt_at arrives.
ComesDue(k) ==
    /\ row[k].status = "failed" /\ \A i \in DOMAIN line : line[i] # k
    /\ line' = Append(line, k)
    /\ UNCHANGED <<row, drain, accepted, tried, closed, faults>>

\* The retention prune, or the monitor's deletion.
RemoveRow(k, from) ==
    /\ row[k].status \in from
    /\ row' = [row EXCEPT ![k].status = "removed"]
    /\ line' = OffLine(k)
    /\ UNCHANGED <<drain, accepted, tried, closed, faults>>
Prune(k) == RemoveRow(k, Settled)
DeleteMonitor(k) == RemoveRow(k, Present)

-----------------------------------------------------------------------------

Fault == faults < MaxFaults /\ faults' = faults + 1

\* claimDueStatement: the n that have been due longest.
OldestDue(n) == [i \in 1 .. n |-> [key |-> line[i], tries |-> row[line[i]].tries]]
NewestDue(n) ==
    [i \in 1 .. n |-> [key |-> line[Len(line) + 1 - i], tries |-> row[line[Len(line) + 1 - i]].tries]]
ClaimDue(n) == OldestDue(n)

\* A run claims as many as its budget lets it deliver.
Claim(d) ==
    /\ drain[d].pc = "idle"
    /\ \E n \in 1 .. Len(line) :
         /\ n <= Take
         /\ drain' = [drain EXCEPT ![d] = [pc |-> "deliver", todo |-> ClaimDue(n), answer |-> "none"]]
    /\ IF \A e \in Drains : drain[e].pc = "idle" THEN UNCHANGED faults ELSE Fault
    /\ UNCHANGED <<row, line, accepted, tried, closed>>

Entry(d) == Head(drain[d].todo)
Goes(d, pc, answer) == drain' = [drain EXCEPT ![d].pc = pc, ![d].answer = answer]

\* On to the next entry of this run.
Rest(d) == Tail(drain[d].todo)
Done(d) ==
    drain' = [drain EXCEPT ![d] = IF Rest(d) = <<>> THEN Idle
                                   ELSE [pc |-> "deliver", todo |-> Rest(d), answer |-> "none"]]

\* The provider takes the alert, refuses it, or puts it off (the daily email
\* cap); the device is gone; the channel is gone, disabled or not configured.
\* An answer may be lost, and the reads before the call may throw.
Attempt(d) ==
    LET k == Entry(d).key
        Counts == tried' = [tried EXCEPT ![k] = @ + 1]
        Takes == accepted' = [accepted EXCEPT ![k] = @ + 1]
        Closes == closed' = [closed EXCEPT ![k] = TRUE]
    IN  /\ drain[d].pc = "deliver"
        /\ \/ Takes /\ Counts /\ Goes(d, "mark", "accepted") /\ UNCHANGED <<closed, faults>>
           \/ Takes /\ Counts /\ Goes(d, "mark", "refused") /\ Fault /\ UNCHANGED closed
           \/ Counts /\ Goes(d, "mark", "refused") /\ UNCHANGED <<accepted, closed, faults>>
           \/ Goes(d, "mark", "deferred") /\ UNCHANGED <<accepted, tried, closed, faults>>
           \/ \E a \in {"expired", "gone"} :
                Closes /\ Goes(d, "mark", a) /\ UNCHANGED <<accepted, tried, faults>>
           \/ Fault /\ Goes(d, "catch", "none") /\ UNCHANGED <<accepted, tried, closed>>
        /\ UNCHANGED <<row, line>>

\* computeRetry.
Retried(tries) == [status |-> IF tries >= MaxAttempts THEN "dead" ELSE "failed", tries |-> tries]

\* markSent takes any row, markFailed and markDeferred one that is not settled.
Sets(k, from, new) ==
    IF row[k].status \in from
    THEN row' = [row EXCEPT ![k] = new] /\ line' = OffLine(k)
    ELSE UNCHANGED <<row, line>>

MarkSentOnce(k) == Sets(k, {"pending"}, [row[k] EXCEPT !.status = "sent"])
MarkSent(k) == Sets(k, Present, [row[k] EXCEPT !.status = "sent"])
MarkFailedAnyway(k, tries) == Sets(k, Present, Retried(tries))
MarkFailed(k, tries) == Sets(k, Queued, Retried(tries))
MarkDeferredCounting(k) == Sets(k, Queued, Retried(row[k].tries + 1))
MarkDeferred(k) == Sets(k, Queued, [row[k] EXCEPT !.status = "failed"])

Marks(e, answer) ==
    \/ answer \in {"accepted", "expired"} /\ MarkSent(e.key)
    \/ answer = "refused" /\ MarkFailed(e.key, e.tries + 1)
    \/ answer = "deferred" /\ MarkDeferred(e.key)
    \/ answer = "gone" /\ MarkFailed(e.key, MaxAttempts)

\* The mark lands, and the run goes on to the channel's result unless the alert
\* was sent (a failure there is contained) or has no channel; or the mark
\* throws, landed or not.
Mark(d) ==
    /\ drain[d].pc = "mark"
    /\ \/ /\ Marks(Entry(d), drain[d].answer) /\ UNCHANGED faults
          /\ IF drain[d].answer \in {"refused", "deferred"} THEN Goes(d, "book", "none") ELSE Done(d)
       \/ /\ Marks(Entry(d), drain[d].answer) \/ UNCHANGED <<row, line>>
          /\ Fault /\ Goes(d, "catch", "none")
    /\ UNCHANGED <<accepted, tried, closed>>

\* recordChannelResult or recordPushResult of an alert that was not sent.
Book(d) ==
    /\ drain[d].pc = "book"
    /\ \/ Done(d) /\ UNCHANGED faults
       \/ Fault /\ Goes(d, "catch", "none")
    /\ UNCHANGED <<row, line, accepted, tried, closed>>

\* The catch of processOutbox's loop, which swallows its own error.
Catch(d) ==
    /\ drain[d].pc = "catch" /\ Done(d)
    /\ \/ MarkFailed(Entry(d).key, Entry(d).tries + 1) /\ UNCHANGED faults
       \/ UNCHANGED <<row, line>> /\ Fault
    /\ UNCHANGED <<accepted, tried, closed>>

Crash(d) ==
    /\ drain[d].pc # "idle" /\ Fault
    /\ drain' = [drain EXCEPT ![d] = Idle]
    /\ UNCHANGED <<row, line, accepted, tried, closed>>

DrainStep(d) == Attempt(d) \/ Mark(d) \/ Book(d) \/ Catch(d)

OutboxNext ==
    \/ \E k \in Keys : Enqueue(k) \/ ComesDue(k) \/ Prune(k) \/ DeleteMonitor(k)
    \/ \E d \in Drains : Claim(d) \/ DrainStep(d) \/ Crash(d)

OutboxSpec == OutboxInit /\ [][OutboxNext]_outboxVars

-----------------------------------------------------------------------------

(* The outbox keeps AlertDelivery's promises: a sent alert stays sent though *)
(* stale runs and failed bookkeeping mark it again, and only an alert that   *)
(* was taken, or whose device is gone, is recorded as sent.                  *)
StateOf(k) == IF row[k].status \in Queued THEN "queued" ELSE row[k].status
Promise == INSTANCE AlertDelivery WITH
    state <- [k \in Keys |-> StateOf(k)],
    delivered <- {k \in Keys : accepted[k] > 0},
    unreachable <- {k \in Keys : closed[k]}
KeepsPromise == Promise!AlertSpec

(* An alert goes out once, and MAX_ATTEMPTS bounds its attempts, but for one  *)
(* more for each fault: an answer or mark that was lost, a crash, or a run    *)
(* beside another one, which may write back a lower count than the row has.   *)
RepeatsHaveACause ==
    \A k \in Keys : accepted[k] <= 1 + faults /\ tried[k] <= MaxAttempts + faults

(* An alert is given up on only when its destination is gone or every        *)
(* attempt was made; a put-off one loses no attempt, unless noting it on the *)
(* channel fails: the catch then counts one after all.                       *)
GivenUpWhenTried ==
    \A k \in Keys : row[k].status = "dead" => closed[k] \/ tried[k] + faults >= MaxAttempts

(* Every queued alert is settled, whatever else is due and however long      *)
(* others are put off, unless it is itself put off for ever.                 *)
PutOff(k) ==
    \E d \in Drains : /\ drain[d].pc = "mark" /\ drain[d].answer = "deferred" /\ Entry(d).key = k
                       /\ drain'[d].pc = "book"
EveryAlertSettles ==
    \A k \in Keys : (row[k].status \in Queued ~> row[k].status \notin Queued)
                        \/ []<><<PutOff(k)>>_outboxVars
=============================================================================
