------------------------ MODULE MonitorCycleProofs ------------------------
(***************************************************************************)
(* Proofs about MonitorCycle, for every number of runs, requests, incident  *)
(* ids and faults.                                                          *)
(*                                                                         *)
(* The safety properties are not inductive: a batch writes a plan made from *)
(* rows read long before.  IInv therefore says of every actor in flight     *)
(* what its plan may still rely on (Sound), and GrowsTo says which facts    *)
(* about incidents no write takes back: an incident is never deleted,       *)
(* reopened or unmarked.  A step of one actor then leaves IInv true of all  *)
(* the others (Undisturbed), and each write is shown to keep the rows right *)
(* (CoreWritten .. WholeWritten).                                           *)
(*                                                                         *)
(* Where one writer at a time is assumed (Undivided, Probed), two more      *)
(* invariants say that a plan fits the incidents it will land among, however *)
(* often and in how many parts it lands (PointerInv, Fits), and that what a *)
(* run may still alert about is open (OpenInv).  The last part, about the   *)
(* beats and the timeline, is again for any writers.                        *)
(***************************************************************************)
EXTENDS MonitorCycle, TLAPS

(* What the plan operators return. *)

LEMMA ActiveFound ==
    ASSUME inc \in [Ids -> Incident]
    PROVE  \/ Active(inc) = NoId
           \/ Active(inc) \in Ids /\ inc[Active(inc)].status = "open"
  BY DEF Active, OpenOnes

LEMMA NoPlanType == NoPlan \in Plan
  BY DEF NoPlan, Plan, States, Events, OpeningEvents

LEMMA NewRowType == NewRow \in Row
  BY DEF NewRow, Row, States

LEMMA ContextType ==
    ASSUME NEW c \in Contexts
    PROVE  /\ c.read \in BOOLEAN /\ c.flapping \in BOOLEAN /\ c.cooling \in BOOLEAN
           /\ c.notify \in {"unread", "none", "some"}
           /\ c.id \in Ids \cup {NoId}
           /\ c.id = NoId => Active(inc) # NoId \/ ~c.read
<1>1. c \in [read : BOOLEAN, notify : {"unread", "none", "some"}, flapping : BOOLEAN,
            cooling : BOOLEAN, id : FreshIds \cup {NoId}]
  BY DEF Contexts
<1>2. c.id = NoId => Active(inc) # NoId \/ ~c.read
  BY DEF Contexts
<1>. QED
  BY <1>1, <1>2 DEF FreshIds

LEMMA TransitionType ==
    ASSUME inc \in [Ids -> Incident],
           NEW base \in Plan, NEW ok \in BOOLEAN, NEW event \in OpeningEvents, NEW c \in Contexts
    PROVE  Transition(base, ok, event, c) \in Plan
<1>1. c.id \in Ids \cup {NoId} /\ c.flapping \in BOOLEAN /\ c.read \in BOOLEAN
  BY ContextType
<1>2. Active(inc) \in Ids \cup {NoId}
  BY ActiveFound
<1>3. CASE ~c.read
  <2>1. Transition(base, ok, event, c) = [base EXCEPT !.inc = FALSE]
    BY <1>3 DEF Transition
  <2>. QED BY <2>1 DEF Plan
<1>4. CASE c.read /\ ~ok /\ Active(inc) # NoId
  <2>1. Transition(base, ok, event, c) = [base EXCEPT !.ptr = Active(inc), !.observe = Active(inc)]
    BY <1>4 DEF Transition
  <2>. QED BY <2>1, <1>2 DEF Plan
<1>5. CASE c.read /\ ~ok /\ Active(inc) = NoId
  <2>1. PICK a \in Events \cup {"none"}, s \in BOOLEAN :
           Transition(base, ok, event, c) =
             [base EXCEPT !.ptr = c.id, !.open = c.id, !.flapping = c.flapping, !.alert = a, !.settled = s]
    BY <1>5, <1>1, Zenon DEF Transition, Events, OpeningEvents
  <2>. QED BY <2>1, <1>1 DEF Plan
<1>6. CASE c.read /\ ok /\ Active(inc) = NoId
  BY <1>6 DEF Transition
<1>7. CASE c.read /\ ok /\ Active(inc) # NoId
  <2>1. PICK a \in {"recovered", "none"} :
           Transition(base, ok, event, c) = [base EXCEPT !.resolve = Active(inc), !.alert = a]
    BY <1>7, Zenon DEF Transition
  <2>. QED BY <2>1, <1>2 DEF Plan, Events
<1>. QED
  BY <1>1, <1>3, <1>4, <1>5, <1>6, <1>7

-----------------------------------------------------------------------------
Exists(i) == inc[i].status # "none"

(* What holds of every plan that was ever made, whatever was written since. *)
Sound(p) ==
    /\ p.alert # "none" => p.kind \in {"check", "beat", "missed"}
    /\ p.alert \in OpeningEvents => p.open \in Ids
    /\ p.alert = "recovered" => p.open = NoId /\ p.resolve \in Ids /\ Exists(p.resolve)
    /\ p.ptr # NoId => p.ptr = p.open \/ Exists(p.ptr)

Bare(p) == p.alert = "none" /\ p.open = NoId /\ p.ptr = NoId

LEMMA TransitionSound ==
    ASSUME inc \in [Ids -> Incident],
           NEW base \in Plan, Bare(base), base.kind \in {"check", "beat", "missed"},
           NEW ok \in BOOLEAN, NEW event \in OpeningEvents, NEW c \in Contexts
    PROVE  Sound(Transition(base, ok, event, c))
<1>. DEFINE t == Transition(base, ok, event, c)
<1>1. c.id \in Ids \cup {NoId} /\ c.flapping \in BOOLEAN /\ c.read \in BOOLEAN
  BY ContextType
<1>2. Active(inc) = NoId \/ (Active(inc) \in Ids /\ inc[Active(inc)].status = "open")
  BY ActiveFound
<1>3. CASE ~c.read
  <2>1. t = [base EXCEPT !.inc = FALSE]
    BY <1>3 DEF Transition
  <2>. QED BY <2>1 DEF Plan, Sound, Bare, OpeningEvents
<1>4. CASE c.read /\ ~ok /\ Active(inc) # NoId
  <2>1. t = [base EXCEPT !.ptr = Active(inc), !.observe = Active(inc)]
    BY <1>4 DEF Transition
  <2>. QED BY <2>1, <1>2, <1>4 DEF Plan, Sound, Bare, OpeningEvents, Exists
<1>5. CASE c.read /\ ~ok /\ Active(inc) = NoId
  <2>1. c.id \in Ids
    BY <1>1, <1>5, ContextType
  <2>2. PICK a \in OpeningEvents \cup {"none"}, s \in BOOLEAN :
           t = [base EXCEPT !.ptr = c.id, !.open = c.id, !.flapping = c.flapping, !.alert = a, !.settled = s]
    BY <1>5, <1>1, Zenon DEF Transition, OpeningEvents
  <2>. QED BY <2>1, <2>2 DEF Plan, Sound, Bare, OpeningEvents
<1>6. CASE c.read /\ ok /\ Active(inc) = NoId
  <2>1. t = base
    BY <1>6 DEF Transition
  <2>. QED BY <2>1 DEF Sound, Bare, OpeningEvents
<1>7. CASE c.read /\ ok /\ Active(inc) # NoId
  <2>1. PICK a \in {"recovered", "none"} : t = [base EXCEPT !.resolve = Active(inc), !.alert = a]
    BY <1>7, Zenon DEF Transition
  <2>. QED BY <2>1, <1>2, <1>7 DEF Plan, Sound, Bare, OpeningEvents, Exists
<1>. QED
  BY <1>1, <1>3, <1>4, <1>5, <1>6, <1>7

-----------------------------------------------------------------------------
(* The five plan operators. *)

LEMMA KeptPointer ==
    ASSUME NEW base \in Plan, Bare(base), NEW i \in Ids \cup {NoId}, i # NoId => Exists(i)
    PROVE  /\ [base EXCEPT !.ptr = i] \in Plan /\ Sound([base EXCEPT !.ptr = i])
           /\ [base EXCEPT !.resolve = i] \in Plan /\ Sound([base EXCEPT !.resolve = i])
           /\ Sound(base)
  BY DEF Plan, Sound, Bare, OpeningEvents, Exists

LEMMA CheckPlan ==
    ASSUME inc \in [Ids -> Incident], NEW cur \in Row, NEW known \in BOOLEAN,
           cur.ptr # NoId => Exists(cur.ptr),
           NEW out \in States, NEW c \in Contexts
    PROVE  planCheckResult(cur, known, out, c) \in Plan /\ Sound(planCheckResult(cur, known, out, c))
<1>. DEFINE base == [NoPlan EXCEPT !.kind = "check", !.state = out, !.inc = TRUE, !.line = TRUE]
<1>1. base \in Plan /\ Bare(base) /\ base.kind = "check"
  BY DEF NoPlan, Plan, Bare, States, Events, OpeningEvents
<1>2. CASE NeedsIncident(out, cur, known)
  <2>1. planCheckResult(cur, known, out, c) = Transition(base, Ok(out), "down", c)
    BY <1>2 DEF planCheckResult
  <2>2. Ok(out) \in BOOLEAN /\ "down" \in OpeningEvents
    BY DEF Ok, OpeningEvents
  <2>. QED BY <1>1, <2>1, <2>2, TransitionType, TransitionSound
<1>3. CASE ~NeedsIncident(out, cur, known)
  <2>1. \/ planCheckResult(cur, known, out, c) = [base EXCEPT !.resolve = cur.ptr]
        \/ planCheckResult(cur, known, out, c) = [base EXCEPT !.ptr = cur.ptr]
        \/ planCheckResult(cur, known, out, c) = base
    BY <1>3 DEF planCheckResult
  <2>2. cur.ptr \in Ids \cup {NoId}
    BY DEF Row
  <2>. HIDE DEF base
  <2>. QED BY <1>1, <2>1, <2>2, KeptPointer
<1>. QED BY <1>2, <1>3

LEMMA PausedPlan ==
    ASSUME NEW cur \in Row, NEW target \in Suppressing
    PROVE  planPausedState(cur, target) \in Plan /\ Sound(planPausedState(cur, target))
  BY DEF planPausedState, NoPlan, Plan, Sound, Row, Suppressing, States, Events, OpeningEvents

LEMMA WarmPlan ==
    ASSUME NEW now \in Nat
    PROVE  planWarmHeartbeat(now) \in Plan /\ Sound(planWarmHeartbeat(now))
  BY DEF planWarmHeartbeat, NoPlan, Plan, Sound, States, Events, OpeningEvents

LEMMA EmptyPlan == NoPlan \in Plan /\ Sound(NoPlan)
  BY DEF NoPlan, Plan, Sound, States, Events, OpeningEvents

LEMMA MissedPlan ==
    ASSUME inc \in [Ids -> Incident], NEW cur \in Row, NEW horizon \in Nat, NEW c \in Contexts
    PROVE  planHeartbeatMissed(cur, horizon, c) \in Plan /\ Sound(planHeartbeatMissed(cur, horizon, c))
<1>. DEFINE base == [NoPlan EXCEPT !.kind = "missed", !.state = "down", !.inc = TRUE,
                                   !.missed = TRUE, !.line = cur.state # "down"]
<1>1. base \in Plan /\ Bare(base) /\ base.kind = "missed"
  BY DEF NoPlan, Plan, Bare, States, Events, OpeningEvents
<1>2. \/ planHeartbeatMissed(cur, horizon, c) = NoPlan
      \/ planHeartbeatMissed(cur, horizon, c) = Transition(base, FALSE, "heartbeat_missed", c)
  BY DEF planHeartbeatMissed
<1>3. "heartbeat_missed" \in OpeningEvents
  BY DEF OpeningEvents
<1>. QED BY <1>1, <1>2, <1>3, EmptyPlan, TransitionType, TransitionSound

LEMMA BeatPlan ==
    ASSUME inc \in [Ids -> Incident], NEW cur \in Row, cur.ptr # NoId => Exists(cur.ptr),
           NEW out \in States, NEW now \in Nat, NEW suppressed \in BOOLEAN, NEW c \in Contexts
    PROVE  /\ planHeartbeat(cur, out, now, suppressed, c) \in Plan
           /\ Sound(planHeartbeat(cur, out, now, suppressed, c))
<1>. DEFINE base == [NoPlan EXCEPT !.kind = "beat", !.state = out, !.beat = now,
                                   !.inc = TRUE, !.line = TRUE]
<1>1. base \in Plan /\ Bare(base) /\ base.kind = "beat"
  BY DEF NoPlan, Plan, Bare, States, Events, OpeningEvents
<1>2. \/ planHeartbeat(cur, out, now, suppressed, c) = [base EXCEPT !.ptr = cur.ptr]
      \/ planHeartbeat(cur, out, now, suppressed, c) = Transition(base, Ok(out), "down", c)
  BY DEF planHeartbeat
<1>3. Ok(out) \in BOOLEAN /\ "down" \in OpeningEvents
  BY DEF Ok, OpeningEvents
<1>4. CASE planHeartbeat(cur, out, now, suppressed, c) = [base EXCEPT !.ptr = cur.ptr]
  <2>1. cur.ptr \in Ids \cup {NoId}
    BY DEF Row
  <2>. HIDE DEF base
  <2>. QED BY <1>1, <1>4, <2>1, KeptPointer
<1>5. CASE planHeartbeat(cur, out, now, suppressed, c) = Transition(base, Ok(out), "down", c)
  BY <1>1, <1>3, <1>5, TransitionType, TransitionSound
<1>. QED BY <1>2, <1>4, <1>5

-----------------------------------------------------------------------------
(* The store: incidents are never taken away, reopened or unmarked. *)

GrowsTo(a, b) ==
    \A i \in Ids : /\ a[i].status # "none" => b[i].status # "none"
                   /\ a[i].status = "resolved" => b[i].status = "resolved"
                   /\ a[i].status # "none" /\ a[i].notified => b[i].notified

\* AlertsAreTrue and AlertedIsNotified, of the alerts `al` and the incidents `m`.
AlertsOK(al, m) ==
    \A a \in al : /\ m[a[2]].status # "none"
                  /\ a[1] = "recovered" => m[a[2]].status = "resolved"
                  /\ a[1] \in OpeningEvents => m[a[2]].notified

LEMMA AlertsKept ==
    ASSUME NEW al \in SUBSET (Events \X Ids), NEW a, NEW b, AlertsOK(al, a), GrowsTo(a, b)
    PROVE  AlertsOK(al, b)
<1>1. \A x \in al : x[2] \in Ids
  OBVIOUS
<1>. QED BY <1>1 DEF AlertsOK, GrowsTo

LEMMA GrowsTransitive ==
    ASSUME NEW a, NEW b, NEW c, GrowsTo(a, b), GrowsTo(b, c)
    PROVE  GrowsTo(a, c)
  BY DEF GrowsTo

LEMMA MarkedGrows ==
    ASSUME NEW m \in [Ids -> Incident], NEW i \in Ids \cup {NoId}
    PROVE  /\ Marked(m, i) \in [Ids -> Incident]
           /\ GrowsTo(m, Marked(m, i))
           /\ i \in Ids /\ m[i].status # "none" => Marked(m, i)[i].notified
           /\ \A j \in Ids : Marked(m, i)[j].status = m[j].status
<1>1. CASE i \in Ids /\ m[i].status # "none"
  <2>1. Marked(m, i) = [m EXCEPT ![i].notified = TRUE]
    BY <1>1 DEF Marked
  <2>2. m[i] \in Incident /\ [m[i] EXCEPT !.notified = TRUE] \in Incident
    BY <1>1 DEF Incident
  <2>3. \A j \in Ids : Marked(m, i)[j] = IF j = i THEN [m[i] EXCEPT !.notified = TRUE] ELSE m[j]
    BY <2>1
  <2>4. Marked(m, i) \in [Ids -> Incident]
    BY <2>1, <2>2
  <2>. QED BY <1>1, <2>2, <2>3, <2>4 DEF GrowsTo, Incident
<1>2. CASE ~(i \in Ids /\ m[i].status # "none")
  <2>1. Marked(m, i) = m
    BY <1>2 DEF Marked
  <2>. QED BY <1>2, <2>1 DEF GrowsTo
<1>. QED BY <1>1, <1>2

LEMMA IncAfterGrows ==
    ASSUME inc \in [Ids -> Incident], NEW r, NEW s, NEW p \in Plan, ~Aborts(inc, p)
    PROVE  /\ IncAfter(inc, r, s, p) \in [Ids -> Incident]
           /\ GrowsTo(inc, IncAfter(inc, r, s, p))
           /\ p.open \in Ids => IncAfter(inc, r, s, p)[p.open].status # "none"
           /\ p.open = NoId /\ p.resolve \in Ids /\ Exists(p.resolve) /\ Lands(r, s, p)
              => IncAfter(inc, r, s, p)[p.resolve].status = "resolved"
<1>. DEFINE m == IncAfter(inc, r, s, p)
<1>1. p.open \in Ids => inc[p.open].status = "none"
  BY NullAssumption DEF Aborts
<1>2. p.missed \in BOOLEAN /\ p.flapping \in BOOLEAN /\ p.settled \in BOOLEAN
  BY DEF Plan
<1>3. \A i \in Ids :
         m[i] = IF i = p.open
                THEN [status |-> "open", notified |-> p.settled, flapping |-> p.flapping, missed |-> p.missed]
                ELSE IF i = p.resolve /\ inc[i].status = "open" /\ Lands(r, s, p)
                THEN [inc[i] EXCEPT !.status = "resolved"]
                ELSE IF i = p.observe THEN [inc[i] EXCEPT !.missed = p.missed]
                ELSE inc[i]
  BY DEF IncAfter
<1>4. m = [i \in Ids |-> m[i]]
  BY DEF IncAfter
<1>6. \A i \in Ids : inc[i] \in Incident
  OBVIOUS
<1>. HIDE DEF m
<1>10. \A i \in Ids : m[i] \in Incident
  <2>. TAKE i \in Ids
  <2>1. [inc[i] EXCEPT !.status = "resolved"] \in Incident /\ [inc[i] EXCEPT !.missed = p.missed] \in Incident
    BY <1>2, <1>6 DEF Incident
  <2>2. [status |-> "open", notified |-> p.settled, flapping |-> p.flapping, missed |-> p.missed] \in Incident
    BY <1>2 DEF Incident
  <2>. QED BY <1>3, <1>6, <2>1, <2>2
<1>5. m \in [Ids -> Incident]
  BY <1>4, <1>10
<1>7. GrowsTo(inc, m)
  <2>. SUFFICES ASSUME NEW i \in Ids
                PROVE  /\ inc[i].status # "none" => m[i].status # "none"
                       /\ inc[i].status = "resolved" => m[i].status = "resolved"
                       /\ inc[i].status # "none" /\ inc[i].notified => m[i].notified
    BY DEF GrowsTo
  <2>1. CASE i = p.open
    BY <1>1, <2>1
  <2>2. CASE i # p.open
    BY <1>3, <1>6, <2>2 DEF Incident
  <2>. QED BY <2>1, <2>2
<1>8. p.open \in Ids => m[p.open].status # "none"
  <2>. SUFFICES ASSUME p.open \in Ids PROVE m[p.open].status # "none"
    OBVIOUS
  <2>1. m[p.open] = [status |-> "open", notified |-> p.settled, flapping |-> p.flapping, missed |-> p.missed]
    BY <1>3
  <2>. QED BY <2>1
<1>9. p.open = NoId /\ p.resolve \in Ids /\ Exists(p.resolve) /\ Lands(r, s, p) => m[p.resolve].status = "resolved"
  <2>. SUFFICES ASSUME p.open = NoId, p.resolve \in Ids, Exists(p.resolve), Lands(r, s, p)
                PROVE  m[p.resolve].status = "resolved"
    OBVIOUS
  <2>1. p.resolve # p.open /\ inc[p.resolve] \in Incident
    BY <1>6, NullAssumption
  <2>2. CASE inc[p.resolve].status = "open"
    <3>1. m[p.resolve] = [inc[p.resolve] EXCEPT !.status = "resolved"]
      BY <1>3, <2>1, <2>2
    <3>. QED BY <2>1, <3>1 DEF Incident
  <2>3. CASE inc[p.resolve].status = "resolved"
    <3>1. m[p.resolve] = inc[p.resolve] \/ m[p.resolve] = [inc[p.resolve] EXCEPT !.missed = p.missed]
      BY <1>3, <2>1, <2>3
    <3>. QED BY <2>1, <2>3, <3>1 DEF Incident
  <2>. QED BY <2>1, <2>2, <2>3 DEF Exists, Incident
<1>. QED BY <1>5, <1>7, <1>8, <1>9 DEF m

LEMMA AlertQueued ==
    ASSUME NEW al \in SUBSET (Events \X Ids), NEW m \in [Ids -> Incident], AlertsOK(al, m),
           NEW p \in Plan, Sound(p),
           p.open \in Ids => m[p.open].status # "none",
           p.alert = "recovered" => m[p.resolve].status = "resolved"
    PROVE  /\ AlertsAfter(al, p) \in SUBSET (Events \X Ids)
           /\ MarkedByAlert(m, p) \in [Ids -> Incident]
           /\ GrowsTo(m, MarkedByAlert(m, p))
           /\ AlertsOK(AlertsAfter(al, p), MarkedByAlert(m, p))
           /\ \A j \in Ids : MarkedByAlert(m, p)[j].status = m[j].status
<1>1. CASE p.alert = "none"
  BY <1>1 DEF AlertsAfter, MarkedByAlert, GrowsTo
<1>2. CASE p.alert # "none"
  <2>1. p.open \in Ids \cup {NoId} /\ p.resolve \in Ids \cup {NoId} /\ p.alert \in Events
    BY <1>2 DEF Plan
  <2>2. AlertsAfter(al, p) = al \cup {<<p.alert, Subject(p)>>} /\ MarkedByAlert(m, p) = Marked(m, p.open)
    BY <1>2 DEF AlertsAfter, MarkedByAlert
  <2>3. Subject(p) \in Ids /\ m[Subject(p)].status # "none"
    BY <2>1, NullAssumption DEF Subject, Sound, Events, OpeningEvents
  <2>4. p.alert \in OpeningEvents => Subject(p) = p.open
    BY NullAssumption DEF Sound, Subject
  <2>5. p.alert = "recovered" => Subject(p) = p.resolve
    BY DEF Sound, Subject
  <2>6. AlertsOK(al, Marked(m, p.open))
    BY <2>1, MarkedGrows, AlertsKept
  <2>7. AlertsOK({<<p.alert, Subject(p)>>}, Marked(m, p.open))
    <3>1. p.alert \in OpeningEvents => Marked(m, p.open)[Subject(p)].notified
      BY <2>1, <2>3, <2>4, MarkedGrows
    <3>2. Marked(m, p.open)[Subject(p)].status = m[Subject(p)].status
      BY <2>1, <2>3, MarkedGrows
    <3>. QED BY <2>3, <2>5, <3>1, <3>2 DEF AlertsOK
  <2>8. AlertsOK(AlertsAfter(al, p), MarkedByAlert(m, p))
    BY <2>2, <2>6, <2>7 DEF AlertsOK
  <2>. QED BY <2>1, <2>2, <2>3, <2>8, MarkedGrows
<1>. QED BY <1>1, <1>2

LEMMA RepairQueued ==
    ASSUME NEW al \in SUBSET (Events \X Ids), NEW m \in [Ids -> Incident], AlertsOK(al, m),
           NEW rep \in [id : Ids \cup {NoId}, event : OpeningEvents \cup {"none"}],
           rep.event # "none" => rep.id \in Ids /\ m[rep.id].status # "none"
    PROVE  /\ WithRepair(al, rep) \in SUBSET (Events \X Ids)
           /\ AlertsOK(WithRepair(al, rep), Marked(m, rep.id))
<1>1. AlertsOK(al, Marked(m, rep.id))
  BY MarkedGrows, AlertsKept
<1>2. CASE rep.event = "none"
  BY <1>1, <1>2 DEF WithRepair
<1>3. CASE rep.event # "none"
  <2>1. WithRepair(al, rep) = al \cup {<<rep.event, rep.id>>}
    BY <1>3 DEF WithRepair
  <2>2. rep.event \in OpeningEvents /\ rep.event # "recovered" /\ rep.event \in Events
    BY <1>3 DEF OpeningEvents, Events
  <2>3. Marked(m, rep.id)[rep.id].notified /\ Marked(m, rep.id)[rep.id].status # "none"
    BY <1>3, MarkedGrows
  <2>4. AlertsOK({<<rep.event, rep.id>>}, Marked(m, rep.id))
    BY <2>2, <2>3 DEF AlertsOK
  <2>. QED BY <1>1, <1>3, <2>1, <2>2, <2>4 DEF AlertsOK
<1>. QED BY <1>2, <1>3

-----------------------------------------------------------------------------
(* The inductive invariant. *)

Landed(w) ==
    /\ plan[w].open # NoId => Exists(plan[w].open)
    /\ plan[w].alert = "recovered" => inc[plan[w].resolve].status = "resolved"

(* What an actor carries between two round trips stays true of the store,   *)
(* whatever the other actors write meanwhile.                               *)
ActorOK(w) ==
    /\ snap[w].ptr # NoId => Exists(snap[w].ptr)
    /\ Sound(plan[w])
    /\ repair[w].event # "none" => repair[w].id \in Ids /\ Exists(repair[w].id)
    /\ pc[w] = "alert" => Landed(w)

IInv ==
    /\ TypeOK
    /\ PointerIsKnown
    /\ AlertsOK(alerts, inc)
    /\ \A w \in Writers : ActorOK(w)

StoreType ==
    /\ row \in Row
    /\ inc \in [Ids -> Incident]
    /\ alerts \subseteq Events \X Ids
    /\ line \in States \cup {"none"}

WorldType ==
    /\ lease \in Runs \cup {NoId} /\ live \in BOOLEAN
    /\ enabled \in BOOLEAN /\ maint \in BOOLEAN /\ active \in BOOLEAN
    /\ health \in {"up", "down", "suspended", "cant_check"}
    /\ clock \in Nat /\ stale \in Nat /\ faults \in Nat

ActorType ==
    /\ pc \in [Writers -> PCs]
    /\ work \in [Writers -> Works]
    /\ snap \in [Writers -> Row]
    /\ at \in [Writers -> Nat]
    /\ outcome \in [Writers -> States]
    /\ plan \in [Writers -> Plan]
    /\ repair \in [Writers -> [id : Ids \cup {NoId}, event : OpeningEvents \cup {"none"}]]

LEMMA TypeParts == TypeOK <=> StoreType /\ WorldType /\ ActorType
  BY DEF TypeOK, StoreType, WorldType, ActorType

\* What a batch leaves behind, when it commits and when it does not.
StoreOK == StoreType /\ PointerIsKnown /\ AlertsOK(alerts, inc)

LEMMA Quiet ==
    ASSUME StoreOK, UNCHANGED db
    PROVE  StoreOK' /\ GrowsTo(inc, inc')
  BY DEF StoreOK, StoreType, PointerIsKnown, AlertsOK, GrowsTo, db

\* The monitor_state update keeps the row's type and points to what exists.
LEMMA RowWritten ==
    ASSUME StoreType, PointerIsKnown, NEW s \in Row, NEW w \in Writers, NEW p \in Plan,
           NEW with \in BOOLEAN, Sound(p), NEW m, GrowsTo(inc, m),
           with /\ p.open # NoId => m[p.open].status # "none"
    PROVE  /\ RowAfter(row, s, w, p, with) \in Row
           /\ RowAfter(row, s, w, p, with).ptr # NoId
              => m[RowAfter(row, s, w, p, with).ptr].status # "none"
<1>. DEFINE after == RowAfter(row, s, w, p, with)
<1>1. /\ row.ptr \in Ids \cup {NoId} /\ row.beat \in Nat /\ row.state \in States
      /\ p.ptr \in Ids \cup {NoId} /\ p.beat \in Nat /\ p.state \in States
      /\ row.by \in Writers \cup {NoId}
  BY DEF StoreType, Row, Plan
<1>2. row.ptr # NoId => m[row.ptr].status # "none"
  BY <1>1 DEF PointerIsKnown, GrowsTo
<1>3. with /\ p.ptr # NoId => m[p.ptr].status # "none"
  BY <1>1 DEF Sound, Exists, GrowsTo
<1>4. \/ after = row
      \/ after = [row EXCEPT !.by = w]
      \/ \E b \in {row.beat, p.beat} : after = [state |-> p.state, beat |-> b, ptr |-> row.ptr, by |-> w]
      \/ with /\ \E b \in {row.beat, p.beat} : after = [state |-> p.state, beat |-> b, ptr |-> p.ptr, by |-> w]
  BY Zenon DEF RowAfter
<1>. HIDE DEF after
<1>5. after \in Row /\ after.ptr \in {row.ptr, p.ptr} /\ (~with => after.ptr = row.ptr)
  BY <1>1, <1>4 DEF StoreType, Row
<1>. QED BY <1>2, <1>3, <1>5 DEF after

\* The interval unit stores a known state.
LEMMA LineWritten ==
    ASSUME StoreType, NEW r, NEW w, NEW p \in Plan
    PROVE  LineAfter(line, r, w, p) \in States \cup {"none"}
  BY DEF LineAfter, StoreType, Plan

\* A group whose core commits gives its alert unit what it announces.
LEMMA CoreLands ==
    ASSUME StoreType, NEW w \in Writers, plan[w] \in Plan, Sound(plan[w]), ~Aborts(inc, plan[w])
    PROVE  LET m == IncAfter(inc, row, snap[w], plan[w]) IN
           /\ m \in [Ids -> Incident] /\ GrowsTo(inc, m)
           /\ plan[w].open \in Ids => m[plan[w].open].status # "none"
           /\ plan[w].alert = "recovered" => m[plan[w].resolve].status = "resolved"
<1>1. plan[w].alert = "recovered" =>
         /\ plan[w].open = NoId /\ plan[w].resolve \in Ids /\ Exists(plan[w].resolve)
         /\ Lands(row, snap[w], plan[w])
  BY DEF Sound, Lands
<1>. QED BY <1>1, IncAfterGrows DEF StoreType

LEMMA CoreWritten ==
    ASSUME StoreOK, NEW w \in Writers, plan[w] \in Plan, snap[w] \in Row, Sound(plan[w]),
           ~Aborts(inc, plan[w]), WriteCore(w)
    PROVE  /\ StoreOK' /\ GrowsTo(inc, inc')
           /\ plan[w].open # NoId => inc'[plan[w].open].status # "none"
           /\ plan[w].alert = "recovered" => inc'[plan[w].resolve].status = "resolved"
<1>1. /\ inc' \in [Ids -> Incident] /\ GrowsTo(inc, inc')
      /\ plan[w].open \in Ids => inc'[plan[w].open].status # "none"
      /\ plan[w].alert = "recovered" => inc'[plan[w].resolve].status = "resolved"
  BY CoreLands DEF StoreOK, WriteCore
<1>2. plan[w].open # NoId => inc'[plan[w].open].status # "none"
  BY <1>1 DEF Plan
<1>3. row' \in Row /\ (row'.ptr # NoId => inc'[row'.ptr].status # "none")
  BY <1>1, <1>2, RowWritten DEF StoreOK, WriteCore
<1>4. AlertsOK(alerts, inc')
  BY <1>1, AlertsKept DEF StoreOK, StoreType
<1>. QED BY <1>1, <1>2, <1>3, <1>4 DEF StoreOK, StoreType, PointerIsKnown, WriteCore, AlertsOK

LEMMA FallbackWritten ==
    ASSUME StoreOK, NEW w \in Writers, plan[w] \in Plan, snap[w] \in Row, Sound(plan[w]),
           WriteFallback(w)
    PROVE  StoreOK' /\ GrowsTo(inc, inc')
<1>1. GrowsTo(inc, inc)
  BY DEF GrowsTo
<1>2. row' \in Row /\ (row'.ptr # NoId => inc[row'.ptr].status # "none")
  BY <1>1, RowWritten DEF StoreOK, WriteFallback
<1>. QED BY <1>1, <1>2 DEF StoreOK, StoreType, PointerIsKnown, WriteFallback, AlertsOK

LEMMA AlertWritten ==
    ASSUME StoreOK, NEW w \in Writers, plan[w] \in Plan, Sound(plan[w]), Landed(w), WriteAlert(w)
    PROVE  StoreOK' /\ GrowsTo(inc, inc')
<1>1. /\ alerts' \in SUBSET (Events \X Ids) /\ inc' \in [Ids -> Incident]
      /\ GrowsTo(inc, inc') /\ AlertsOK(alerts', inc')
  <2>1. plan[w].open \in Ids => inc[plan[w].open].status # "none"
    BY NullAssumption DEF Landed, Exists
  <2>2. plan[w].alert = "recovered" => inc[plan[w].resolve].status = "resolved"
    BY DEF Landed
  <2>. QED BY <2>1, <2>2, AlertQueued DEF StoreOK, StoreType, WriteAlert
<1>2. row.ptr # NoId => inc'[row.ptr].status # "none"
  BY <1>1 DEF StoreOK, StoreType, Row, PointerIsKnown, GrowsTo
<1>. QED BY <1>1, <1>2 DEF StoreOK, StoreType, PointerIsKnown, WriteAlert, AlertsOK

LEMMA LineIsWritten ==
    ASSUME StoreOK, NEW w \in Writers, plan[w] \in Plan, WriteLine(w)
    PROVE  StoreOK' /\ GrowsTo(inc, inc')
<1>1. line' \in States \cup {"none"}
  BY LineWritten DEF StoreOK, WriteLine
<1>. QED BY <1>1 DEF StoreOK, StoreType, PointerIsKnown, WriteLine, AlertsOK, GrowsTo

LEMMA RepairWritten ==
    ASSUME StoreOK, NEW w \in Writers,
           repair[w] \in [id : Ids \cup {NoId}, event : OpeningEvents \cup {"none"}],
           repair[w].event # "none" => repair[w].id \in Ids /\ Exists(repair[w].id),
           WriteRepair(w)
    PROVE  StoreOK' /\ GrowsTo(inc, inc')
<1>1. alerts' \in SUBSET (Events \X Ids) /\ AlertsOK(alerts', inc')
  BY RepairQueued DEF StoreOK, StoreType, WriteRepair, Exists
<1>2. inc' \in [Ids -> Incident] /\ GrowsTo(inc, inc')
  BY MarkedGrows DEF StoreOK, StoreType, WriteRepair
<1>3. row.ptr # NoId => inc'[row.ptr].status # "none"
  BY <1>2 DEF StoreOK, StoreType, Row, PointerIsKnown, GrowsTo
<1>. QED BY <1>1, <1>2, <1>3 DEF StoreOK, StoreType, PointerIsKnown, WriteRepair, AlertsOK

LEMMA GroupWritten ==
    ASSUME StoreOK, NEW w \in Writers, plan[w] \in Plan, snap[w] \in Row, Sound(plan[w]),
           ~Aborts(inc, plan[w]), WriteGroup(w)
    PROVE  StoreOK' /\ GrowsTo(inc, inc')
<1>. DEFINE m == IncAfter(inc, row, snap[w], plan[w])
<1>1. /\ m \in [Ids -> Incident] /\ GrowsTo(inc, m)
      /\ plan[w].open \in Ids => m[plan[w].open].status # "none"
      /\ plan[w].alert = "recovered" => m[plan[w].resolve].status = "resolved"
  BY CoreLands DEF StoreOK
<1>2. inc' = MarkedByAlert(m, plan[w]) /\ alerts' = AlertsAfter(alerts, plan[w])
  BY DEF WriteGroup
<1>. HIDE DEF m
<1>3. AlertsOK(alerts, m)
  BY <1>1, AlertsKept DEF StoreOK, StoreType
<1>4. /\ alerts' \in SUBSET (Events \X Ids) /\ inc' \in [Ids -> Incident]
      /\ GrowsTo(m, inc') /\ AlertsOK(alerts', inc')
      /\ \A j \in Ids : inc'[j].status = m[j].status
  BY <1>1, <1>2, <1>3, AlertQueued DEF StoreOK, StoreType
<1>5. GrowsTo(inc, inc')
  BY <1>1, <1>4, GrowsTransitive
<1>6. plan[w].open # NoId => inc'[plan[w].open].status # "none"
  BY <1>1, <1>4 DEF Plan
<1>7. row' \in Row /\ (row'.ptr # NoId => inc'[row'.ptr].status # "none")
  BY <1>5, <1>6, RowWritten DEF StoreOK, WriteGroup
<1>8. line' \in States \cup {"none"}
  BY LineWritten DEF StoreOK, WriteGroup
<1>. QED BY <1>4, <1>5, <1>7, <1>8 DEF StoreOK, StoreType, PointerIsKnown, AlertsOK

LEMMA WholeWritten ==
    ASSUME StoreOK, NEW w \in Writers, plan[w] \in Plan, snap[w] \in Row, Sound(plan[w]),
           ~Aborts(inc, plan[w]),
           repair[w] \in [id : Ids \cup {NoId}, event : OpeningEvents \cup {"none"}],
           repair[w].event # "none" => repair[w].id \in Ids /\ Exists(repair[w].id),
           WriteWhole(w)
    PROVE  StoreOK' /\ GrowsTo(inc, inc')
<1>. DEFINE m == IncAfter(inc, row, snap[w], plan[w])
            n == MarkedByAlert(m, plan[w])
<1>1. /\ m \in [Ids -> Incident] /\ GrowsTo(inc, m)
      /\ plan[w].open \in Ids => m[plan[w].open].status # "none"
      /\ plan[w].alert = "recovered" => m[plan[w].resolve].status = "resolved"
  BY CoreLands DEF StoreOK
<1>2. inc' = Marked(n, repair[w].id) /\ alerts' = WithRepair(AlertsAfter(alerts, plan[w]), repair[w])
  BY DEF WriteWhole
<1>. HIDE DEF m
<1>3. AlertsOK(alerts, m)
  BY <1>1, AlertsKept DEF StoreOK, StoreType
<1>4. /\ AlertsAfter(alerts, plan[w]) \in SUBSET (Events \X Ids) /\ n \in [Ids -> Incident]
      /\ GrowsTo(m, n) /\ AlertsOK(AlertsAfter(alerts, plan[w]), n)
      /\ \A j \in Ids : n[j].status = m[j].status
  BY <1>1, <1>3, AlertQueued DEF StoreOK, StoreType
<1>. HIDE DEF n
<1>5. repair[w].event # "none" => repair[w].id \in Ids /\ n[repair[w].id].status # "none"
  BY <1>1, <1>4 DEF Exists, GrowsTo
<1>6. alerts' \in SUBSET (Events \X Ids) /\ AlertsOK(alerts', inc')
  BY <1>2, <1>4, <1>5, RepairQueued
<1>7. inc' \in [Ids -> Incident] /\ GrowsTo(n, inc')
  BY <1>2, <1>4, MarkedGrows
<1>8. GrowsTo(inc, inc') /\ GrowsTo(m, inc')
  BY <1>1, <1>4, <1>7, GrowsTransitive
<1>9. plan[w].open # NoId => inc'[plan[w].open].status # "none"
  BY <1>1, <1>8 DEF Plan, GrowsTo
<1>10. row' \in Row /\ (row'.ptr # NoId => inc'[row'.ptr].status # "none")
  BY <1>8, <1>9, RowWritten DEF StoreOK, WriteWhole
<1>11. line' \in States \cup {"none"}
  BY LineWritten DEF StoreOK, WriteWhole
<1>. QED BY <1>6, <1>7, <1>8, <1>10, <1>11 DEF StoreOK, StoreType, PointerIsKnown, AlertsOK

-----------------------------------------------------------------------------
(* What a step does to the actors. *)

LEMMA Parts == IInv <=> StoreOK /\ WorldType /\ ActorType /\ \A w \in Writers : ActorOK(w)
  BY TypeParts DEF IInv, StoreOK

LEMMA PartsNext ==
    ASSUME StoreOK', WorldType', ActorType', \A w \in Writers : ActorOK(w)'
    PROVE  IInv'
  BY DEF IInv, TypeOK, StoreOK, StoreType, WorldType, ActorType

\* An actor that keeps its plan is not disturbed by what the others write.
LEMMA Undisturbed ==
    ASSUME IInv, GrowsTo(inc, inc'), NEW v \in Writers,
           snap'[v] = snap[v], plan'[v] = plan[v], repair'[v] = repair[v],
           pc'[v] = "alert" => pc[v] = "alert" \/ Landed(v)'
    PROVE  ActorOK(v)'
<1>1. /\ plan[v] \in Plan /\ snap[v] \in Row /\ ActorOK(v)
      /\ repair[v] \in [id : Ids \cup {NoId}, event : OpeningEvents \cup {"none"}]
  BY Parts DEF ActorType
<1>2. /\ snap[v].ptr \in Ids \cup {NoId} /\ plan[v].ptr \in Ids \cup {NoId}
      /\ plan[v].open \in Ids \cup {NoId} /\ plan[v].resolve \in Ids \cup {NoId}
  BY <1>1 DEF Row, Plan
<1>3. Sound(plan[v])'
  BY <1>1, <1>2 DEF ActorOK, Sound, Exists, GrowsTo
<1>4. pc[v] = "alert" => Landed(v)'
  BY <1>1, <1>2 DEF ActorOK, Sound, Landed, Exists, GrowsTo
<1>5. /\ (snap[v].ptr # NoId => Exists(snap[v].ptr))'
      /\ (repair[v].event # "none" => repair[v].id \in Ids /\ Exists(repair[v].id))'
  BY <1>1, <1>2 DEF ActorOK, Exists, GrowsTo
<1>. QED BY <1>3, <1>4, <1>5 DEF ActorOK

LEMMA Gone ==
    ASSUME IInv, GrowsTo(inc, inc'), NEW w \in Writers, NEW n \in PCs, Goes(w, n),
           n = "alert" => Landed(w)'
    PROVE  ActorType' /\ \A v \in Writers : ActorOK(v)'
<1>1. ActorType'
  BY Parts DEF Goes, ActorType
<1>2. ASSUME NEW v \in Writers PROVE ActorOK(v)'
  <2>1. pc'[v] = "alert" => pc[v] = "alert" \/ Landed(v)'
    BY Parts DEF Goes, ActorType
  <2>. QED BY <2>1, Undisturbed DEF Goes
<1>. QED BY <1>1, <1>2

LEMMA Ended ==
    ASSUME IInv, GrowsTo(inc, inc'), NEW w \in Writers, Reset(w)
    PROVE  ActorType' /\ \A v \in Writers : ActorOK(v)'
<1>1. ActorType'
  BY Parts, NewRowType, NoPlanType DEF Reset, ActorType, PCs, Works, States, NoRepair
<1>2. ASSUME NEW v \in Writers, v # w PROVE ActorOK(v)'
  BY <1>2, Parts, Undisturbed DEF Reset, ActorType
<1>3. ActorOK(w)'
  <2>1. /\ snap'[w] = NewRow /\ plan'[w] = NoPlan /\ repair'[w] = NoRepair /\ pc'[w] = "idle"
    BY Parts DEF Reset, ActorType
  <2>2. Sound(plan[w])'
    BY <2>1 DEF Sound, NoPlan, OpeningEvents
  <2>. QED BY <2>1, <2>2 DEF ActorOK, NewRow, NoRepair
<1>. QED BY <1>1, <1>2, <1>3

LEMMA GroupEnded ==
    ASSUME IInv, GrowsTo(inc, inc'), NEW w \in Writers, GroupDone(w)
    PROVE  ActorType' /\ \A v \in Writers : ActorOK(v)'
<1>1. CASE Reset(w)
  BY <1>1, Ended
<1>2. CASE ~Reset(w)
  <2>1. PICK n \in {"finish", "repair"} : Goes(w, n)
    BY <1>2 DEF GroupDone, Goes
  <2>. QED BY <2>1, Gone DEF PCs
<1>. QED BY <1>1, <1>2

\* What the write actions use of the invariant.
LEMMA WriterReady ==
    ASSUME IInv, NEW w \in Writers
    PROVE  /\ StoreOK /\ plan[w] \in Plan /\ snap[w] \in Row /\ Sound(plan[w])
           /\ repair[w] \in [id : Ids \cup {NoId}, event : OpeningEvents \cup {"none"}]
           /\ repair[w].event # "none" => repair[w].id \in Ids /\ Exists(repair[w].id)
           /\ pc[w] = "alert" => Landed(w)
  BY Parts DEF ActorType, ActorOK

\* Every write leaves the environment, the locks and the clocks alone.
LEMMA FaultSpent ==
    ASSUME WorldType, UNCHANGED <<locks, world, time>>,
           UNCHANGED faults \/ (faults > 0 /\ faults' = faults - 1)
    PROVE  WorldType'
  BY DEF WorldType, locks, world, time

-----------------------------------------------------------------------------
(* One lemma per write action. *)

LEMMA EverythingKeeps ==
    ASSUME IInv, NEW w \in Writers, NEW here, NEW next \in SUBSET (PCs \ {"alert"}),
           Everything(w, here, next)
    PROVE  IInv'
<1>1. StoreOK' /\ GrowsTo(inc, inc')
  <2>1. CASE UNCHANGED db
    BY <2>1, WriterReady, Quiet
  <2>2. CASE ~Aborts(inc, plan[w]) /\ WriteWhole(w)
    BY <2>2, WriterReady, WholeWritten
  <2>. QED BY <2>1, <2>2 DEF Everything, Fails
<1>2. WorldType'
  BY Parts, FaultSpent DEF Everything, Fails
<1>3. ActorType' /\ \A v \in Writers : ActorOK(v)'
  <2>1. CASE Reset(w)
    BY <1>1, <2>1, Ended
  <2>2. CASE \E n \in next : Goes(w, n)
    BY <1>1, <2>2, Gone
  <2>3. CASE Goes(w, "finish")
    BY <1>1, <2>3, Gone DEF PCs
  <2>. QED BY <2>1, <2>2, <2>3 DEF Everything
<1>. QED BY <1>1, <1>2, <1>3, PartsNext

LEMMA AloneKeeps ==
    ASSUME IInv, NEW w \in Writers, Alone(w)
    PROVE  IInv'
<1>1. StoreOK' /\ GrowsTo(inc, inc')
  <2>1. CASE UNCHANGED db
    BY <2>1, WriterReady, Quiet
  <2>2. CASE ~Aborts(inc, plan[w]) /\ WriteGroup(w)
    BY <2>2, WriterReady, GroupWritten
  <2>. QED BY <2>1, <2>2 DEF Alone, Fails
<1>2. WorldType'
  BY Parts, FaultSpent DEF Alone, Fails
<1>3. ActorType' /\ \A v \in Writers : ActorOK(v)'
  <2>1. CASE GroupDone(w)
    BY <1>1, <2>1, GroupEnded
  <2>2. CASE Goes(w, "core")
    BY <1>1, <2>2, Gone DEF PCs
  <2>. QED BY <2>1, <2>2 DEF Alone
<1>. QED BY <1>1, <1>2, <1>3, PartsNext

LEMMA CoreKeeps ==
    ASSUME IInv, NEW w \in Writers, Core(w)
    PROVE  IInv'
<1>1. StoreOK' /\ GrowsTo(inc, inc')
  <2>1. CASE UNCHANGED db
    BY <2>1, WriterReady, Quiet
  <2>2. CASE ~Aborts(inc, plan[w]) /\ WriteCore(w)
    BY <2>2, WriterReady, CoreWritten
  <2>. QED BY <2>1, <2>2 DEF Core, Fails
<1>2. WorldType'
  BY Parts, FaultSpent DEF Core, Fails
<1>3. ActorType' /\ \A v \in Writers : ActorOK(v)'
  <2>1. CASE ~Aborts(inc, plan[w]) /\ WriteCore(w) /\ Goes(w, "alert")
    <3>1. /\ plan[w].open # NoId => inc'[plan[w].open].status # "none"
          /\ plan[w].alert = "recovered" => inc'[plan[w].resolve].status = "resolved"
      BY <2>1, WriterReady, CoreWritten
    <3>2. Landed(w)'
      BY <2>1, <3>1 DEF Landed, Exists, Goes
    <3>. QED BY <1>1, <2>1, <3>2, Gone DEF PCs
  <2>2. CASE CoreFailed(w)
    <3>1. CASE GroupDone(w)
      BY <1>1, <3>1, GroupEnded
    <3>2. CASE Goes(w, "fallback")
      BY <1>1, <3>2, Gone DEF PCs
    <3>. QED BY <2>2, <3>1, <3>2 DEF CoreFailed
  <2>. QED BY <2>1, <2>2 DEF Core
<1>. QED BY <1>1, <1>2, <1>3, PartsNext

LEMMA AlertKeeps ==
    ASSUME IInv, NEW w \in Writers, Alert(w)
    PROVE  IInv'
<1>1. StoreOK' /\ GrowsTo(inc, inc')
  <2>1. CASE UNCHANGED db
    BY <2>1, WriterReady, Quiet
  <2>2. CASE WriteAlert(w)
    BY <2>2, WriterReady, AlertWritten DEF Alert
  <2>. QED BY <2>1, <2>2 DEF Alert, Fails
<1>2. WorldType'
  BY Parts, FaultSpent DEF Alert, Fails
<1>3. ActorType' /\ \A v \in Writers : ActorOK(v)'
  BY <1>1, Gone DEF Alert, PCs
<1>. QED BY <1>1, <1>2, <1>3, PartsNext

LEMMA FallbackKeeps ==
    ASSUME IInv, NEW w \in Writers, Fallback(w)
    PROVE  IInv'
<1>1. StoreOK' /\ GrowsTo(inc, inc')
  <2>1. CASE UNCHANGED db
    BY <2>1, WriterReady, Quiet
  <2>2. CASE WriteFallback(w)
    BY <2>2, WriterReady, FallbackWritten
  <2>. QED BY <2>1, <2>2 DEF Fallback, Fails
<1>2. WorldType'
  BY Parts, FaultSpent DEF Fallback, Fails
<1>3. ActorType' /\ \A v \in Writers : ActorOK(v)'
  <2>1. CASE GroupDone(w)
    BY <1>1, <2>1, GroupEnded
  <2>2. CASE Goes(w, "extras")
    BY <1>1, <2>2, Gone DEF PCs
  <2>. QED BY <2>1, <2>2 DEF Fallback
<1>. QED BY <1>1, <1>2, <1>3, PartsNext

LEMMA ExtrasKeeps ==
    ASSUME IInv, NEW w \in Writers, Extras(w)
    PROVE  IInv'
<1>1. StoreOK' /\ GrowsTo(inc, inc')
  <2>1. CASE UNCHANGED db
    BY <2>1, WriterReady, Quiet
  <2>2. CASE WriteLine(w)
    BY <2>2, WriterReady, LineIsWritten
  <2>. QED BY <2>1, <2>2 DEF Extras, Fails
<1>2. WorldType'
  BY Parts, FaultSpent DEF Extras, Fails
<1>3. ActorType' /\ \A v \in Writers : ActorOK(v)'
  BY <1>1, GroupEnded DEF Extras
<1>. QED BY <1>1, <1>2, <1>3, PartsNext

LEMMA RepairKeeps ==
    ASSUME IInv, NEW w \in Writers, Repair(w)
    PROVE  IInv'
<1>1. StoreOK' /\ GrowsTo(inc, inc')
  <2>1. CASE UNCHANGED db
    BY <2>1, WriterReady, Quiet
  <2>2. CASE WriteRepair(w)
    BY <2>2, WriterReady, RepairWritten
  <2>. QED BY <2>1, <2>2 DEF Repair, Fails
<1>2. WorldType'
  BY Parts, FaultSpent DEF Repair, Fails
<1>3. ActorType' /\ \A v \in Writers : ActorOK(v)'
  BY <1>1, Gone DEF Repair, PCs
<1>. QED BY <1>1, <1>2, <1>3, PartsNext

-----------------------------------------------------------------------------
(* The actions that write no row: what happens around a monitor, and what   *)
(* an actor reads and plans.                                                *)

LEMMA StoreKept ==
    ASSUME IInv, UNCHANGED db
    PROVE  StoreOK' /\ GrowsTo(inc, inc')
  BY Parts, Quiet

LEMMA EnvironmentKeeps ==
    ASSUME IInv, Environment
    PROVE  IInv'
<1>1. UNCHANGED db /\ UNCHANGED local
  BY DEF Environment, SetMaintenance, SetPaused, ScheduleTurns, HealthTurns, DeadlinePasses, LeaseExpires
<1>2. WorldType'
  <2>1. WorldType
    BY Parts
  <2>2. CASE SetMaintenance \/ SetPaused \/ ScheduleTurns
    BY <2>1, <2>2, Zenon DEF WorldType, SetMaintenance, SetPaused, ScheduleTurns, locks, time
  <2>4. CASE DeadlinePasses
    BY <2>1, <2>4 DEF WorldType, DeadlinePasses, locks, world
  <2>5. CASE LeaseExpires
    BY <2>1, <2>5 DEF WorldType, LeaseExpires, world, time
  <2>3. CASE HealthTurns
    BY <2>1, <2>3, Zenon DEF WorldType, HealthTurns, Healths, locks, world, time
  <2>. QED BY <2>2, <2>3, <2>4, <2>5 DEF Environment
<1>3. StoreOK' /\ GrowsTo(inc, inc')
  BY <1>1, StoreKept
<1>4. ActorType'
  BY <1>1, Parts DEF ActorType, local
<1>5. ASSUME NEW v \in Writers PROVE ActorOK(v)'
  BY <1>1, <1>3, Undisturbed DEF local
<1>. QED BY <1>2, <1>3, <1>4, <1>5, PartsNext

LEMMA UnnotifiedFound ==
    ASSUME StoreType
    PROVE  /\ Unnotified \in [id : Ids \cup {NoId}, event : OpeningEvents \cup {"none"}]
           /\ Unnotified.event # "none" => Unnotified.id \in Ids /\ Exists(Unnotified.id)
<1>1. CASE Unnotified = NoRepair
  BY <1>1 DEF NoRepair
<1>2. CASE Unnotified # NoRepair
  <2>1. Active(inc) # NoId
    BY <1>2 DEF Unnotified
  <2>2. PICK e \in OpeningEvents : Unnotified = [id |-> Active(inc), event |-> e]
    <3>. DEFINE i == Active(inc)
                e == CASE inc[i].flapping -> "flapping"
                       [] inc[i].missed   -> "heartbeat_missed"
                       [] OTHER           -> "down"
    <3>1. Unnotified = [id |-> i, event |-> e]
      BY <1>2 DEF Unnotified
    <3>2. e \in OpeningEvents
      BY Zenon DEF OpeningEvents
    <3>. QED BY <3>1, <3>2
  <2>3. Active(inc) \in Ids /\ Exists(Active(inc))
    BY <2>1, ActiveFound DEF StoreType, Exists
  <2>. QED BY <2>2, <2>3
<1>. QED BY <1>1, <1>2

LEMMA RunStartKeeps ==
    ASSUME IInv, NEW r \in Runs, RunStart(r)
    PROVE  IInv'
<1>0. r \in Writers
  BY CycleAssumption
<1>1. StoreOK' /\ GrowsTo(inc, inc')
  BY StoreKept DEF RunStart
<1>2. PICK does \in Classified :
         /\ clock' = IF does = "warm" THEN clock + 1 ELSE clock
         /\ at' = [at EXCEPT ![r] = IF does = "warm" THEN clock' ELSE stale]
         /\ work' = [work EXCEPT ![r] = does]
         /\ pc' = [pc EXCEPT ![r] = IF does = "check" THEN "probe" ELSE "read"]
  BY DEF RunStart
<1>3. does \in Works
  BY DEF Classified, Works
<1>4. clock' \in Nat
  BY <1>2, Parts DEF WorldType
<1>5. WorldType'
  BY <1>4, Parts DEF RunStart, WorldType, world
<1>6. /\ snap' = [snap EXCEPT ![r] = row] /\ repair' = [repair EXCEPT ![r] = Unnotified]
      /\ outcome' = outcome /\ plan' = plan /\ inc' = inc
  BY DEF RunStart, db
<1>7. row \in Row /\ StoreType
  BY Parts DEF StoreOK, StoreType
<1>8. ActorType'
  <2>1. pc' \in [Writers -> PCs] /\ work' \in [Writers -> Works]
    BY <1>2, <1>3, Parts DEF ActorType, PCs
  <2>2. at' \in [Writers -> Nat]
    BY <1>2, <1>4, Parts DEF ActorType, WorldType
  <2>3. /\ snap' \in [Writers -> Row]
        /\ repair' \in [Writers -> [id : Ids \cup {NoId}, event : OpeningEvents \cup {"none"}]]
    BY <1>6, <1>7, UnnotifiedFound, Parts DEF ActorType
  <2>. QED BY <1>6, <2>1, <2>2, <2>3, Parts DEF ActorType
<1>9. ASSUME NEW v \in Writers, v # r PROVE ActorOK(v)'
  BY <1>1, <1>2, <1>6, <1>9, Parts, Undisturbed DEF ActorType
<1>10. ActorOK(r)'
  <2>1. snap'[r] = row /\ plan'[r] = plan[r] /\ repair'[r] = Unnotified /\ pc'[r] # "alert"
    BY <1>0, <1>2, <1>6, Parts DEF ActorType
  <2>2. Sound(plan[r])'
    BY <1>0, <1>6, <2>1, WriterReady DEF Sound, Exists
  <2>3. (snap[r].ptr # NoId => Exists(snap[r].ptr))'
    BY <1>6, <2>1, Parts DEF StoreOK, PointerIsKnown, Exists
  <2>4. (repair[r].event # "none" => repair[r].id \in Ids /\ Exists(repair[r].id))'
    BY <1>6, <1>7, <2>1, UnnotifiedFound DEF Exists
  <2>. QED BY <2>1, <2>2, <2>3, <2>4 DEF ActorOK
<1>. QED BY <1>1, <1>5, <1>8, <1>9, <1>10, PartsNext

LEMMA VerdictType ==
    ASSUME WorldType, NEW b \in BOOLEAN
    PROVE  Verdict(b) \in States
  BY DEF Verdict, WorldType, States

LEMMA ProbeKeeps ==
    ASSUME IInv, NEW w \in Writers, Probe(w) \/ Recheck(w)
    PROVE  IInv'
<1>1. UNCHANGED <<db, locks, world, time, snap, at, plan, repair>>
  BY DEF Probe, Recheck
<1>2. StoreOK' /\ GrowsTo(inc, inc')
  BY <1>1, StoreKept
<1>3. UNCHANGED faults \/ (faults > 0 /\ faults' = faults - 1)
  BY DEF Probe, Recheck
<1>4. WorldType'
  BY <1>1, <1>3, Parts, FaultSpent
<1>5. /\ \E n \in {"recheck", "read"} : pc' = [pc EXCEPT ![w] = n]
      /\ work' = work \/ work' = [work EXCEPT ![w] = "none"]
      /\ outcome' = outcome \/ \E b \in BOOLEAN : outcome' = [outcome EXCEPT ![w] = Verdict(b)]
  <2>1. CASE Probe(w)
    <3>1. (w \in Requests \/ WarmUp(w)) \in BOOLEAN
      BY DEF WarmUp
    <3>. QED BY <2>1, <3>1, Zenon DEF Probe
  <2>2. CASE Recheck(w)
    <3>1. WarmUp(w) \in BOOLEAN
      BY DEF WarmUp
    <3>. QED BY <2>2, <3>1, Zenon DEF Recheck
  <2>. QED BY <2>1, <2>2
<1>6. ActorType'
  <2>1. pc' \in [Writers -> PCs] /\ work' \in [Writers -> Works]
    BY <1>5, Parts DEF ActorType, PCs, Works
  <2>2. outcome' \in [Writers -> States]
    BY <1>5, Parts, VerdictType DEF ActorType
  <2>. QED BY <1>1, <2>1, <2>2, Parts DEF ActorType
<1>7. ASSUME NEW v \in Writers PROVE ActorOK(v)'
  <2>1. pc'[v] = "alert" => pc[v] = "alert"
    BY <1>5, Parts DEF ActorType
  <2>. QED BY <1>1, <1>2, <2>1, Undisturbed
<1>. QED BY <1>2, <1>4, <1>6, <1>7, PartsNext

LEMMA FinishKeeps ==
    ASSUME IInv, NEW w \in Writers, RunFinish(w) \/ Crash(w)
    PROVE  IInv'
<1>1. UNCHANGED <<db, live, world, time>> /\ Reset(w)
  BY DEF RunFinish, Crash, locks
<1>2. lease' \in {lease, NoId}
  BY DEF RunFinish, Released, Crash, locks
<1>3. UNCHANGED faults \/ (faults > 0 /\ faults' = faults - 1)
  BY DEF RunFinish, Crash
<1>4. WorldType'
  BY <1>1, <1>2, <1>3, Parts DEF WorldType, world, time
<1>5. StoreOK' /\ GrowsTo(inc, inc')
  BY <1>1, StoreKept
<1>. QED BY <1>1, <1>4, <1>5, Ended, PartsNext

LEMMA BudgetKeeps ==
    ASSUME IInv, NEW w \in Writers, OutOfBudget(w)
    PROVE  IInv'
<1>1. StoreOK' /\ GrowsTo(inc, inc') /\ Goes(w, "finish")
  BY StoreKept DEF OutOfBudget
<1>2. WorldType'
  BY Parts, FaultSpent DEF OutOfBudget
<1>. QED BY <1>1, <1>2, Gone, PartsNext DEF PCs

LEMMA ArrivalKeeps ==
    ASSUME IInv, NEW q \in Writers, BeatArrives(q) \/ FirstCheck(q)
    PROVE  IInv'
<1>1. UNCHANGED <<db, locks, world, stale, faults, snap, plan, repair>> /\ clock' = clock + 1
  BY DEF BeatArrives, FirstCheck
<1>2. StoreOK' /\ GrowsTo(inc, inc')
  BY <1>1, StoreKept
<1>3. WorldType'
  BY <1>1, Parts DEF WorldType, locks, world
<1>4. \E n \in {"probe", "read"} : pc' = [pc EXCEPT ![q] = n]
  BY Zenon DEF BeatArrives, FirstCheck
<1>5. \E n \in Works : work' = [work EXCEPT ![q] = n]
  BY Zenon DEF BeatArrives, FirstCheck, Works
<1>6. at' = at \/ at' = [at EXCEPT ![q] = clock']
  BY DEF BeatArrives, FirstCheck
<1>7. outcome' = outcome \/ \E n \in States : outcome' = [outcome EXCEPT ![q] = n]
  BY Zenon DEF BeatArrives, FirstCheck, States
<1>8. ActorType'
  BY <1>1, <1>3, <1>4, <1>5, <1>6, <1>7, Parts DEF ActorType, WorldType, PCs
<1>9. ASSUME NEW v \in Writers PROVE ActorOK(v)'
  <2>1. pc'[v] = "alert" => pc[v] = "alert"
    BY <1>4, Parts DEF ActorType
  <2>. QED BY <1>1, <1>2, <2>1, Undisturbed
<1>. QED BY <1>2, <1>3, <1>8, <1>9, PartsNext

LEMMA RepairedType ==
    ASSUME NEW r, NEW c, repair[r] \in [id : Ids \cup {NoId}, event : OpeningEvents \cup {"none"}],
           repair[r].event # "none" => repair[r].id \in Ids /\ Exists(repair[r].id)
    PROVE  /\ Repaired(r, c) \in [id : Ids \cup {NoId}, event : OpeningEvents \cup {"none"}]
           /\ Repaired(r, c).event # "none" => Repaired(r, c).id \in Ids /\ Exists(Repaired(r, c).id)
<1>1. \/ Repaired(r, c) = repair[r]
      \/ Repaired(r, c) = [repair[r] EXCEPT !.event = "none"]
      \/ Repaired(r, c) = NoRepair
  BY DEF Repaired
<1>. QED BY <1>1 DEF NoRepair

LEMMA RunReadKeeps ==
    ASSUME IInv, NEW r \in Runs, RunRead(r)
    PROVE  IInv'
<1>0. r \in Writers
  BY CycleAssumption
<1>1. StoreOK' /\ GrowsTo(inc, inc')
  BY StoreKept DEF RunRead
<1>2. /\ inc' = inc /\ work' = work
      /\ pc' = [pc EXCEPT ![r] = "whole"]
      /\ at' = [at EXCEPT ![r] = 0]
      /\ outcome' = [outcome EXCEPT ![r] = "unknown"]
      /\ snap' = [snap EXCEPT ![r] = IF work[r] = "missed" THEN row ELSE @]
      /\ UNCHANGED <<locks, world, time>>
  BY DEF RunRead, Planned, db
<1>3. PICK c \in Contexts :
         /\ plan' = [plan EXCEPT ![r] =
                CASE work[r] = "check"      -> planCheckResult(snap[r], TRUE, outcome[r], c)
                  [] work[r] = "missed"     -> planHeartbeatMissed(row, at[r], c)
                  [] work[r] = "warm"       -> planWarmHeartbeat(at[r])
                  [] work[r] \in Suppressing -> planPausedState(snap[r], work[r])
                  [] OTHER                  -> NoPlan]
         /\ repair' = [repair EXCEPT ![r] = IF @ = NoRepair THEN @ ELSE Repaired(r, c)]
         /\ faults' = IF Broken(c) THEN faults - 1 ELSE faults
  BY DEF RunRead
<1>4. /\ row \in Row /\ inc \in [Ids -> Incident] /\ snap[r] \in Row /\ outcome[r] \in States
      /\ at[r] \in Nat /\ plan \in [Writers -> Plan] /\ snap \in [Writers -> Row]
      /\ pc \in [Writers -> PCs] /\ repair \in [Writers -> [id : Ids \cup {NoId}, event : OpeningEvents \cup {"none"}]]
      /\ snap[r].ptr # NoId => Exists(snap[r].ptr)
      /\ row.ptr # NoId => Exists(row.ptr)
  BY <1>0, Parts DEF StoreOK, StoreType, ActorType, ActorOK, PointerIsKnown, Exists
<1>5. plan'[r] \in Plan /\ Sound(plan'[r])
  <2>1. planCheckResult(snap[r], TRUE, outcome[r], c) \in Plan /\ Sound(planCheckResult(snap[r], TRUE, outcome[r], c))
    BY <1>4, CheckPlan
  <2>2. planHeartbeatMissed(row, at[r], c) \in Plan /\ Sound(planHeartbeatMissed(row, at[r], c))
    BY <1>4, MissedPlan
  <2>3. planWarmHeartbeat(at[r]) \in Plan /\ Sound(planWarmHeartbeat(at[r]))
    BY <1>4, WarmPlan
  <2>4. work[r] \in Suppressing => planPausedState(snap[r], work[r]) \in Plan /\ Sound(planPausedState(snap[r], work[r]))
    BY <1>4, PausedPlan
  <2>5. plan'[r] = CASE work[r] = "check"      -> planCheckResult(snap[r], TRUE, outcome[r], c)
                     [] work[r] = "missed"     -> planHeartbeatMissed(row, at[r], c)
                     [] work[r] = "warm"       -> planWarmHeartbeat(at[r])
                     [] work[r] \in Suppressing -> planPausedState(snap[r], work[r])
                     [] OTHER                  -> NoPlan
    BY <1>0, <1>3, <1>4
  <2>. QED BY <2>1, <2>2, <2>3, <2>4, <2>5, EmptyPlan, Zenon
<1>6. Sound(plan[r])'
  BY <1>2, <1>5 DEF Sound, Exists
<1>7. /\ repair'[r] \in [id : Ids \cup {NoId}, event : OpeningEvents \cup {"none"}]
      /\ repair'[r].event # "none" => repair'[r].id \in Ids /\ Exists(repair'[r].id)
  <2>1. repair'[r] = repair[r] \/ repair'[r] = Repaired(r, c)
    BY <1>0, <1>3, <1>4
  <2>. QED BY <1>0, <2>1, WriterReady, RepairedType
<1>8. /\ snap'[r] \in Row
      /\ snap'[r].ptr # NoId => Exists(snap'[r].ptr)
      /\ pc'[r] = "whole"
      /\ \A v \in Writers : v # r => /\ snap'[v] = snap[v] /\ plan'[v] = plan[v]
                                     /\ repair'[v] = repair[v] /\ pc'[v] = pc[v]
  BY <1>0, <1>2, <1>3, <1>4
<1>9. WorldType'
  <2>1. c.id \in Ids \cup {NoId} /\ (Broken(c) => faults > 0)
    BY ContextType DEF Contexts
  <2>. QED BY <1>2, <1>3, <2>1, Parts DEF WorldType, locks, world, time
<1>10. ActorType'
  BY <1>2, <1>3, <1>4, <1>5, <1>7, <1>8, Parts DEF ActorType, PCs, States
<1>11. ASSUME NEW v \in Writers, v # r PROVE ActorOK(v)'
  BY <1>1, <1>8, <1>11, Undisturbed
<1>12. ActorOK(r)'
  BY <1>2, <1>6, <1>7, <1>8 DEF ActorOK, Exists
<1>. QED BY <1>1, <1>9, <1>10, <1>11, <1>12, PartsNext

LEMMA RequestReadKeeps ==
    ASSUME IInv, NEW q \in Requests, RequestRead(q)
    PROVE  IInv'
<1>0. q \in Writers
  BY CycleAssumption
<1>1. StoreOK' /\ GrowsTo(inc, inc')
  BY StoreKept DEF RequestRead
<1>2. /\ inc' = inc /\ work' = work /\ repair' = repair
      /\ pc' = [pc EXCEPT ![q] = "whole"]
      /\ at' = [at EXCEPT ![q] = 0]
      /\ outcome' = [outcome EXCEPT ![q] = "unknown"]
      /\ snap' = [snap EXCEPT ![q] = IF work[q] = "check" THEN NewRow ELSE row]
      /\ UNCHANGED <<locks, world, time>>
  BY DEF RequestRead, Planned, db
<1>3. PICK c \in Contexts :
         /\ plan' = [plan EXCEPT ![q] =
                CASE work[q] = "beat"       -> planHeartbeat(row, outcome[q], at[q],
                                                             outcome[q] \in Suppressing, c)
                  [] work[q] = "check"      -> planCheckResult(NewRow, FALSE, outcome[q], c)
                  [] work[q] \in Suppressing -> planPausedState(row, work[q])
                  [] OTHER                  -> NoPlan]
         /\ faults' = IF Broken(c) THEN faults - 1 ELSE faults
  BY DEF RequestRead
<1>4. /\ row \in Row /\ inc \in [Ids -> Incident] /\ outcome[q] \in States
      /\ at[q] \in Nat /\ plan \in [Writers -> Plan] /\ snap \in [Writers -> Row]
      /\ pc \in [Writers -> PCs]
      /\ row.ptr # NoId => Exists(row.ptr)
      /\ NewRow.ptr # NoId => Exists(NewRow.ptr)
  BY <1>0, Parts DEF StoreOK, StoreType, ActorType, PointerIsKnown, Exists, NewRow
<1>5. plan'[q] \in Plan /\ Sound(plan'[q])
  <2>1. planCheckResult(NewRow, FALSE, outcome[q], c) \in Plan /\ Sound(planCheckResult(NewRow, FALSE, outcome[q], c))
    BY <1>4, CheckPlan, NewRowType
  <2>2. /\ planHeartbeat(row, outcome[q], at[q], outcome[q] \in Suppressing, c) \in Plan
        /\ Sound(planHeartbeat(row, outcome[q], at[q], outcome[q] \in Suppressing, c))
    <3>1. (outcome[q] \in Suppressing) \in BOOLEAN
      OBVIOUS
    <3>. QED BY <1>4, <3>1, BeatPlan
  <2>3. work[q] \in Suppressing => planPausedState(row, work[q]) \in Plan /\ Sound(planPausedState(row, work[q]))
    BY <1>4, PausedPlan
  <2>4. plan'[q] = CASE work[q] = "beat"       -> planHeartbeat(row, outcome[q], at[q],
                                                                outcome[q] \in Suppressing, c)
                     [] work[q] = "check"      -> planCheckResult(NewRow, FALSE, outcome[q], c)
                     [] work[q] \in Suppressing -> planPausedState(row, work[q])
                     [] OTHER                  -> NoPlan
    BY <1>0, <1>3, <1>4
  <2>. QED BY <2>1, <2>2, <2>3, <2>4, EmptyPlan, Zenon
<1>6. Sound(plan[q])'
  BY <1>2, <1>5 DEF Sound, Exists
<1>7. /\ snap'[q] \in Row
      /\ snap'[q].ptr # NoId => Exists(snap'[q].ptr)
      /\ pc'[q] = "whole"
      /\ \A v \in Writers : v # q => /\ snap'[v] = snap[v] /\ plan'[v] = plan[v] /\ pc'[v] = pc[v]
  BY <1>0, <1>2, <1>3, <1>4, NewRowType
<1>8. WorldType'
  <2>1. c.id \in Ids \cup {NoId} /\ (Broken(c) => faults > 0)
    BY ContextType DEF Contexts
  <2>. QED BY <1>2, <1>3, <2>1, Parts DEF WorldType, locks, world, time
<1>9. ActorType'
  BY <1>2, <1>3, <1>4, <1>5, <1>7, Parts DEF ActorType, PCs, States
<1>10. ASSUME NEW v \in Writers, v # q PROVE ActorOK(v)'
  BY <1>1, <1>2, <1>7, <1>10, Undisturbed
<1>11. ActorOK(q)'
  BY <1>0, <1>2, <1>6, <1>7, WriterReady DEF ActorOK, Exists
<1>. QED BY <1>1, <1>8, <1>9, <1>10, <1>11, PartsNext

-----------------------------------------------------------------------------
(* The invariant, and what follows from it. *)

LEMMA InitOK == Init => IInv
<1>. SUFFICES ASSUME Init PROVE IInv
  OBVIOUS
<1>1. ActorType
  BY NewRowType, NoPlanType DEF Init, ActorType, PCs, Works, States, NoRepair
<1>2. WorldType
  BY CycleAssumption DEF Init, WorldType
<1>3. StoreOK
  BY NewRowType, NullAssumption
     DEF Init, StoreOK, StoreType, NoIncident, Incident, PointerIsKnown, NewRow, AlertsOK
<1>4. \A w \in Writers : ActorOK(w)
  BY DEF Init, ActorOK, Sound, NoPlan, NewRow, NoRepair, OpeningEvents
<1>. QED BY <1>1, <1>2, <1>3, <1>4, Parts

LEMMA WriteKeeps ==
    ASSUME IInv, NEW w \in Writers, Write(w)
    PROVE  IInv'
<1>1. CASE Whole(w)
  <2>1. ({"alone"} \cup {n \in {"together"} : w \in Runs}) \in SUBSET (PCs \ {"alert"})
    BY DEF PCs
  <2>. QED BY <1>1, <2>1, EverythingKeeps DEF Whole
<1>2. CASE Together(w)
  <2>1. {"alone"} \in SUBSET (PCs \ {"alert"})
    BY DEF PCs
  <2>. QED BY <1>2, <2>1, EverythingKeeps DEF Together
<1>3. CASE Alone(w)
  BY <1>3, AloneKeeps
<1>4. CASE Core(w)
  BY <1>4, CoreKeeps
<1>5. CASE Alert(w)
  BY <1>5, AlertKeeps
<1>6. CASE Fallback(w)
  BY <1>6, FallbackKeeps
<1>7. CASE Extras(w)
  BY <1>7, ExtrasKeeps
<1>. QED BY <1>1, <1>2, <1>3, <1>4, <1>5, <1>6, <1>7 DEF Write

LEMMA NextKeeps == IInv /\ [Next]_vars => IInv'
<1>. SUFFICES ASSUME IInv, [Next]_vars PROVE IInv'
  OBVIOUS
<1>1. CASE Environment
  BY <1>1, EnvironmentKeeps
<1>2. ASSUME NEW r \in Runs, RunStart(r) \/ RunStep(r) PROVE IInv'
  <2>0. r \in Writers
    BY CycleAssumption
  <2>1. CASE RunStart(r)
    BY <2>1, RunStartKeeps
  <2>2. CASE Probe(r) \/ Recheck(r)
    BY <2>0, <2>2, ProbeKeeps
  <2>3. CASE RunRead(r)
    BY <2>3, RunReadKeeps
  <2>4. CASE Write(r)
    BY <2>0, <2>4, WriteKeeps
  <2>5. CASE Repair(r)
    BY <2>0, <2>5, RepairKeeps
  <2>6. CASE OutOfBudget(r)
    BY <2>0, <2>6, BudgetKeeps
  <2>7. CASE RunFinish(r)
    BY <2>0, <2>7, FinishKeeps
  <2>. QED BY <1>2, <2>1, <2>2, <2>3, <2>4, <2>5, <2>6, <2>7 DEF RunStep
<1>3. ASSUME NEW q \in Requests, BeatArrives(q) \/ FirstCheck(q) \/ RequestStep(q) PROVE IInv'
  <2>0. q \in Writers
    BY CycleAssumption
  <2>1. CASE BeatArrives(q) \/ FirstCheck(q)
    BY <2>0, <2>1, ArrivalKeeps
  <2>2. CASE Probe(q)
    BY <2>0, <2>2, ProbeKeeps
  <2>3. CASE RequestRead(q)
    BY <2>3, RequestReadKeeps
  <2>4. CASE Write(q)
    BY <2>0, <2>4, WriteKeeps
  <2>. QED BY <1>3, <2>1, <2>2, <2>3, <2>4 DEF RequestStep
<1>4. ASSUME NEW w \in Writers, Crash(w) PROVE IInv'
  BY <1>4, FinishKeeps
<1>5. CASE UNCHANGED vars
  <2>1. UNCHANGED db /\ UNCHANGED <<locks, world, time>> /\ UNCHANGED faults /\ UNCHANGED local
    BY <1>5 DEF vars
  <2>2. StoreOK' /\ GrowsTo(inc, inc')
    BY <2>1, StoreKept
  <2>3. WorldType' /\ ActorType'
    BY <2>1, Parts, FaultSpent DEF ActorType, local
  <2>4. ASSUME NEW v \in Writers PROVE ActorOK(v)'
    BY <2>1, <2>2, Undisturbed DEF local
  <2>. QED BY <2>2, <2>3, <2>4, PartsNext
<1>. QED BY <1>1, <1>2, <1>3, <1>4, <1>5 DEF Next

(* Every reachable state satisfies the inductive invariant: whatever the    *)
(* interleaving of scheduler runs, requests, failed batches and crashes,    *)
(* each plan in flight still fits the rows it will be written to.           *)
THEOREM Invariant == Spec => []IInv
<1>. QED BY InitOK, NextKeeps, PTL DEF Spec

(* Every reachable state is well typed, for any number of runs, requests    *)
(* and incidents.                                                           *)
THEOREM TypeCorrect == Spec => []TypeOK
<1>1. IInv => TypeOK
  BY DEF IInv
<1>. QED BY <1>1, Invariant, PTL

(* monitor_state.active_incident_id never names an incident that is not     *)
(* stored: assembleGroup keeps the pointer out of every fallback.           *)
THEOREM PointerNeverDangles == Spec => []PointerIsKnown
<1>1. IInv => PointerIsKnown
  BY DEF IInv
<1>. QED BY <1>1, Invariant, PTL

(* No alert is queued about an incident that was never opened, and no       *)
(* recovery about one that is not resolved: the alert unit follows its core *)
(* (batch.ts afterCore) and no statement reopens an incident.               *)
THEOREM AlertsTellTheTruth == Spec => []AlertsAreTrue
<1>1. IInv => AlertsAreTrue
  BY DEF IInv, AlertsOK, AlertsAreTrue
<1>. QED BY <1>1, Invariant, PTL

(* An incident whose outage alert is queued is marked notified, so no later *)
(* run repairs an alert that was sent (planAlertRepair).                    *)
THEOREM AlertsAreMarked == Spec => []AlertedIsNotified
<1>1. IInv => AlertedIsNotified
  BY DEF IInv, AlertsOK, AlertedIsNotified
<1>. QED BY <1>1, Invariant, PTL

-----------------------------------------------------------------------------
(* The run lease. *)

\* A run in flight holds a live lease, unless runs may outlive theirs.
LeaseInv == MayOverrun \/ \A r \in Runs : pc[r] # "idle" => lease = r /\ live

\* An action of an actor that is under way, other than a run's last.
LEMMA LocksKept ==
    ASSUME ActorType, NEW w \in Writers,
           \/ Probe(w) \/ Recheck(w) \/ RunRead(w) \/ RequestRead(w)
           \/ Write(w) \/ Repair(w) \/ OutOfBudget(w) \/ Crash(w)
    PROVE  /\ UNCHANGED locks /\ pc[w] # "idle"
           /\ \A v \in Writers : v # w => pc'[v] = pc[v]
<1>1. CASE Probe(w) \/ Recheck(w)
  BY <1>1 DEF ActorType, Probe, Recheck
<1>2. CASE RunRead(w) \/ RequestRead(w)
  BY <1>2 DEF ActorType, RunRead, RequestRead
<1>3. ASSUME NEW n, Goes(w, n) PROVE \A v \in Writers : v # w => pc'[v] = pc[v]
  BY <1>3 DEF ActorType, Goes
<1>4. ASSUME Reset(w) PROVE \A v \in Writers : v # w => pc'[v] = pc[v]
  BY <1>4 DEF ActorType, Reset
<1>5. ASSUME GroupDone(w) PROVE \A v \in Writers : v # w => pc'[v] = pc[v]
  BY <1>4, <1>5 DEF ActorType, GroupDone
<1>6. CASE Repair(w) \/ OutOfBudget(w)
  BY <1>3, <1>6 DEF Repair, OutOfBudget
<1>7. CASE Crash(w)
  BY <1>4, <1>7 DEF Crash
<1>8. CASE Whole(w)
  BY <1>3, <1>4, <1>8 DEF Whole, Everything
<1>9. CASE Together(w)
  BY <1>3, <1>4, <1>9 DEF Together, Everything
<1>10. CASE Alone(w)
  BY <1>3, <1>5, <1>10 DEF Alone
<1>11. CASE Core(w)
  BY <1>3, <1>5, <1>11 DEF Core, CoreFailed
<1>12. CASE Alert(w)
  BY <1>3, <1>12 DEF Alert
<1>13. CASE Fallback(w)
  BY <1>3, <1>5, <1>13 DEF Fallback
<1>14. CASE Extras(w)
  BY <1>5, <1>14 DEF Extras
<1>. QED BY <1>1, <1>2, <1>6, <1>7, <1>8, <1>9, <1>10, <1>11, <1>12, <1>13, <1>14 DEF Write

LEMMA LeaseKept == TypeOK /\ LeaseInv /\ [Next]_vars => LeaseInv'
<1>. SUFFICES ASSUME TypeOK, LeaseInv, [Next]_vars, ~MayOverrun,
                     NEW v \in Runs, pc'[v] # "idle"
              PROVE  lease' = v /\ live'
  BY DEF LeaseInv
<1>0. ActorType /\ v \in Writers /\ (pc[v] # "idle" => lease = v /\ live)
  BY TypeParts, CycleAssumption DEF LeaseInv
<1>1. CASE Environment
  <2>1. UNCHANGED pc
    BY <1>1 DEF Environment, SetMaintenance, SetPaused, ScheduleTurns, HealthTurns, DeadlinePasses,
                LeaseExpires, local
  <2>2. CASE LeaseExpires
    BY <1>0, <2>1, <2>2 DEF LeaseExpires
  <2>3. CASE ~LeaseExpires
    BY <1>0, <1>1, <2>1, <2>3 DEF Environment, SetMaintenance, SetPaused, ScheduleTurns, HealthTurns,
                             DeadlinePasses, locks
  <2>. QED BY <2>2, <2>3
<1>2. ASSUME NEW w \in Writers,
             \/ Probe(w) \/ Recheck(w) \/ RunRead(w) \/ RequestRead(w)
             \/ Write(w) \/ Repair(w) \/ OutOfBudget(w) \/ Crash(w)
      PROVE  lease' = v /\ live'
  <2>1. UNCHANGED locks /\ pc[w] # "idle" /\ (v # w => pc'[v] = pc[v])
    BY <1>0, <1>2, LocksKept
  <2>. QED BY <1>0, <2>1 DEF locks
<1>3. ASSUME NEW r \in Runs, RunStart(r) PROVE lease' = v /\ live'
  <2>1. pc' = [pc EXCEPT ![r] = "probe"] \/ pc' = [pc EXCEPT ![r] = "read"]
    BY <1>3 DEF RunStart
  <2>2. v # r => pc[v] # "idle"
    BY <1>0, <2>1 DEF ActorType
  <2>. QED BY <1>0, <1>3, <2>2, NullAssumption DEF RunStart, LeaseFree
<1>4. ASSUME NEW r \in Runs, RunFinish(r) PROVE lease' = v /\ live'
  <2>1. r \in Writers /\ lease = r
    BY <1>4, CycleAssumption DEF LeaseInv, RunFinish
  <2>. QED BY <1>0, <1>4, <2>1 DEF RunFinish, Reset, ActorType
<1>5. ASSUME NEW q \in Requests, BeatArrives(q) \/ FirstCheck(q) PROVE lease' = v /\ live'
  BY <1>0, <1>5, CycleAssumption DEF BeatArrives, FirstCheck, ActorType, locks
<1>6. CASE UNCHANGED vars
  BY <1>0, <1>6 DEF vars, locks, local
<1>7. Runs \subseteq Writers /\ Requests \subseteq Writers
  BY CycleAssumption
<1>. QED BY <1>1, <1>2, <1>3, <1>4, <1>5, <1>6, <1>7 DEF Next, RunStep, RequestStep

(* At most one scheduler run is in flight while runs end within the lease's *)
(* TTL: the lease row, taken and released by the run itself, is all that    *)
(* keeps two scheduled invocations apart (lease.ts).                        *)
THEOREM RunsExcludeEachOther == Spec => []OneRunAtATime
<1>1. Init => LeaseInv
  BY CycleAssumption DEF Init, LeaseInv
<1>2. LeaseInv => OneRunAtATime
  BY DEF LeaseInv, OneRunAtATime
<1>. QED BY <1>1, <1>2, LeaseKept, TypeCorrect, PTL DEF Spec

(* A lease ends only by its own holder's last step, or by being taken over  *)
(* after its TTL: a run that was slow never frees its successor's.          *)
THEOREM ReleaseNeedsTheHolder == Spec => ReleaseIsOwn
<1>1. TypeOK /\ [Next]_vars => [lease # NoId /\ lease' = NoId => pc[lease] = "finish"]_vars
  <2>. SUFFICES ASSUME TypeOK, Next, lease # NoId, lease' = NoId PROVE pc[lease] = "finish"
    BY DEF vars, locks
  <2>0. ActorType /\ Runs \subseteq Writers /\ Requests \subseteq Writers
    BY TypeParts, CycleAssumption
  <2>1. CASE Environment
    BY <2>1 DEF Environment, SetMaintenance, SetPaused, ScheduleTurns, HealthTurns, DeadlinePasses,
                LeaseExpires, locks
  <2>2. ASSUME NEW w \in Writers,
               \/ Probe(w) \/ Recheck(w) \/ RunRead(w) \/ RequestRead(w)
               \/ Write(w) \/ Repair(w) \/ OutOfBudget(w) \/ Crash(w)
        PROVE  lease' = lease
    BY <2>0, <2>2, LocksKept DEF locks
  <2>3. ASSUME NEW r \in Runs, RunStart(r) PROVE lease' # NoId
    BY <2>0, <2>3, NullAssumption DEF RunStart
  <2>4. ASSUME NEW r \in Runs, RunFinish(r) PROVE pc[lease] = "finish"
    BY <2>4 DEF RunFinish, Released
  <2>5. ASSUME NEW q \in Requests, BeatArrives(q) \/ FirstCheck(q) PROVE lease' = lease
    BY <2>5 DEF BeatArrives, FirstCheck, locks
  <2>. QED BY <2>0, <2>1, <2>2, <2>3, <2>4, <2>5 DEF Next, RunStep, RequestStep
<1>. QED BY <1>1, TypeCorrect, PTL DEF Spec, ReleaseIsOwn
-----------------------------------------------------------------------------
(* One writer at a time: the pointer, and alerts that come too late.        *)

\* No request writes beside the run, and the lease keeps the runs apart.
Undivided == Requests = {} /\ ~MayOverrun
\* So it is for a monitor that is probed, here one whose schedule does not turn.
Probed == Undivided /\ Kind # "heartbeat" /\ "schedule" \notin Turns

Planning == {"probe", "recheck", "read"}

\* PointerAgrees, and at most one incident is open.
OpenIs(m, i) == OpenOnes(m) = {i} \ {NoId}
OneOpen == OpenIs(inc, row.ptr)

\* `m` are the incidents, `s` the row the plan `p` was made from.  Whenever the
\* group lands, once, twice or in parts, the incident it leaves open
\* is the one its pointer names.
Fits(m, p, s) ==
    /\ p.kind \in {"none", "check", "paused"}
    /\ p.kind = "paused" => s.state # p.state
    /\ IF p.open # NoId THEN p.kind = "check" /\ p.inc /\ p.ptr = p.open /\ p.resolve = NoId
       ELSE IF p.kind # "none" /\ p.inc THEN OpenOnes(m) \ {p.resolve} = {p.ptr} \ {NoId}
       ELSE p.resolve = NoId

\* A run that has not planned yet knows the row as it is.
UpToDate(r) ==
    /\ pc[r] \in Planning \cup {"idle"} => plan[r] = NoPlan
    /\ pc[r] \in Planning =>
         /\ snap[r] = row /\ work[r] \in {"none", "check", "maintenance"}
         /\ work[r] = "maintenance" => row.state # "maintenance"

PointerInv == active /\ OneOpen /\ \A r \in Runs : Fits(inc, plan[r], snap[r]) /\ UpToDate(r)

\* What a run may still alert about is open, and its plan does not resolve it.
StillOpen(r) ==
    /\ pc[r] \in Planning \cup {"idle"} => plan[r] = NoPlan
    /\ pc[r] = "idle" => repair[r] = NoRepair
    /\ pc[r] \in {"probe", "recheck"} => work[r] = "check"
    /\ pc[r] = "alert" /\ plan[r].open # NoId => inc[plan[r].open].status = "open"
    /\ repair[r].event # "none" /\ work[r] \notin Suppressing =>
         inc[repair[r].id].status = "open" /\ plan[r].resolve # repair[r].id

OpenInv == \A r \in Runs : StillOpen(r)

\* A check's or a beat's plan always sends its interval.
LineInv == \A w \in Writers : plan[w].kind \in {"check", "beat"} => plan[w].line

LEMMA RunsAlone ==
    ASSUME Undivided
    PROVE  Writers = Runs /\ Requests = {}
  BY CycleAssumption DEF Undivided

\* activeIncidentStatement finds what the pointer names.
LEMMA PointerIsActive ==
    ASSUME row \in Row, OneOpen
    PROVE  /\ Active(inc) = row.ptr /\ row.ptr \in Ids \cup {NoId}
           /\ row.ptr # NoId => row.ptr \in Ids /\ inc[row.ptr].status = "open"
<1>1. row.ptr \in Ids \cup {NoId}
  BY DEF Row
<1>2. CASE row.ptr = NoId
  <2>1. OpenOnes(inc) = {}
    BY <1>2 DEF OneOpen, OpenIs
  <2>. QED BY <1>2, <2>1 DEF Active
<1>3. CASE row.ptr # NoId
  <2>1. OpenOnes(inc) = {row.ptr}
    BY <1>3 DEF OneOpen, OpenIs
  <2>2. Active(inc) = CHOOSE i \in OpenOnes(inc) : TRUE
    BY <2>1 DEF Active
  <2>3. Active(inc) \in OpenOnes(inc)
    BY <2>1, <2>2
  <2>. QED BY <1>1, <1>3, <2>1, <2>3 DEF OpenOnes
<1>. QED BY <1>2, <1>3

LEMMA NothingFits ==
    ASSUME NEW m, NEW s
    PROVE  Fits(m, NoPlan, s)
  BY DEF Fits, NoPlan

LEMMA SameFits ==
    ASSUME NEW m, NEW n, NEW p, NEW s, Fits(m, p, s), OpenOnes(n) = OpenOnes(m)
    PROVE  Fits(n, p, s)
  BY DEF Fits

-----------------------------------------------------------------------------
(* A group that lands, in whole or without its incident columns.            *)

LEMMA CoreFits ==
    ASSUME NEW m \in [Ids -> Incident], NEW r \in Row, NEW s, NEW w, NEW p \in Plan,
           OpenIs(m, r.ptr), Fits(m, p, s), ~Aborts(m, p),
           NEW n \in [Ids -> Incident], \A i \in Ids : n[i].status = IncAfter(m, r, s, p)[i].status
    PROVE  OpenIs(n, RowAfter(r, s, w, p, TRUE).ptr) /\ Fits(n, p, s)
<1>. USE DEF OpenIs
<1>1. p.open \in Ids \cup {NoId} /\ p.ptr \in Ids \cup {NoId} /\ p.resolve \in Ids \cup {NoId} /\ NoId \notin Ids
  BY NullAssumption DEF Plan
<1>2. \A i \in Ids :
        /\ IncAfter(m, r, s, p)[i] =
                IF i = p.open
                THEN [status |-> "open", notified |-> p.settled, flapping |-> p.flapping, missed |-> p.missed]
                ELSE IF i = p.resolve /\ m[i].status = "open" /\ Lands(r, s, p)
                THEN [m[i] EXCEPT !.status = "resolved"]
                ELSE IF i = p.observe THEN [m[i] EXCEPT !.missed = p.missed]
                ELSE m[i]
        /\ m[i] \in Incident
  BY DEF IncAfter
<1>3. \A i \in Ids :
        n[i].status = IF i = p.open THEN "open"
                      ELSE IF i = p.resolve /\ m[i].status = "open" /\ Lands(r, s, p) THEN "resolved"
                      ELSE m[i].status
  <2>. TAKE i \in Ids
  <2>1. [m[i] EXCEPT !.status = "resolved"].status = "resolved" /\ [m[i] EXCEPT !.missed = p.missed].status = m[i].status
    BY <1>2 DEF Incident
  <2>2. n[i].status = IncAfter(m, r, s, p)[i].status
    OBVIOUS
  <2>3. CASE i = p.open
    <3>1. IncAfter(m, r, s, p)[i] =
             [status |-> "open", notified |-> p.settled, flapping |-> p.flapping, missed |-> p.missed]
      BY <1>2, <2>3
    <3>. QED BY <2>2, <2>3, <3>1
  <2>4. CASE i # p.open /\ i = p.resolve /\ m[i].status = "open" /\ Lands(r, s, p)
    <3>1. IncAfter(m, r, s, p)[i] = [m[i] EXCEPT !.status = "resolved"]
      BY <1>2, <2>4
    <3>. QED BY <2>1, <2>2, <2>4, <3>1
  <2>5. CASE i # p.open /\ ~(i = p.resolve /\ m[i].status = "open" /\ Lands(r, s, p))
    <3>1. IncAfter(m, r, s, p)[i] \in {[m[i] EXCEPT !.missed = p.missed], m[i]}
      BY <1>2, <2>5
    <3>. QED BY <2>1, <2>2, <2>5, <3>1
  <2>. QED BY <2>3, <2>4, <2>5
<1>4. CASE p.open # NoId
  <2>1. p.kind = "check" /\ p.inc /\ p.ptr = p.open /\ p.resolve = NoId /\ p.open \in Ids
    BY <1>1, <1>4 DEF Fits
  <2>2. OpenOnes(m) = {}
    BY <1>4 DEF Aborts
  <2>3. OpenOnes(n) = {p.open}
    BY <1>1, <1>3, <2>1, <2>2 DEF OpenOnes
  <2>4. RowAfter(r, s, w, p, TRUE).ptr = p.open
    BY <2>1 DEF RowAfter, Lands
  <2>5. Fits(n, p, s)
    BY <1>4 DEF Fits
  <2>. QED BY <1>4, <2>3, <2>4, <2>5
<1>5. CASE p.open = NoId /\ p.kind # "none" /\ p.inc
  <2>1. OpenOnes(m) \ {p.resolve} = {p.ptr} \ {NoId} /\ (p.kind = "paused" => s.state # p.state)
    BY <1>5 DEF Fits
  <2>2. CASE Lands(r, s, p)
    <3>1. OpenOnes(n) = OpenOnes(m) \ {p.resolve}
      BY <1>1, <1>3, <1>5, <2>2 DEF OpenOnes
    <3>2. RowAfter(r, s, w, p, TRUE).ptr = p.ptr
      BY <1>5, <2>1, <2>2 DEF RowAfter
    <3>3. OpenOnes(n) \ {p.resolve} = {p.ptr} \ {NoId}
      BY <2>1, <3>1
    <3>4. Fits(n, p, s)
      BY <1>5, <3>3 DEF Fits
    <3>. QED BY <2>1, <3>1, <3>2, <3>4
  <2>3. CASE ~Lands(r, s, p)
    <3>1. OpenOnes(n) = OpenOnes(m)
      BY <1>1, <1>3, <1>5, <2>3 DEF OpenOnes
    <3>2. RowAfter(r, s, w, p, TRUE) = r
      BY <2>3 DEF RowAfter
    <3>. QED BY <3>1, <3>2, SameFits
  <2>. QED BY <2>2, <2>3
<1>6. CASE p.open = NoId /\ ~(p.kind # "none" /\ p.inc)
  <2>1. p.resolve = NoId
    BY <1>6 DEF Fits
  <2>2. OpenOnes(n) = OpenOnes(m)
    BY <1>1, <1>3, <1>6, <2>1 DEF OpenOnes
  <2>3. RowAfter(r, s, w, p, TRUE).ptr = r.ptr
    BY <1>6 DEF RowAfter, Row
  <2>. QED BY <2>2, <2>3, SameFits
<1>. QED BY <1>4, <1>5, <1>6

LEMMA PointerLeftAlone ==
    ASSUME NEW r \in Row, NEW s, NEW w, NEW p
    PROVE  RowAfter(r, s, w, p, FALSE).ptr = r.ptr
  BY DEF RowAfter, Row

-----------------------------------------------------------------------------
(* The plans of a run that knows the row as it is.                          *)

LEMMA TransitionFits ==
    ASSUME inc \in [Ids -> Incident], row \in Row, OneOpen,
           NEW base \in Plan, Bare(base), base.kind = "check", base.inc, base.resolve = NoId,
           NEW ok \in BOOLEAN, NEW event \in OpeningEvents, NEW c \in Contexts, NEW s
    PROVE  Fits(inc, Transition(base, ok, event, c), s)
<1>. DEFINE t == Transition(base, ok, event, c)
<1>1. c.id \in Ids \cup {NoId} /\ c.flapping \in BOOLEAN /\ c.read \in BOOLEAN
  BY ContextType
<1>2. Active(inc) = row.ptr /\ row.ptr \in Ids \cup {NoId} /\ OpenIs(inc, row.ptr) /\ NoId \notin Ids
  BY PointerIsActive, NullAssumption DEF OneOpen
<1>3. CASE ~c.read
  <2>1. t = [base EXCEPT !.inc = FALSE]
    BY <1>3 DEF Transition
  <2>2. t.kind = "check" /\ t.open = NoId /\ ~t.inc /\ t.resolve = NoId
    BY <2>1 DEF Plan, Bare
  <2>. HIDE DEF t
  <2>9. Fits(inc, t, s)
    BY <2>2 DEF Fits
  <2>. QED BY <2>9 DEF t
<1>4. CASE c.read /\ ~ok /\ Active(inc) # NoId
  <2>1. t = [base EXCEPT !.ptr = Active(inc), !.observe = Active(inc)]
    BY <1>4 DEF Transition
  <2>2. t.kind = "check" /\ t.open = NoId /\ t.inc /\ t.resolve = NoId /\ t.ptr = row.ptr
    BY <1>2, <2>1 DEF Plan, Bare
  <2>3. OpenOnes(inc) \ {NoId} = {row.ptr} \ {NoId}
    BY <1>2 DEF OpenIs
  <2>. HIDE DEF t
  <2>9. Fits(inc, t, s)
    BY <2>2, <2>3 DEF Fits
  <2>. QED BY <2>9 DEF t
<1>5. CASE c.read /\ ~ok /\ Active(inc) = NoId
  <2>1. c.id \in Ids
    BY <1>1, <1>5, ContextType
  <2>2. PICK a \in OpeningEvents \cup {"none"}, b \in BOOLEAN :
           t = [base EXCEPT !.ptr = c.id, !.open = c.id, !.flapping = c.flapping, !.alert = a, !.settled = b]
    BY <1>5, <1>1, Zenon DEF Transition, OpeningEvents
  <2>3. t.kind = "check" /\ t.open = c.id /\ t.inc /\ t.resolve = NoId /\ t.ptr = c.id
    BY <2>2 DEF Plan, Bare
  <2>. HIDE DEF t
  <2>9. Fits(inc, t, s)
    BY <1>2, <2>1, <2>3 DEF Fits
  <2>. QED BY <2>9 DEF t
<1>6. CASE c.read /\ ok /\ Active(inc) = NoId
  <2>1. t = base
    BY <1>6 DEF Transition
  <2>2. t.kind = "check" /\ t.open = NoId /\ t.inc /\ t.resolve = NoId /\ t.ptr = NoId
    BY <2>1 DEF Bare
  <2>3. OpenOnes(inc) \ {NoId} = {NoId} \ {NoId}
    BY <1>2, <1>6 DEF OpenIs
  <2>. HIDE DEF t
  <2>9. Fits(inc, t, s)
    BY <2>2, <2>3 DEF Fits
  <2>. QED BY <2>9 DEF t
<1>7. CASE c.read /\ ok /\ Active(inc) # NoId
  <2>1. PICK a \in {"recovered", "none"} : t = [base EXCEPT !.resolve = Active(inc), !.alert = a]
    BY <1>7, Zenon DEF Transition
  <2>2. t.kind = "check" /\ t.open = NoId /\ t.inc /\ t.resolve = row.ptr /\ t.ptr = NoId
    BY <1>2, <2>1 DEF Plan, Bare
  <2>3. OpenOnes(inc) \ {row.ptr} = {NoId} \ {NoId}
    BY <1>2 DEF OpenIs
  <2>. HIDE DEF t
  <2>9. Fits(inc, t, s)
    BY <2>2, <2>3 DEF Fits
  <2>. QED BY <2>9 DEF t
<1>. QED BY <1>1, <1>3, <1>4, <1>5, <1>6, <1>7

LEMMA CheckFits ==
    ASSUME inc \in [Ids -> Incident], row \in Row, OneOpen, NEW out \in States, NEW c \in Contexts
    PROVE  Fits(inc, planCheckResult(row, TRUE, out, c), row)
<1>. DEFINE base == [NoPlan EXCEPT !.kind = "check", !.state = out, !.inc = TRUE, !.line = TRUE]
            t == planCheckResult(row, TRUE, out, c)
<1>1. /\ base \in Plan /\ Bare(base) /\ base.kind = "check" /\ base.inc
      /\ base.resolve = NoId /\ base.open = NoId /\ base.ptr = NoId
  BY DEF NoPlan, Plan, Bare, States, Events, OpeningEvents
<1>2. Active(inc) = row.ptr /\ row.ptr \in Ids \cup {NoId} /\ OpenIs(inc, row.ptr) /\ NoId \notin Ids
  BY PointerIsActive, NullAssumption DEF OneOpen
<1>3. CASE NeedsIncident(out, row, TRUE)
  <2>1. t = Transition(base, Ok(out), "down", c)
    BY <1>3 DEF planCheckResult
  <2>2. Ok(out) \in BOOLEAN /\ "down" \in OpeningEvents
    BY DEF Ok, OpeningEvents
  <2>. QED BY <1>1, <2>1, <2>2, TransitionFits
<1>4. CASE ~NeedsIncident(out, row, TRUE)
  <2>1. \/ out = "cant_check" /\ t = [base EXCEPT !.resolve = row.ptr]
        \/ out = "warming_up" /\ t = [base EXCEPT !.ptr = row.ptr]
        \/ row.ptr = NoId /\ t = base
    BY <1>4 DEF planCheckResult, NeedsIncident
  <2>2. t.kind = "check" /\ t.open = NoId /\ t.inc /\ \/ t.resolve = row.ptr /\ t.ptr = NoId
                                                      \/ t.resolve = NoId /\ t.ptr = row.ptr
    <3>. HIDE DEF base
    <3>. QED BY <1>1, <2>1 DEF Plan
  <2>3. OpenOnes(inc) \ {t.resolve} = {t.ptr} \ {NoId}
    BY <1>2, <2>2 DEF OpenIs
  <2>. HIDE DEF t
  <2>9. Fits(inc, t, row)
    BY <2>2, <2>3 DEF Fits
  <2>. QED BY <2>9 DEF t
<1>. QED BY <1>3, <1>4

LEMMA PausedFits ==
    ASSUME row \in Row, OneOpen, row.state # "maintenance"
    PROVE  Fits(inc, planPausedState(row, "maintenance"), row)
<1>. DEFINE t == planPausedState(row, "maintenance")
<1>1. t.kind = "paused" /\ t.open = NoId /\ t.inc /\ t.resolve = row.ptr /\ t.ptr = NoId /\ t.state = "maintenance"
  BY DEF planPausedState, NoPlan
<1>2. OpenOnes(inc) \ {row.ptr} = {NoId} \ {NoId}
  BY DEF OneOpen, OpenIs
<1>. HIDE DEF t
<1>9. Fits(inc, t, row)
  BY <1>1, <1>2 DEF Fits
<1>. QED BY <1>9 DEF t

-----------------------------------------------------------------------------
(* What a batch of a run does, whichever it is.                             *)

Writings == PCs \ (Planning \cup {"idle"})

\* No row is written but for marks, alerts and intervals.
Marks == row' = row /\ \A i \in Ids : inc'[i].status = inc[i].status
\* The core is, with whatever else.
CoreLandsNow(w) ==
    /\ ~Aborts(inc, plan[w])
    /\ row' = RowAfter(row, snap[w], w, plan[w], TRUE)
    /\ \A i \in Ids : inc'[i].status = IncAfter(inc, row, snap[w], plan[w])[i].status
\* The state is, without the incident.
FallbackLands(w) == row' = RowAfter(row, snap[w], w, plan[w], FALSE) /\ inc' = inc

\* An opening alert that is queued: for the incident the core opens or opened, or
\* the one to repair.
QueuedBy(w, i) ==
    \/ i = plan[w].open /\ (pc[w] = "alert" \/ CoreLandsNow(w))
    \/ i = repair[w].id /\ repair[w].event # "none"
QueuesNoMore(w) ==
    \A i \in Ids, e \in OpeningEvents : <<e, i>> \in alerts' \ alerts => QueuedBy(w, i)

LEMMA MarkedStatus ==
    ASSUME NEW m \in [Ids -> Incident], NEW p \in Plan, NEW i \in Ids \cup {NoId}
    PROVE  /\ \A j \in Ids : MarkedByAlert(m, p)[j].status = m[j].status
           /\ \A j \in Ids : Marked(MarkedByAlert(m, p), i)[j].status = m[j].status
           /\ \A j \in Ids : Marked(m, i)[j].status = m[j].status
<1>1. p.open \in Ids \cup {NoId}
  BY DEF Plan
<1>2. MarkedByAlert(m, p) \in [Ids -> Incident] /\ \A j \in Ids : MarkedByAlert(m, p)[j].status = m[j].status
  BY <1>1, MarkedGrows DEF MarkedByAlert
<1>. QED BY <1>2, MarkedGrows

\* The opening alerts the alert unit and the repair may add.
LEMMA OpeningsQueued ==
    ASSUME NEW al, NEW p, Sound(p), NEW rep, NEW e \in OpeningEvents, NEW i
    PROVE  /\ <<e, i>> \in AlertsAfter(al, p) => <<e, i>> \in al \/ i = p.open
           /\ <<e, i>> \in WithRepair(al, rep) => <<e, i>> \in al \/ (i = rep.id /\ rep.event # "none")
<1>1. ASSUME <<e, i>> \in AlertsAfter(al, p), <<e, i>> \notin al
      PROVE  i = p.open
  <2>1. e = p.alert /\ i = Subject(p)
    BY <1>1 DEF AlertsAfter
  <2>2. p.open \in Ids /\ NoId \notin Ids
    BY <2>1, NullAssumption DEF Sound
  <2>. QED BY <2>1, <2>2 DEF Subject
<1>2. ASSUME <<e, i>> \in WithRepair(al, rep), <<e, i>> \notin al
      PROVE  i = rep.id /\ rep.event # "none"
  BY <1>2 DEF WithRepair
<1>. QED BY <1>1, <1>2

LEMMA WriterTypes ==
    ASSUME IInv, NEW w \in Writers
    PROVE  /\ inc \in [Ids -> Incident] /\ row \in Row /\ plan[w] \in Plan /\ snap[w] \in Row /\ Sound(plan[w])
           /\ repair[w].id \in Ids \cup {NoId} /\ plan[w].open \in Ids \cup {NoId}
           /\ pc \in [Writers -> PCs]
           /\ \A v \in Writers : /\ plan[v] \in Plan /\ snap[v] \in Row /\ outcome[v] \in States
                                 /\ repair[v] \in [id : Ids \cup {NoId}, event : OpeningEvents \cup {"none"}]
<1>1. StoreOK /\ ActorType
  BY Parts
<1>2. plan[w] \in Plan /\ repair[w].id \in Ids \cup {NoId} /\ snap[w] \in Row
  BY <1>1 DEF ActorType
<1>3. plan[w].open \in Ids \cup {NoId}
  BY <1>2 DEF Plan
<1>. QED BY <1>1, <1>2, <1>3, WriterReady DEF StoreOK, StoreType, ActorType

LEMMA CoreStatus ==
    ASSUME IInv, NEW w \in Writers, ~Aborts(inc, plan[w])
    PROVE  LET m == IncAfter(inc, row, snap[w], plan[w]) IN
           \A j \in Ids : /\ MarkedByAlert(m, plan[w])[j].status = m[j].status
                          /\ Marked(MarkedByAlert(m, plan[w]), repair[w].id)[j].status = m[j].status
<1>1. IncAfter(inc, row, snap[w], plan[w]) \in [Ids -> Incident]
  BY WriterTypes, IncAfterGrows
<1>. QED BY <1>1, WriterTypes, MarkedStatus

LEMMA WholeEffect ==
    ASSUME IInv, NEW w \in Writers, ~Aborts(inc, plan[w]), WriteWhole(w)
    PROVE  CoreLandsNow(w) /\ QueuesNoMore(w)
<1>1. CoreLandsNow(w)
  BY CoreStatus DEF CoreLandsNow, WriteWhole
<1>2. ASSUME NEW i \in Ids, NEW e \in OpeningEvents, <<e, i>> \in alerts' \ alerts
      PROVE  QueuedBy(w, i)
  <2>1. <<e, i>> \in WithRepair(AlertsAfter(alerts, plan[w]), repair[w]) /\ <<e, i>> \notin alerts
    BY <1>2 DEF WriteWhole
  <2>2. i = plan[w].open \/ (i = repair[w].id /\ repair[w].event # "none")
    BY <2>1, WriterTypes, OpeningsQueued
  <2>. QED BY <1>1, <2>2 DEF QueuedBy
<1>. QED BY <1>1, <1>2 DEF QueuesNoMore

LEMMA GroupEffect ==
    ASSUME IInv, NEW w \in Writers, ~Aborts(inc, plan[w]), WriteGroup(w)
    PROVE  CoreLandsNow(w) /\ QueuesNoMore(w)
<1>1. CoreLandsNow(w)
  BY CoreStatus DEF CoreLandsNow, WriteGroup
<1>2. ASSUME NEW i \in Ids, NEW e \in OpeningEvents, <<e, i>> \in alerts' \ alerts
      PROVE  QueuedBy(w, i)
  <2>1. <<e, i>> \in AlertsAfter(alerts, plan[w]) /\ <<e, i>> \notin alerts
    BY <1>2 DEF WriteGroup
  <2>2. i = plan[w].open
    BY <2>1, WriterTypes, OpeningsQueued
  <2>. QED BY <1>1, <2>2 DEF QueuedBy
<1>. QED BY <1>1, <1>2 DEF QueuesNoMore

LEMMA QuietEffect ==
    ASSUME UNCHANGED db, NEW w
    PROVE  Marks /\ QueuesNoMore(w)
  BY DEF db, Marks, QueuesNoMore

\* One step of a run after it planned, other than its last.
LEMMA WriteEffects ==
    ASSUME IInv, NEW w \in Runs, Write(w) \/ Repair(w) \/ OutOfBudget(w)
    PROVE  /\ pc[w] \in Writings /\ UNCHANGED <<locks, world, time>>
           /\ \E n \in Writings : Goes(w, n)
           /\ Marks \/ CoreLandsNow(w) \/ FallbackLands(w)
           /\ pc'[w] = "alert" => CoreLandsNow(w)
           /\ QueuesNoMore(w)
<1>0. /\ w \in Writers /\ w \notin Requests /\ pc \in [Writers -> PCs]
      /\ \A n : Goes(w, n) => pc'[w] = n
  <2>1. w \in Writers /\ w \notin Requests
    BY CycleAssumption
  <2>2. pc \in [Writers -> PCs]
    BY <2>1, WriterTypes
  <2>. QED BY <2>1, <2>2 DEF Goes
<1>a. {"whole", "together", "alone", "core", "alert", "fallback", "extras", "repair", "finish"} \subseteq Writings
  BY DEF Writings, PCs, Planning
<1>b. GroupDone(w) => \E n \in {"finish", "repair"} : Goes(w, n)
  BY <1>0 DEF GroupDone, Goes
<1>c. CoreFailed(w) => \E n \in {"finish", "repair", "fallback"} : Goes(w, n)
  BY <1>b DEF CoreFailed
<1>1. ASSUME NEW here \in {"whole", "together"}, NEW next \in SUBSET {"alone", "together"}, Everything(w, here, next)
      PROVE  /\ pc[w] \in Writings /\ UNCHANGED <<locks, world, time>>
             /\ \E n \in Writings : Goes(w, n)
             /\ Marks \/ CoreLandsNow(w)
             /\ pc'[w] # "alert" /\ QueuesNoMore(w)
  <2>1. \E n \in {"finish", "alone", "together"} : Goes(w, n)
    BY <1>0, <1>1 DEF Everything
  <2>2. CASE UNCHANGED db
    BY <1>0, <1>1, <1>a, <2>1, <2>2, QuietEffect DEF Everything
  <2>3. CASE ~Aborts(inc, plan[w]) /\ WriteWhole(w)
    BY <1>0, <1>1, <1>a, <2>1, <2>3, WholeEffect DEF Everything
  <2>. QED BY <1>1, <2>2, <2>3 DEF Everything, Fails
<1>2. CASE Whole(w)
  BY <1>0, <1>1, <1>2 DEF Whole
<1>3. CASE Together(w)
  BY <1>1, <1>3 DEF Together
<1>4. CASE Alone(w)
  <2>1. \E n \in {"finish", "repair", "core"} : Goes(w, n)
    BY <1>b, <1>4 DEF Alone
  <2>2. CASE UNCHANGED db
    BY <1>0, <1>4, <1>a, <2>1, <2>2, QuietEffect DEF Alone
  <2>3. CASE ~Aborts(inc, plan[w]) /\ WriteGroup(w)
    BY <1>0, <1>4, <1>a, <2>1, <2>3, GroupEffect DEF Alone
  <2>. QED BY <1>4, <2>2, <2>3 DEF Alone, Fails
<1>5. CASE Core(w)
  <2>1. /\ \E n \in {"finish", "repair", "fallback", "alert"} : Goes(w, n)
        /\ pc'[w] = "alert" => ~Aborts(inc, plan[w]) /\ WriteCore(w)
    <3>1. CASE ~Aborts(inc, plan[w]) /\ WriteCore(w) /\ Goes(w, "alert")
      BY <3>1
    <3>2. CASE CoreFailed(w)
      BY <1>0, <1>c, <3>2
    <3>. QED BY <1>5, <3>1, <3>2 DEF Core
  <2>2. ~Aborts(inc, plan[w]) /\ WriteCore(w) => CoreLandsNow(w) /\ QueuesNoMore(w)
    BY DEF CoreLandsNow, WriteCore, QueuesNoMore
  <2>3. UNCHANGED db \/ (~Aborts(inc, plan[w]) /\ WriteCore(w))
    BY <1>5 DEF Core, Fails
  <2>4. pc[w] = "core" /\ UNCHANGED <<locks, world, time>>
    BY <1>5 DEF Core
  <2>. QED BY <1>a, <2>1, <2>2, <2>3, <2>4, QuietEffect
<1>6. CASE Alert(w)
  <2>1. pc[w] = "alert" /\ Goes(w, "extras") /\ UNCHANGED <<locks, world, time>>
    BY <1>6 DEF Alert
  <2>2. CASE WriteAlert(w)
    <3>1. Marks
      BY <1>0, <2>2, WriterTypes, MarkedStatus DEF Marks, WriteAlert
    <3>2. QueuesNoMore(w)
      BY <1>0, <2>1, <2>2, WriterTypes, OpeningsQueued DEF QueuesNoMore, QueuedBy, WriteAlert
    <3>. QED BY <1>0, <1>a, <2>1, <3>1, <3>2
  <2>3. CASE UNCHANGED db
    BY <1>0, <1>a, <2>1, <2>3, QuietEffect
  <2>. QED BY <1>6, <2>2, <2>3 DEF Alert, Fails
<1>7. CASE Fallback(w)
  <2>1. pc[w] = "fallback" /\ UNCHANGED <<locks, world, time>> /\ \E n \in {"finish", "repair", "extras"} : Goes(w, n)
    BY <1>7, <1>b DEF Fallback
  <2>2. WriteFallback(w) => FallbackLands(w) /\ QueuesNoMore(w)
    BY DEF WriteFallback, FallbackLands, QueuesNoMore
  <2>3. WriteFallback(w) \/ UNCHANGED db
    BY <1>7 DEF Fallback, Fails
  <2>. QED BY <1>0, <1>a, <2>1, <2>2, <2>3, QuietEffect
<1>8. CASE Extras(w)
  <2>1. pc[w] = "extras" /\ UNCHANGED <<locks, world, time>> /\ \E n \in {"finish", "repair"} : Goes(w, n)
    BY <1>8, <1>b DEF Extras
  <2>2. WriteLine(w) => Marks /\ QueuesNoMore(w)
    BY DEF WriteLine, Marks, QueuesNoMore
  <2>3. WriteLine(w) \/ UNCHANGED db
    BY <1>8 DEF Extras, Fails
  <2>. QED BY <1>0, <1>a, <2>1, <2>2, <2>3, QuietEffect
<1>9. CASE Repair(w)
  <2>1. pc[w] = "repair" /\ Goes(w, "finish") /\ UNCHANGED <<locks, world, time>>
    BY <1>9 DEF Repair
  <2>2. CASE WriteRepair(w)
    <3>1. Marks
      BY <1>0, <2>2, WriterTypes, MarkedStatus DEF Marks, WriteRepair
    <3>2. QueuesNoMore(w)
      BY <1>0, <2>1, <2>2, WriterTypes, OpeningsQueued DEF QueuesNoMore, QueuedBy, WriteRepair
    <3>. QED BY <1>0, <1>a, <2>1, <3>1, <3>2
  <2>3. CASE UNCHANGED db
    BY <1>0, <1>a, <2>1, <2>3, QuietEffect
  <2>. QED BY <1>9, <2>2, <2>3 DEF Repair, Fails
<1>10. CASE OutOfBudget(w)
  <2>1. pc[w] \in Writings /\ Goes(w, "finish") /\ UNCHANGED <<locks, world, time>> /\ UNCHANGED db
    BY <1>10, <1>a DEF OutOfBudget
  <2>. QED BY <1>0, <1>a, <2>1, QuietEffect
<1>. QED BY <1>2, <1>3, <1>4, <1>5, <1>6, <1>7, <1>8, <1>9, <1>10 DEF Write

-----------------------------------------------------------------------------
(* The pointer and the incidents.                                           *)

LEMMA OthersIdle ==
    ASSUME Undivided, LeaseInv, NEW w \in Runs, pc[w] # "idle", NEW v \in Runs, v # w
    PROVE  pc[v] = "idle"
  BY DEF Undivided, LeaseInv

\* What a step of one run has to leave for PointerInv to hold.
LEMMA PointerMoves ==
    ASSUME PointerInv, NEW w \in Runs, active', OneOpen', Fits(inc', plan'[w], snap'[w]), UpToDate(w)',
           \A v \in Runs : v # w => /\ pc[v] = "idle" /\ pc'[v] = "idle" /\ plan'[v] = plan[v]
    PROVE  PointerInv'
<1>1. ASSUME NEW v \in Runs, v # w
      PROVE  Fits(inc', plan'[v], snap'[v]) /\ UpToDate(v)'
  <2>1. plan'[v] = NoPlan /\ pc'[v] = "idle"
    BY <1>1 DEF PointerInv, UpToDate
  <2>2. UpToDate(v)'
    BY <2>1 DEF UpToDate, Planning
  <2>. QED BY <2>1, <2>2, NothingFits
<1>. QED BY <1>1 DEF PointerInv

LEMMA PointerWrites ==
    ASSUME IInv, IInv', LeaseInv, PointerInv, Probed, NEW w \in Runs, Write(w) \/ Repair(w) \/ OutOfBudget(w)
    PROVE  PointerInv'
<1>1. /\ pc[w] \in Writings /\ UNCHANGED <<locks, world, time>>
      /\ \E n \in Writings : Goes(w, n)
      /\ Marks \/ CoreLandsNow(w) \/ FallbackLands(w)
  BY WriteEffects
<1>2. w \in Writers /\ Runs \subseteq Writers /\ Undivided
  BY CycleAssumption DEF Probed
<1>3. /\ inc \in [Ids -> Incident] /\ inc' \in [Ids -> Incident] /\ row \in Row /\ plan[w] \in Plan
      /\ pc \in [Writers -> PCs]
  <2>1. (inc \in [Ids -> Incident])'
    BY <1>2, WriterTypes DEF IInv, TypeOK
  <2>. QED BY <1>2, <2>1, WriterTypes
<1>4. /\ pc'[w] \in Writings /\ plan' = plan /\ snap' = snap
      /\ \A v \in Runs : v # w => pc[v] = "idle" /\ pc'[v] = "idle"
  <2>1. pc[w] # "idle"
    BY <1>1 DEF Writings
  <2>. QED BY <1>1, <1>2, <1>3, <2>1, OthersIdle DEF Goes
<1>5. OpenIs(inc, row.ptr) /\ Fits(inc, plan[w], snap[w]) /\ active
  BY DEF PointerInv, OneOpen
<1>6. OpenIs(inc', row'.ptr) /\ Fits(inc', plan[w], snap[w])
  <2>1. CASE Marks
    <3>1. OpenOnes(inc') = OpenOnes(inc) /\ row' = row
      BY <2>1 DEF OpenOnes, Marks
    <3>. QED BY <1>5, <3>1, SameFits DEF OpenIs
  <2>2. CASE CoreLandsNow(w)
    <3>1. ~Aborts(inc, plan[w]) /\ \A i \in Ids : inc'[i].status = IncAfter(inc, row, snap[w], plan[w])[i].status
      BY <2>2 DEF CoreLandsNow
    <3>2. /\ OpenIs(inc', RowAfter(row, snap[w], w, plan[w], TRUE).ptr)
          /\ Fits(inc', plan[w], snap[w])
      BY <1>3, <1>5, <3>1, CoreFits
    <3>. QED BY <2>2, <3>2 DEF CoreLandsNow
  <2>3. CASE FallbackLands(w)
    BY <1>3, <1>5, <2>3, PointerLeftAlone DEF FallbackLands
  <2>. QED BY <1>1, <2>1, <2>2, <2>3
<1>7. OneOpen' /\ active'
  BY <1>1, <1>5, <1>6 DEF OneOpen, world
<1>8. UpToDate(w)'
  BY <1>4 DEF UpToDate, Writings
<1>. QED BY <1>4, <1>6, <1>7, <1>8, PointerMoves

\* A run has not planned yet: its step writes nothing.
LEMMA PointerPlans ==
    ASSUME IInv, LeaseInv, PointerInv, Probed, NEW r \in Runs, Probe(r) \/ Recheck(r) \/ RunRead(r)
    PROVE  PointerInv'
<1>1. r \in Writers /\ Runs \subseteq Writers /\ Undivided /\ Kind # "heartbeat"
  BY CycleAssumption DEF Probed
<1>2. /\ inc \in [Ids -> Incident] /\ row \in Row /\ pc \in [Writers -> PCs] /\ outcome[r] \in States
      /\ plan \in [Writers -> Plan] /\ snap \in [Writers -> Row] /\ work \in [Writers -> Works]
  BY <1>1, WriterTypes, Parts DEF ActorType
<1>3. pc[r] \in Planning /\ UNCHANGED <<db, world>> /\ active
  BY DEF Probe, Recheck, RunRead, Planning, PointerInv
<1>4. /\ plan[r] = NoPlan /\ snap[r] = row /\ work[r] \in {"none", "check", "maintenance"}
      /\ work[r] = "maintenance" => row.state # "maintenance"
      /\ OneOpen
  BY <1>3 DEF PointerInv, UpToDate
<1>5. OneOpen' /\ active' /\ row' = row /\ inc' = inc
  BY <1>3, <1>4 DEF OneOpen, db, world
<1>6. \A v \in Runs : v # r => pc[v] = "idle"
  BY <1>1, <1>3, OthersIdle DEF Planning
<1>7. CASE Probe(r) \/ Recheck(r)
  <2>1. /\ pc'[r] \in Planning /\ plan' = plan /\ snap' = snap /\ work'[r] \in {work[r], "none"}
        /\ \A v \in Runs : v # r => pc'[v] = pc[v]
    BY <1>1, <1>2, <1>7 DEF Probe, Recheck, Planning
  <2>2. UpToDate(r)'
    BY <1>4, <1>5, <2>1 DEF UpToDate
  <2>3. Fits(inc', plan'[r], snap'[r])
    BY <1>4, <2>1, NothingFits
  <2>. QED BY <1>5, <1>6, <2>1, <2>2, <2>3, PointerMoves
<1>8. CASE RunRead(r)
  <2>1. /\ pc'[r] = "whole" /\ \A v \in Runs : v # r => pc'[v] = pc[v] /\ plan'[v] = plan[v]
        /\ snap'[r] = row
    BY <1>1, <1>2, <1>4, <1>8 DEF RunRead
  <2>2. PICK c \in Contexts : plan'[r] = CASE work[r] = "check"      -> planCheckResult(snap[r], TRUE, outcome[r], c)
                                          [] work[r] = "missed"     -> planHeartbeatMissed(row, at[r], c)
                                          [] work[r] = "warm"       -> planWarmHeartbeat(at[r])
                                          [] work[r] \in Suppressing -> planPausedState(snap[r], work[r])
                                          [] OTHER                  -> NoPlan
    BY <1>1, <1>2, <1>8 DEF RunRead
  <2>3. CASE work[r] = "check"
    <3>a. plan'[r] = planCheckResult(snap[r], TRUE, outcome[r], c)
      BY <2>2, <2>3 DEF Suppressing
    <3>1. plan'[r] = planCheckResult(row, TRUE, outcome[r], c)
      BY <1>4, <3>a
    <3>2. Fits(inc', plan'[r], snap'[r])
      BY <1>2, <1>4, <1>5, <2>1, <3>1, CheckFits
    <3>3. UpToDate(r)'
      BY <2>1 DEF UpToDate, Planning
    <3>. QED BY <1>5, <1>6, <2>1, <3>2, <3>3, PointerMoves
  <2>4. CASE work[r] = "maintenance"
    <3>1. plan'[r] = planPausedState(row, "maintenance")
      BY <1>4, <2>2, <2>4 DEF Suppressing
    <3>2. Fits(inc', plan'[r], snap'[r])
      BY <1>2, <1>4, <1>5, <2>1, <2>4, <3>1, PausedFits
    <3>3. UpToDate(r)'
      BY <2>1 DEF UpToDate, Planning
    <3>. QED BY <1>5, <1>6, <2>1, <3>2, <3>3, PointerMoves
  <2>5. CASE work[r] = "none"
    <3>1. plan'[r] = NoPlan
      BY <2>2, <2>5 DEF Suppressing
    <3>2. UpToDate(r)'
      BY <2>1 DEF UpToDate, Planning
    <3>. QED BY <1>5, <1>6, <2>1, <3>1, <3>2, NothingFits, PointerMoves
  <2>. QED BY <1>4, <2>3, <2>4, <2>5
<1>. QED BY <1>7, <1>8

LEMMA PointerStarts ==
    ASSUME IInv, LeaseInv, PointerInv, Probed, NEW r \in Runs, RunStart(r)
    PROVE  PointerInv'
<1>1. r \in Writers /\ Runs \subseteq Writers /\ ~MayOverrun /\ Kind # "heartbeat" /\ NoId \notin Writers
  BY CycleAssumption, NullAssumption DEF Probed, Undivided
<1>2. /\ pc \in [Writers -> PCs] /\ snap \in [Writers -> Row] /\ work \in [Writers -> Works]
  BY Parts DEF ActorType
<1>3. /\ pc[r] = "idle" /\ LeaseFree /\ UNCHANGED <<db, world>> /\ snap' = [snap EXCEPT ![r] = row] /\ plan' = plan
      /\ active /\ OneOpen /\ plan[r] = NoPlan
  BY DEF RunStart, PointerInv, UpToDate
<1>4. \A v \in Runs : pc[v] = "idle"
  BY <1>1, <1>3 DEF LeaseInv, LeaseFree
<1>5. PICK does \in Classified :
        work' = [work EXCEPT ![r] = does] /\ pc' = [pc EXCEPT ![r] = IF does = "check" THEN "probe" ELSE "read"]
  BY DEF RunStart
<1>6. does \in {"none", "check", "maintenance"} /\ (does = "maintenance" => row.state # "maintenance")
  BY <1>1, <1>3 DEF Classified
<1>7. /\ pc'[r] \in Planning /\ work'[r] = does /\ snap'[r] = row
      /\ \A v \in Runs : v # r => pc'[v] = pc[v]
  BY <1>1, <1>2, <1>3, <1>5 DEF Planning
<1>8. OneOpen' /\ active' /\ row' = row /\ inc' = inc
  BY <1>3 DEF OneOpen, db, world
<1>9. UpToDate(r)'
  BY <1>3, <1>6, <1>7, <1>8 DEF UpToDate
<1>10. Fits(inc', plan'[r], snap'[r])
  BY <1>3, NothingFits
<1>. QED BY <1>3, <1>4, <1>7, <1>8, <1>9, <1>10, PointerMoves

\* A run that is over is as if it had not been.
LEMMA PointerEnds ==
    ASSUME IInv, LeaseInv, PointerInv, Probed, NEW w \in Runs, Reset(w), pc[w] # "idle", UNCHANGED <<db, world>>
    PROVE  PointerInv'
<1>1. w \in Writers /\ Runs \subseteq Writers /\ Undivided
  BY CycleAssumption DEF Probed
<1>2. /\ pc'[w] = "idle" /\ plan'[w] = NoPlan
      /\ \A v \in Runs : v # w => pc'[v] = pc[v] /\ plan'[v] = plan[v]
  BY <1>1, Parts DEF ActorType, Reset
<1>3. OneOpen' /\ active'
  BY DEF PointerInv, OneOpen, db, world
<1>4. UpToDate(w)' /\ Fits(inc', plan'[w], snap'[w])
  BY <1>2, NothingFits DEF UpToDate, Planning
<1>. QED BY <1>1, <1>2, <1>3, <1>4, OthersIdle, PointerMoves

LEMMA PointerRests ==
    ASSUME PointerInv, UNCHANGED <<db, local>>, active' = active
    PROVE  PointerInv'
  BY DEF PointerInv, OneOpen, Fits, UpToDate, db, local

LEMMA PointerKept == IInv /\ IInv' /\ LeaseInv /\ PointerInv /\ Probed /\ [Next]_vars => PointerInv'
<1>. SUFFICES ASSUME IInv, IInv', LeaseInv, PointerInv, Probed, [Next]_vars
              PROVE  PointerInv'
  OBVIOUS
<1>0. Requests = {} /\ Writers = Runs /\ "schedule" \notin Turns
  BY RunsAlone DEF Probed, Undivided
<1>1. CASE Environment
  <2>1. UNCHANGED <<db, local>> /\ active' = active
    BY <1>0, <1>1 DEF Environment, SetMaintenance, SetPaused, ScheduleTurns, HealthTurns, DeadlinePasses,
                      LeaseExpires, world
  <2>. QED BY <2>1, PointerRests
<1>2. ASSUME NEW r \in Runs, RunStep(r)
      PROVE  PointerInv'
  <2>1. CASE RunFinish(r)
    BY <2>1, PointerEnds DEF RunFinish
  <2>2. CASE Probe(r) \/ Recheck(r) \/ RunRead(r)
    BY <2>2, PointerPlans
  <2>3. CASE Write(r) \/ Repair(r) \/ OutOfBudget(r)
    BY <2>3, PointerWrites
  <2>. QED BY <1>2, <2>1, <2>2, <2>3 DEF RunStep
<1>3. ASSUME NEW r \in Runs, Crash(r)
      PROVE  PointerInv'
  BY <1>3, PointerEnds DEF Crash
<1>4. CASE UNCHANGED vars
  BY <1>4, PointerRests DEF vars, world
<1>. QED BY <1>0, <1>1, <1>2, <1>3, <1>4, PointerStarts DEF Next

\* A new install agrees.
LEMMA PointerInit == Init => PointerInv
<1>. SUFFICES ASSUME Init
              PROVE  PointerInv
  OBVIOUS
<1>1. OneOpen
  BY DEF Init, OneOpen, OpenIs, OpenOnes, NoIncident, NewRow
<1>2. Runs \subseteq Writers
  BY CycleAssumption
<1>3. ASSUME NEW r \in Runs
      PROVE  Fits(inc, plan[r], snap[r]) /\ UpToDate(r)
  <2>1. plan[r] = NoPlan /\ pc[r] = "idle"
    BY <1>2 DEF Init
  <2>. QED BY <2>1, NothingFits DEF UpToDate, Planning
<1>. QED BY <1>1, <1>3 DEF Init, PointerInv

LEMMA LeaseInvariant == Spec => []LeaseInv
<1>1. Init => LeaseInv
  BY CycleAssumption DEF Init, LeaseInv
<1>. QED BY <1>1, LeaseKept, TypeCorrect, PTL DEF Spec

(* "The state's incident pointer never disagrees with the incidents table"   *)
(* (batch.ts), for a probed monitor without a schedule that only runs write, *)
(* and for any number of runs, incidents, failed or doubly landed batches    *)
(* and crashes.                                                              *)
THEOREM PointerIsRight == Probed /\ Spec => []PointerAgrees
<1>1. IInv /\ PointerInv => PointerAgrees
  BY PointerIsActive DEF IInv, TypeOK, PointerInv, PointerAgrees
<1>2. Probed => []Probed
  <2>1. Probed => Probed'
    BY DEF Probed, Undivided
  <2>. QED BY <2>1, PTL
<1>3. Probed /\ Spec => []PointerInv
  BY <1>2, PointerInit, PointerKept, Invariant, LeaseInvariant, PTL DEF Spec
<1>. QED BY <1>1, <1>3, Invariant, PTL

-----------------------------------------------------------------------------
(* Alerts that come too late.                                               *)

LEMMA OpenMoves ==
    ASSUME OpenInv, NEW w \in Runs, StillOpen(w)',
           \A v \in Runs : v # w => /\ pc[v] = "idle" /\ pc'[v] = "idle"
                                    /\ plan'[v] = plan[v] /\ repair'[v] = repair[v]
    PROVE  OpenInv'
<1>1. ASSUME NEW v \in Runs, v # w
      PROVE  StillOpen(v)'
  <2>1. pc'[v] = "idle" /\ plan'[v] = NoPlan /\ repair'[v] = NoRepair
    BY <1>1 DEF OpenInv, StillOpen
  <2>. QED BY <2>1 DEF StillOpen, Planning, NoRepair
<1>. QED BY <1>1 DEF OpenInv

\* A core that lands leaves the incident it opens open, and every other it does
\* not resolve.
LEMMA CoreLeavesOpen ==
    ASSUME IInv, NEW w \in Writers, CoreLandsNow(w)
    PROVE  /\ plan[w].open \in Ids => inc'[plan[w].open].status = "open"
           /\ \A i \in Ids : inc[i].status = "open" /\ i # plan[w].resolve => inc'[i].status = "open"
<1>. DEFINE m == IncAfter(inc, row, snap[w], plan[w])
<1>1. \A i \in Ids :
        /\ inc'[i].status = m[i].status /\ inc[i] \in Incident
        /\ m[i] = IF i = plan[w].open
                  THEN [status |-> "open", notified |-> plan[w].settled, flapping |-> plan[w].flapping,
                        missed |-> plan[w].missed]
                  ELSE IF i = plan[w].resolve /\ inc[i].status = "open" /\ Lands(row, snap[w], plan[w])
                  THEN [inc[i] EXCEPT !.status = "resolved"]
                  ELSE IF i = plan[w].observe THEN [inc[i] EXCEPT !.missed = plan[w].missed]
                  ELSE inc[i]
  BY WriterTypes DEF CoreLandsNow, IncAfter
<1>. HIDE DEF m
<1>2. ASSUME NEW i \in Ids, i = plan[w].open
      PROVE  inc'[i].status = "open"
  <2>1. m[i] = [status |-> "open", notified |-> plan[w].settled, flapping |-> plan[w].flapping,
                missed |-> plan[w].missed]
    BY <1>1, <1>2
  <2>2. m[i].status = "open"
    BY <2>1
  <2>. QED BY <1>1, <2>2
<1>3. ASSUME NEW i \in Ids, i # plan[w].open, i # plan[w].resolve, inc[i].status = "open"
      PROVE  inc'[i].status = "open"
  <2>1. m[i] \in {[inc[i] EXCEPT !.missed = plan[w].missed], inc[i]}
    BY <1>1, <1>3
  <2>. QED BY <1>1, <1>3, <2>1 DEF Incident
<1>. QED BY <1>2, <1>3

LEMMA OpenWrites ==
    ASSUME IInv, LeaseInv, OpenInv, Undivided, NEW w \in Runs, Write(w) \/ Repair(w) \/ OutOfBudget(w)
    PROVE  OpenInv'
<1>1. /\ pc[w] \in Writings
      /\ \E n \in Writings : Goes(w, n)
      /\ Marks \/ CoreLandsNow(w) \/ FallbackLands(w)
      /\ pc'[w] = "alert" => CoreLandsNow(w)
  BY WriteEffects
<1>2. w \in Writers /\ Runs \subseteq Writers /\ NoId \notin Ids
  BY CycleAssumption, NullAssumption
<1>3. /\ inc \in [Ids -> Incident] /\ pc \in [Writers -> PCs] /\ plan[w].open \in Ids \cup {NoId}
      /\ repair[w].event # "none" => repair[w].id \in Ids
  BY <1>2, WriterTypes, WriterReady
<1>4. /\ pc'[w] \in Writings /\ plan' = plan /\ repair' = repair /\ work' = work
      /\ \A v \in Runs : v # w => pc[v] = "idle" /\ pc'[v] = "idle"
  <2>1. pc[w] # "idle"
    BY <1>1 DEF Writings
  <2>. QED BY <1>1, <1>2, <1>3, <2>1, OthersIdle DEF Goes
<1>5. StillOpen(w)
  BY DEF OpenInv
<1>6. \A i \in Ids : inc[i].status = "open" /\ i # plan[w].resolve => inc'[i].status = "open"
  BY <1>1, <1>2, CoreLeavesOpen DEF Marks, FallbackLands
<1>7. pc'[w] = "alert" /\ plan'[w].open # NoId => inc'[plan'[w].open].status = "open"
  BY <1>1, <1>2, <1>3, <1>4, CoreLeavesOpen
<1>8. repair'[w].event # "none" /\ work'[w] \notin Suppressing =>
         inc'[repair'[w].id].status = "open" /\ plan'[w].resolve # repair'[w].id
  BY <1>3, <1>4, <1>5, <1>6 DEF StillOpen
<1>9. StillOpen(w)'
  BY <1>4, <1>7, <1>8 DEF StillOpen, Writings, Planning
<1>. QED BY <1>4, <1>9, OpenMoves

\* A plan resolves an incident only with a result that is fine, or a paused state.
LEMMA FailureResolvesNone ==
    ASSUME NEW base \in Plan, base.resolve = NoId, NEW event, NEW c \in Contexts
    PROVE  Transition(base, FALSE, event, c).resolve = NoId
<1>. DEFINE t == Transition(base, FALSE, event, c)
<1>1. c.read \in BOOLEAN
  BY ContextType
<1>2. CASE ~c.read
  <2>1. t = [base EXCEPT !.inc = FALSE]
    BY <1>2 DEF Transition
  <2>. QED BY <2>1 DEF Plan
<1>3. CASE c.read /\ Active(inc) # NoId
  <2>1. t = [base EXCEPT !.ptr = Active(inc), !.observe = Active(inc)]
    BY <1>3 DEF Transition
  <2>. QED BY <2>1 DEF Plan
<1>4. CASE c.read /\ Active(inc) = NoId
  <2>1. \E a, b : t = [base EXCEPT !.ptr = c.id, !.open = c.id, !.flapping = c.flapping, !.alert = a, !.settled = b]
    BY <1>4, Zenon DEF Transition
  <2>. QED BY <2>1 DEF Plan
<1>. QED BY <1>1, <1>2, <1>3, <1>4

LEMMA FailuresResolveNone ==
    ASSUME NEW cur, NEW out \in States, ~Ok(out), NEW c \in Contexts
    PROVE  planCheckResult(cur, TRUE, out, c).resolve = NoId
<1>. DEFINE base == [NoPlan EXCEPT !.kind = "check", !.state = out, !.inc = TRUE, !.line = TRUE]
            t == planCheckResult(cur, TRUE, out, c)
<1>1. base.resolve = NoId /\ base \in Plan
  BY DEF NoPlan, Plan, States, Events, OpeningEvents
<1>2. CASE NeedsIncident(out, cur, TRUE)
  <2>1. t = Transition(base, Ok(out), "down", c)
    BY <1>2 DEF planCheckResult
  <2>2. Ok(out) = FALSE
    BY DEF Ok
  <2>3. t = Transition(base, FALSE, "down", c)
    BY <2>1, <2>2
  <2>4. Transition(base, FALSE, "down", c).resolve = NoId
    <3>. HIDE DEF base
    <3>. QED BY <1>1, FailureResolvesNone
  <2>. QED BY <2>3, <2>4
<1>3. CASE ~NeedsIncident(out, cur, TRUE)
  <2>1. t = [base EXCEPT !.ptr = cur.ptr] \/ t = base
    BY <1>3 DEF planCheckResult, Ok
  <2>2. t.resolve = NoId
    <3>. HIDE DEF base
    <3>. QED BY <1>1, <2>1 DEF Plan
  <2>. QED BY <2>2
<1>. QED BY <1>2, <1>3

LEMMA MissedResolvesNone ==
    ASSUME NEW cur, NEW horizon, NEW c \in Contexts
    PROVE  planHeartbeatMissed(cur, horizon, c).resolve = NoId
<1>. DEFINE base == [NoPlan EXCEPT !.kind = "missed", !.state = "down", !.inc = TRUE,
                                   !.missed = TRUE, !.line = cur.state # "down"]
            t == planHeartbeatMissed(cur, horizon, c)
<1>1. base.resolve = NoId /\ base \in Plan
  BY DEF NoPlan, Plan, States, Events, OpeningEvents
<1>2. t = NoPlan \/ t = Transition(base, FALSE, "heartbeat_missed", c)
  BY DEF planHeartbeatMissed
<1>3. Transition(base, FALSE, "heartbeat_missed", c).resolve = NoId /\ NoPlan.resolve = NoId
  BY <1>1, FailureResolvesNone DEF NoPlan
<1>. QED BY <1>2, <1>3

LEMMA OpenPlans ==
    ASSUME IInv, LeaseInv, OpenInv, Undivided, NEW r \in Runs, Probe(r) \/ Recheck(r) \/ RunRead(r)
    PROVE  OpenInv'
<1>1. r \in Writers /\ Runs \subseteq Writers /\ NoId \notin Ids
  BY CycleAssumption, NullAssumption
<1>2. /\ inc \in [Ids -> Incident] /\ pc \in [Writers -> PCs] /\ outcome[r] \in States
      /\ plan \in [Writers -> Plan] /\ work \in [Writers -> Works]
      /\ repair \in [Writers -> [id : Ids \cup {NoId}, event : OpeningEvents \cup {"none"}]]
      /\ repair[r].event # "none" => repair[r].id \in Ids
  BY <1>1, WriterTypes, WriterReady, Parts DEF ActorType
<1>3. pc[r] \in Planning /\ inc' = inc
  BY DEF Probe, Recheck, RunRead, Planning, db
<1>4. /\ plan[r] = NoPlan /\ StillOpen(r)
      /\ repair[r].event # "none" /\ work[r] \notin Suppressing => inc[repair[r].id].status = "open"
  BY <1>3 DEF OpenInv, StillOpen
<1>5. \A v \in Runs : v # r => pc[v] = "idle"
  BY <1>3, OthersIdle DEF Planning
<1>6. CASE Probe(r) \/ Recheck(r)
  <2>1. /\ pc'[r] \in Planning /\ plan' = plan /\ repair' = repair
        /\ \A v \in Runs : v # r => pc'[v] = pc[v]
    BY <1>1, <1>2, <1>6 DEF Probe, Recheck, Planning
  <2>2. work[r] = "check" /\ pc'[r] \in {"recheck", "read"} /\ (pc'[r] = "recheck" => work' = work)
    BY <1>1, <1>2, <1>4, <1>6 DEF Probe, Recheck, StillOpen
  <2>3. work[r] \notin Suppressing
    BY <2>2 DEF Suppressing
  <2>4. StillOpen(r)'
    BY <1>3, <1>4, <2>1, <2>2, <2>3 DEF StillOpen, Planning, NoPlan
  <2>. QED BY <1>5, <2>1, <2>4, OpenMoves
<1>7. CASE RunRead(r)
  <2>1. /\ pc'[r] = "whole" /\ work' = work
        /\ \A v \in Runs : v # r => pc'[v] = pc[v] /\ plan'[v] = plan[v] /\ repair'[v] = repair[v]
    BY <1>1, <1>2, <1>7 DEF RunRead
  <2>2. PICK c \in Contexts :
          /\ plan'[r] = CASE work[r] = "check"      -> planCheckResult(snap[r], TRUE, outcome[r], c)
                          [] work[r] = "missed"     -> planHeartbeatMissed(row, at[r], c)
                          [] work[r] = "warm"       -> planWarmHeartbeat(at[r])
                          [] work[r] \in Suppressing -> planPausedState(snap[r], work[r])
                          [] OTHER                  -> NoPlan
          /\ repair'[r] = IF repair[r] = NoRepair THEN repair[r] ELSE Repaired(r, c)
    BY <1>1, <1>2, <1>7 DEF RunRead
  <2>3. ASSUME repair'[r].event # "none", work'[r] \notin Suppressing
        PROVE  inc'[repair'[r].id].status = "open" /\ plan'[r].resolve # repair'[r].id
    <3>1. repair'[r] = repair[r] /\ ~(work[r] = "check" /\ Ok(outcome[r]))
      <4>1. repair[r] \in [id : Ids \cup {NoId}, event : OpeningEvents \cup {"none"}]
        BY <1>1, <1>2
      <4>2. [repair[r] EXCEPT !.event = "none"].event = "none" /\ NoRepair.event = "none"
        BY <4>1 DEF NoRepair
      <4>. QED BY <2>2, <2>3, <4>2 DEF Repaired
    <3>2. inc[repair[r].id].status = "open" /\ repair[r].id \in Ids
      BY <1>2, <1>4, <2>1, <2>3, <3>1
    <3>3. plan'[r].resolve = NoId
      <4>1. CASE work[r] = "check"
        <5>1. plan'[r] = planCheckResult(snap[r], TRUE, outcome[r], c)
          BY <2>2, <4>1 DEF Suppressing
        <5>2. ~Ok(outcome[r]) /\ outcome[r] \in States
          BY <1>2, <3>1, <4>1
        <5>3. planCheckResult(snap[r], TRUE, outcome[r], c).resolve = NoId
          BY <5>2, FailuresResolveNone
        <5>. QED BY <5>1, <5>3
      <4>2. CASE work[r] = "missed"
        <5>1. plan'[r] = planHeartbeatMissed(row, at[r], c)
          BY <2>2, <4>2 DEF Suppressing
        <5>. QED BY <5>1, MissedResolvesNone
      <4>3. CASE work[r] = "warm"
        <5>1. plan'[r] = planWarmHeartbeat(at[r])
          BY <2>2, <4>3 DEF Suppressing
        <5>. QED BY <5>1 DEF planWarmHeartbeat, NoPlan
      <4>4. CASE work[r] \notin {"check", "missed", "warm"}
        <5>1. plan'[r] = NoPlan
          BY <2>1, <2>2, <2>3, <4>4
        <5>. QED BY <5>1 DEF NoPlan
      <4>. QED BY <4>1, <4>2, <4>3, <4>4
    <3>. QED BY <1>1, <1>3, <3>1, <3>2, <3>3
  <2>4. StillOpen(r)'
    BY <2>1, <2>3 DEF StillOpen, Planning
  <2>. QED BY <1>5, <2>1, <2>4, OpenMoves
<1>. QED BY <1>6, <1>7

\* A run that starts finds its monitor's open incident, and no other run is under way.
LEMMA OpenStarts ==
    ASSUME IInv, LeaseInv, OpenInv, Undivided, NEW r \in Runs, RunStart(r)
    PROVE  OpenInv'
<1>1. r \in Writers /\ Runs \subseteq Writers /\ ~MayOverrun /\ NoId \notin Writers
  BY CycleAssumption, NullAssumption DEF Undivided
<1>2. /\ pc \in [Writers -> PCs] /\ work \in [Writers -> Works] /\ inc \in [Ids -> Incident]
      /\ repair \in [Writers -> [id : Ids \cup {NoId}, event : OpeningEvents \cup {"none"}]]
  BY <1>1, WriterTypes, Parts DEF ActorType
<1>3. /\ pc[r] = "idle" /\ LeaseFree /\ UNCHANGED db /\ plan' = plan
      /\ repair' = [repair EXCEPT ![r] = Unnotified] /\ plan[r] = NoPlan
  BY DEF RunStart, OpenInv, StillOpen
<1>4. \A v \in Runs : pc[v] = "idle"
  BY <1>1, <1>3 DEF LeaseInv, LeaseFree
<1>5. PICK does \in Classified :
        work' = [work EXCEPT ![r] = does] /\ pc' = [pc EXCEPT ![r] = IF does = "check" THEN "probe" ELSE "read"]
  BY DEF RunStart
<1>6. /\ pc'[r] \in {"probe", "read"} /\ (pc'[r] = "probe" => work'[r] = "check")
      /\ \A v \in Runs : v # r => pc'[v] = pc[v] /\ repair'[v] = repair[v]
  BY <1>1, <1>2, <1>3, <1>5
<1>7. repair'[r].event # "none" => inc'[repair'[r].id].status = "open"
  <2>1. repair'[r] = Unnotified
    BY <1>1, <1>2, <1>3
  <2>2. Unnotified.event # "none" => Active(inc) # NoId /\ Unnotified.id = Active(inc)
    BY DEF Unnotified, NoRepair
  <2>. QED BY <1>2, <1>3, <2>1, <2>2, ActiveFound DEF db
<1>8. repair'[r].event # "none" => repair'[r].id # NoId
  <2>1. repair'[r] = Unnotified
    BY <1>1, <1>2, <1>3
  <2>. QED BY <2>1 DEF Unnotified, NoRepair
<1>9. StillOpen(r)'
  BY <1>3, <1>6, <1>7, <1>8 DEF StillOpen, Planning, NoPlan
<1>. QED BY <1>3, <1>4, <1>6, <1>9, OpenMoves

LEMMA OpenEnds ==
    ASSUME IInv, LeaseInv, OpenInv, Undivided, NEW w \in Runs, Reset(w), pc[w] # "idle", UNCHANGED db
    PROVE  OpenInv'
<1>1. w \in Writers /\ Runs \subseteq Writers
  BY CycleAssumption
<1>2. /\ pc'[w] = "idle" /\ plan'[w] = NoPlan /\ repair'[w] = NoRepair
      /\ \A v \in Runs : v # w => pc'[v] = pc[v] /\ plan'[v] = plan[v] /\ repair'[v] = repair[v]
  BY <1>1, Parts DEF ActorType, Reset
<1>3. StillOpen(w)'
  BY <1>2 DEF StillOpen, Planning, NoRepair
<1>. QED BY <1>1, <1>2, <1>3, OthersIdle, OpenMoves

LEMMA OpenRests ==
    ASSUME OpenInv, UNCHANGED <<db, local>>
    PROVE  OpenInv'
  BY DEF OpenInv, StillOpen, db, local

LEMMA OpenKept == IInv /\ LeaseInv /\ OpenInv /\ Undivided /\ [Next]_vars => OpenInv'
<1>. SUFFICES ASSUME IInv, LeaseInv, OpenInv, Undivided, [Next]_vars
              PROVE  OpenInv'
  OBVIOUS
<1>0. Requests = {} /\ Writers = Runs
  BY RunsAlone
<1>1. CASE Environment
  BY <1>1, OpenRests DEF Environment, SetMaintenance, SetPaused, ScheduleTurns, HealthTurns, DeadlinePasses,
                         LeaseExpires
<1>2. ASSUME NEW r \in Runs, RunStep(r)
      PROVE  OpenInv'
  <2>1. CASE RunFinish(r)
    BY <2>1, OpenEnds DEF RunFinish
  <2>2. CASE Probe(r) \/ Recheck(r) \/ RunRead(r)
    BY <2>2, OpenPlans
  <2>3. CASE Write(r) \/ Repair(r) \/ OutOfBudget(r)
    BY <2>3, OpenWrites
  <2>. QED BY <1>2, <2>1, <2>2, <2>3 DEF RunStep
<1>3. ASSUME NEW r \in Runs, Crash(r)
      PROVE  OpenInv'
  BY <1>3, OpenEnds DEF Crash
<1>4. CASE UNCHANGED vars
  BY <1>4, OpenRests DEF vars
<1>. QED BY <1>0, <1>1, <1>2, <1>3, <1>4, OpenStarts DEF Next

LEMMA OpenInit == Init => OpenInv
<1>. SUFFICES ASSUME Init
              PROVE  OpenInv
  OBVIOUS
<1>1. ASSUME NEW r \in Runs
      PROVE  StillOpen(r)
  <2>1. plan[r] = NoPlan /\ pc[r] = "idle" /\ repair[r] = NoRepair
    BY CycleAssumption DEF Init
  <2>. QED BY <2>1 DEF StillOpen, Planning, NoRepair
<1>. QED BY <1>1 DEF OpenInv

\* What NoLateAlert says of one step.
AlertInTime ==
    \A i \in Ids, e \in OpeningEvents :
        <<e, i>> \in alerts' \ alerts /\ (\A r \in Runs : work[r] \notin Suppressing)
        => inc'[i].status = "open"

LEMMA AlertsAreInTime ==
    ASSUME IInv, OpenInv, Undivided, [Next]_vars
    PROVE  AlertInTime
<1>0. Requests = {} /\ Writers = Runs
  BY RunsAlone
<1>1. CASE alerts' = alerts
  BY <1>1 DEF AlertInTime
<1>2. ASSUME NEW w \in Runs, Write(w) \/ Repair(w) \/ OutOfBudget(w)
      PROVE  AlertInTime
  <2>1. /\ pc[w] \in Writings
        /\ Marks \/ CoreLandsNow(w) \/ FallbackLands(w)
        /\ QueuesNoMore(w)
    BY <1>2, WriteEffects
  <2>2. NoId \notin Ids /\ StillOpen(w) /\ w \in Writers
    BY NullAssumption, CycleAssumption DEF OpenInv
  <2>3. ASSUME NEW i \in Ids, NEW e \in OpeningEvents, <<e, i>> \in alerts' \ alerts, work[w] \notin Suppressing
        PROVE  inc'[i].status = "open"
    <3>1. QueuedBy(w, i)
      BY <2>1, <2>3 DEF QueuesNoMore
    <3>2. CASE i = plan[w].open /\ CoreLandsNow(w)
      BY <2>2, <3>2, CoreLeavesOpen
    <3>3. CASE i = plan[w].open /\ pc[w] = "alert"
      <4>1. inc[i].status = "open"
        BY <2>2, <3>3 DEF StillOpen
      <4>. QED BY <2>1, <2>2, <3>3, <4>1, CoreLeavesOpen DEF Marks, FallbackLands
    <3>4. CASE i = repair[w].id /\ repair[w].event # "none"
      <4>1. inc[i].status = "open" /\ i # plan[w].resolve
        BY <2>2, <2>3, <3>4 DEF StillOpen
      <4>. QED BY <2>1, <2>2, <4>1, CoreLeavesOpen DEF Marks, FallbackLands
    <3>. QED BY <3>1, <3>2, <3>3, <3>4 DEF QueuedBy
  <2>. QED BY <2>3 DEF AlertInTime
<1>3. CASE Environment
  BY <1>1, <1>3 DEF Environment, SetMaintenance, SetPaused, ScheduleTurns, HealthTurns, DeadlinePasses,
                    LeaseExpires, db
<1>4. ASSUME NEW r \in Runs, RunStart(r) \/ RunStep(r) \/ Crash(r)
      PROVE  AlertInTime
  <2>1. CASE RunStart(r) \/ Probe(r) \/ Recheck(r) \/ RunRead(r) \/ RunFinish(r) \/ Crash(r)
    BY <1>1, <2>1 DEF RunStart, Probe, Recheck, RunRead, RunFinish, Crash, db
  <2>. QED BY <1>2, <1>4, <2>1 DEF RunStep
<1>5. CASE UNCHANGED vars
  BY <1>1, <1>5 DEF vars, db
<1>. QED BY <1>0, <1>3, <1>4, <1>5 DEF Next

(* A recovery is never followed by a late down alert, when only runs write   *)
(* the monitor and no run outlives its lease, for every kind of monitor and  *)
(* however its batches fail: what a run queues an opening alert for is open  *)
(* when it queues it.                                                        *)
THEOREM NoAlertTooLate == Undivided /\ Spec => NoLateAlert
<1>1. Undivided => []Undivided
  <2>1. Undivided => Undivided'
    BY DEF Undivided
  <2>. QED BY <2>1, PTL
<1>2. Undivided /\ Spec => []OpenInv
  BY <1>1, OpenInit, OpenKept, Invariant, LeaseInvariant, PTL DEF Spec
<1>3. IInv /\ OpenInv /\ Undivided /\ [Next]_vars => [AlertInTime]_vars
  BY AlertsAreInTime
<1>. QED BY <1>1, <1>2, <1>3, Invariant, PTL DEF Spec, NoLateAlert, AlertInTime

-----------------------------------------------------------------------------
(* What one write does to the row and to the timeline.                      *)

\* A plan of a result or of a beat is the plan it is based on, completed.
LEMMA LinesArePlanned ==
    ASSUME NEW base \in Plan, NEW ok \in BOOLEAN, NEW event, NEW c \in Contexts
    PROVE  Transition(base, ok, event, c).line = base.line
<1>. DEFINE t == Transition(base, ok, event, c)
<1>1. c.read \in BOOLEAN
  BY ContextType
<1>2. CASE ~c.read
  <2>1. t = [base EXCEPT !.inc = FALSE]
    BY <1>2 DEF Transition
  <2>. QED BY <2>1 DEF Plan
<1>3. CASE c.read /\ ~ok /\ Active(inc) # NoId
  <2>1. t = [base EXCEPT !.ptr = Active(inc), !.observe = Active(inc)]
    BY <1>3 DEF Transition
  <2>. QED BY <2>1 DEF Plan
<1>4. CASE c.read /\ ~ok /\ Active(inc) = NoId
  <2>1. \E a, b : t = [base EXCEPT !.ptr = c.id, !.open = c.id, !.flapping = c.flapping, !.alert = a, !.settled = b]
    BY <1>4, Zenon DEF Transition
  <2>. QED BY <2>1 DEF Plan
<1>5. CASE c.read /\ ok /\ Active(inc) = NoId
  BY <1>5 DEF Transition
<1>6. CASE c.read /\ ok /\ Active(inc) # NoId
  <2>1. \E a : t = [base EXCEPT !.resolve = Active(inc), !.alert = a]
    BY <1>6, Zenon DEF Transition
  <2>. QED BY <2>1 DEF Plan
<1>. QED BY <1>1, <1>2, <1>3, <1>4, <1>5, <1>6

LEMMA CheckSendsLine ==
    ASSUME NEW cur, NEW known, NEW out \in States, NEW c \in Contexts
    PROVE  planCheckResult(cur, known, out, c).line
<1>. DEFINE base == [NoPlan EXCEPT !.kind = "check", !.state = out, !.inc = TRUE, !.line = TRUE]
            t == planCheckResult(cur, known, out, c)
<1>1. base.line = TRUE /\ base \in Plan
  BY DEF NoPlan, Plan, States, Events, OpeningEvents
<1>2. CASE NeedsIncident(out, cur, known)
  <2>1. t = Transition(base, Ok(out), "down", c)
    BY <1>2 DEF planCheckResult
  <2>2. Ok(out) \in BOOLEAN
    BY DEF Ok
  <2>3. Transition(base, Ok(out), "down", c).line = TRUE
    <3>. HIDE DEF base
    <3>. QED BY <1>1, <2>2, LinesArePlanned
  <2>. QED BY <2>1, <2>3
<1>3. CASE ~NeedsIncident(out, cur, known)
  <2>1. t = [base EXCEPT !.resolve = cur.ptr] \/ t = [base EXCEPT !.ptr = cur.ptr] \/ t = base
    BY <1>3 DEF planCheckResult
  <2>2. t.line = TRUE
    <3>. HIDE DEF base
    <3>. QED BY <1>1, <2>1 DEF Plan
  <2>. QED BY <2>2
<1>. QED BY <1>2, <1>3

LEMMA BeatSendsLine ==
    ASSUME NEW cur, NEW out \in States, NEW now \in Nat, NEW suppressed \in BOOLEAN, NEW c \in Contexts
    PROVE  planHeartbeat(cur, out, now, suppressed, c).line
<1>. DEFINE base == [NoPlan EXCEPT !.kind = "beat", !.state = out, !.beat = now, !.inc = TRUE, !.line = TRUE]
            t == planHeartbeat(cur, out, now, suppressed, c)
<1>1. base.line = TRUE /\ base \in Plan
  BY DEF NoPlan, Plan, States, Events, OpeningEvents
<1>2. CASE suppressed
  <2>1. t = [base EXCEPT !.ptr = cur.ptr]
    BY <1>2 DEF planHeartbeat
  <2>2. t.line = TRUE
    <3>. HIDE DEF base
    <3>. QED BY <1>1, <2>1 DEF Plan
  <2>. QED BY <2>2
<1>3. CASE ~suppressed
  <2>1. t = Transition(base, Ok(out), "down", c)
    BY <1>3 DEF planHeartbeat
  <2>2. Ok(out) \in BOOLEAN
    BY DEF Ok
  <2>3. Transition(base, Ok(out), "down", c).line = TRUE
    <3>. HIDE DEF base
    <3>. QED BY <1>1, <2>2, LinesArePlanned
  <2>. QED BY <2>1, <2>3
<1>. QED BY <1>2, <1>3

\* The other plans are of other kinds.
LEMMA MissedIsMissed ==
    ASSUME NEW cur, NEW horizon, NEW c \in Contexts
    PROVE  planHeartbeatMissed(cur, horizon, c).kind \in {"none", "missed"}
<1>. DEFINE base == [NoPlan EXCEPT !.kind = "missed", !.state = "down", !.inc = TRUE,
                                   !.missed = TRUE, !.line = cur.state # "down"]
            t == planHeartbeatMissed(cur, horizon, c)
<1>1. base.kind = "missed" /\ base \in Plan
  BY DEF NoPlan, Plan, States, Events, OpeningEvents
<1>2. t = NoPlan \/ t = Transition(base, FALSE, "heartbeat_missed", c)
  BY DEF planHeartbeatMissed
<1>3. Transition(base, FALSE, "heartbeat_missed", c).kind = "missed" /\ NoPlan.kind = "none"
  <2>. HIDE DEF base
  <2>1. \/ Transition(base, FALSE, "heartbeat_missed", c) = [base EXCEPT !.inc = FALSE]
        \/ Transition(base, FALSE, "heartbeat_missed", c) = [base EXCEPT !.ptr = Active(inc), !.observe = Active(inc)]
        \/ \E a, b : Transition(base, FALSE, "heartbeat_missed", c) =
                [base EXCEPT !.ptr = c.id, !.open = c.id, !.flapping = c.flapping, !.alert = a, !.settled = b]
    <3>1. c.read \in BOOLEAN
      BY ContextType
    <3>2. CASE ~c.read
      BY <3>2 DEF Transition
    <3>3. CASE c.read /\ Active(inc) # NoId
      BY <3>3 DEF Transition
    <3>4. CASE c.read /\ Active(inc) = NoId
      BY <3>4, Zenon DEF Transition
    <3>. QED BY <3>1, <3>2, <3>3, <3>4
  <2>. QED BY <1>1, <2>1 DEF Plan, NoPlan
<1>. QED BY <1>2, <1>3

LEMMA RunPlansLine ==
    ASSUME IInv, LineInv, NEW r \in Runs, RunRead(r)
    PROVE  LineInv'
<1>1. r \in Writers /\ plan \in [Writers -> Plan] /\ outcome[r] \in States
  BY CycleAssumption, Parts DEF ActorType
<1>2. PICK c \in Contexts :
        plan' = [plan EXCEPT ![r] =
            CASE work[r] = "check"      -> planCheckResult(snap[r], TRUE, outcome[r], c)
              [] work[r] = "missed"     -> planHeartbeatMissed(row, at[r], c)
              [] work[r] = "warm"       -> planWarmHeartbeat(at[r])
              [] work[r] \in Suppressing -> planPausedState(snap[r], work[r])
              [] OTHER                  -> NoPlan]
  BY DEF RunRead
<1>3. plan'[r] \in {planCheckResult(snap[r], TRUE, outcome[r], c), planHeartbeatMissed(row, at[r], c),
                    planWarmHeartbeat(at[r]), planPausedState(snap[r], work[r]), NoPlan}
  BY <1>1, <1>2
<1>4. /\ planWarmHeartbeat(at[r]).kind = "warm" /\ planPausedState(snap[r], work[r]).kind = "paused"
      /\ NoPlan.kind = "none" /\ planHeartbeatMissed(row, at[r], c).kind \in {"none", "missed"}
      /\ planCheckResult(snap[r], TRUE, outcome[r], c).line
  BY <1>1, MissedIsMissed, CheckSendsLine DEF planWarmHeartbeat, planPausedState, NoPlan
<1>5. plan'[r].kind \in {"check", "beat"} => plan'[r].line
  BY <1>3, <1>4
<1>6. \A w \in Writers : w # r => plan'[w] = plan[w]
  BY <1>1, <1>2
<1>. QED BY <1>5, <1>6 DEF LineInv

LEMMA RequestPlansLine ==
    ASSUME IInv, LineInv, NEW q \in Requests, RequestRead(q)
    PROVE  LineInv'
<1>1. q \in Writers /\ plan \in [Writers -> Plan] /\ outcome[q] \in States /\ at[q] \in Nat
  BY CycleAssumption, Parts DEF ActorType
<1>2. PICK c \in Contexts :
        plan' = [plan EXCEPT ![q] =
            CASE work[q] = "beat"       -> planHeartbeat(row, outcome[q], at[q], outcome[q] \in Suppressing, c)
              [] work[q] = "check"      -> planCheckResult(NewRow, FALSE, outcome[q], c)
              [] work[q] \in Suppressing -> planPausedState(row, work[q])
              [] OTHER                  -> NoPlan]
  BY DEF RequestRead
<1>3. plan'[q] \in {planHeartbeat(row, outcome[q], at[q], outcome[q] \in Suppressing, c),
                    planCheckResult(NewRow, FALSE, outcome[q], c), planPausedState(row, work[q]), NoPlan}
  BY <1>1, <1>2
<1>4. /\ planPausedState(row, work[q]).kind = "paused" /\ NoPlan.kind = "none"
      /\ planCheckResult(NewRow, FALSE, outcome[q], c).line
  BY <1>1, CheckSendsLine DEF planPausedState, NoPlan
<1>5. planHeartbeat(row, outcome[q], at[q], outcome[q] \in Suppressing, c).line
  <2>1. PICK b \in BOOLEAN :
          planHeartbeat(row, outcome[q], at[q], outcome[q] \in Suppressing, c) = planHeartbeat(row, outcome[q], at[q], b, c)
    BY DEF planHeartbeat
  <2>2. planHeartbeat(row, outcome[q], at[q], b, c).line
    BY <1>1, BeatSendsLine
  <2>. QED BY <2>1, <2>2
<1>6. plan'[q].kind \in {"check", "beat"} => plan'[q].line
  BY <1>3, <1>4, <1>5
<1>7. \A w \in Writers : w # q => plan'[w] = plan[w]
  BY <1>1, <1>2
<1>. QED BY <1>6, <1>7 DEF LineInv

LEMMA LineStays ==
    ASSUME LineInv, plan' = plan
    PROVE  LineInv'
  BY DEF LineInv

LEMMA LineDropped ==
    ASSUME IInv, LineInv, NEW w \in Writers, Reset(w)
    PROVE  LineInv'
<1>1. /\ plan'[w] = NoPlan
      /\ \A v \in Writers : v # w => plan'[v] = plan[v]
  BY Parts DEF Reset, ActorType
<1>. QED BY <1>1 DEF LineInv, NoPlan

\* Every step of an actor that writes leaves the plans or ends the actor.
LEMMA WriteKeepsPlans ==
    ASSUME NEW w, Write(w)
    PROVE  plan' = plan \/ Reset(w)
<1>1. \A n : Goes(w, n) => plan' = plan
  BY DEF Goes
<1>2. GroupDone(w) => plan' = plan \/ Reset(w)
  BY DEF GroupDone
<1>3. CoreFailed(w) => plan' = plan \/ Reset(w)
  BY <1>1, <1>2 DEF CoreFailed
<1>. QED BY <1>1, <1>2, <1>3 DEF Write, Whole, Together, Everything, Alone, Core, Alert, Fallback, Extras

LEMMA LineKept == IInv /\ LineInv /\ [Next]_vars => LineInv'
<1>. SUFFICES ASSUME IInv, LineInv, [Next]_vars
              PROVE  LineInv'
  OBVIOUS
<1>0. Runs \subseteq Writers /\ Requests \subseteq Writers
  BY CycleAssumption
<1>1. CASE Environment
  BY <1>1, LineStays DEF Environment, SetMaintenance, SetPaused, ScheduleTurns, HealthTurns, DeadlinePasses,
                         LeaseExpires, local
<1>2. ASSUME NEW r \in Runs, RunStart(r) \/ Probe(r) \/ Recheck(r) \/ Repair(r) \/ OutOfBudget(r)
      PROVE  LineInv'
  BY <1>2, LineStays DEF RunStart, Probe, Recheck, Repair, OutOfBudget, Goes
<1>3. ASSUME NEW r \in Runs, RunFinish(r)
      PROVE  LineInv'
  BY <1>0, <1>3, LineDropped DEF RunFinish
<1>4. ASSUME NEW q \in Requests, BeatArrives(q) \/ FirstCheck(q) \/ Probe(q)
      PROVE  LineInv'
  BY <1>4, LineStays DEF BeatArrives, FirstCheck, Probe
<1>5. ASSUME NEW w \in Writers, Write(w)
      PROVE  LineInv'
  BY <1>5, WriteKeepsPlans, LineStays, LineDropped
<1>6. ASSUME NEW w \in Writers, Crash(w)
      PROVE  LineInv'
  BY <1>6, LineDropped DEF Crash
<1>7. CASE UNCHANGED vars
  BY <1>7, LineStays DEF vars, local
<1>. QED BY <1>0, <1>1, <1>2, <1>3, <1>4, <1>5, <1>6, <1>7, RunPlansLine, RequestPlansLine
         DEF Next, RunStep, RequestStep

LEMMA LineInvariant == Spec => []LineInv
<1>1. Init => LineInv
  BY DEF Init, LineInv, NoPlan
<1>. QED BY <1>1, LineKept, Invariant, PTL DEF Spec

\* Only a write touches the row, and only its own monitor_state statement.
Rewrites(w) == \E with \in BOOLEAN : row' = RowAfter(row, snap[w], w, plan[w], with)

LEMMA WriteRow ==
    ASSUME NEW w, Write(w)
    PROVE  row' = row \/ Rewrites(w)
<1>1. WriteWhole(w) => Rewrites(w)
  BY DEF WriteWhole, Rewrites
<1>2. WriteGroup(w) => Rewrites(w)
  BY DEF WriteGroup, Rewrites
<1>3. WriteCore(w) => Rewrites(w)
  BY DEF WriteCore, Rewrites
<1>4. WriteFallback(w) => Rewrites(w)
  BY DEF WriteFallback, Rewrites
<1>5. /\ WriteAlert(w) => row' = row
      /\ WriteLine(w) => row' = row
      /\ UNCHANGED db => row' = row
  BY DEF WriteAlert, WriteLine, db
<1>. QED BY <1>1, <1>2, <1>3, <1>4, <1>5
         DEF Write, Whole, Together, Everything, Alone, Core, Alert, Fallback, Extras, Fails

LEMMA RowChanges ==
    ASSUME [Next]_vars
    PROVE  row' = row \/ \E w \in Writers : Rewrites(w)
<1>0. Runs \subseteq Writers /\ Requests \subseteq Writers
  BY CycleAssumption
<1>1. CASE Environment \/ UNCHANGED vars
  BY <1>1 DEF Environment, SetMaintenance, SetPaused, ScheduleTurns, HealthTurns, DeadlinePasses,
              LeaseExpires, vars, db
<1>2. ASSUME NEW w \in Writers, \/ RunStart(w) \/ Probe(w) \/ Recheck(w) \/ RunRead(w) \/ Repair(w)
                                \/ OutOfBudget(w) \/ RunFinish(w) \/ BeatArrives(w) \/ FirstCheck(w)
                                \/ RequestRead(w) \/ Crash(w)
      PROVE  row' = row
  BY <1>2 DEF RunStart, Probe, Recheck, RunRead, Repair, WriteRepair, Fails, OutOfBudget, RunFinish, BeatArrives,
              FirstCheck, RequestRead, Crash, db
<1>. QED BY <1>0, <1>1, <1>2, WriteRow DEF Next, RunStep, RequestStep

\* A guarded write onto a row whose beat is another than its plan's.
LEMMA GuardHolds ==
    ASSUME NEW r0 \in Row, NEW s, NEW w, NEW p, NEW with, p.kind \in {"paused", "warm"}, r0.beat # s.beat,
           RowAfter(r0, s, w, p, with) # r0
    PROVE  RowAfter(r0, s, w, p, with).state = r0.state /\ RowAfter(r0, s, w, p, with).beat = r0.beat
<1>. DEFINE n == RowAfter(r0, s, w, p, with)
<1>1. p.kind = "paused" /\ r0.state = p.state
  BY DEF RowAfter, Lands, SnapshotGuard
<1>2. CASE s.state = p.state
  <2>1. n = [r0 EXCEPT !.by = w]
    BY <1>1, <1>2 DEF RowAfter
  <2>. QED BY <2>1 DEF Row
<1>3. CASE s.state # p.state
  <2>1. n = [state |-> p.state, beat |-> r0.beat, ptr |-> IF with /\ p.inc THEN p.ptr ELSE r0.ptr, by |-> w]
    BY <1>1, <1>3 DEF RowAfter
  <2>. QED BY <1>1, <2>1
<1>. QED BY <1>2, <1>3

\* A row that a write changed names the writer.
LEMMA WriterIsNamed ==
    ASSUME NEW r0 \in Row, NEW s, NEW w, NEW p, NEW with, RowAfter(r0, s, w, p, with) # r0
    PROVE  RowAfter(r0, s, w, p, with).by = w
<1>1. CASE p.kind = "paused" /\ s.state = p.state
  <2>1. RowAfter(r0, s, w, p, with) = [r0 EXCEPT !.by = w]
    BY <1>1 DEF RowAfter
  <2>. QED BY <2>1 DEF Row
<1>2. CASE ~(p.kind = "paused" /\ s.state = p.state)
  <2>1. RowAfter(r0, s, w, p, with) =
          [state |-> p.state, beat |-> IF p.kind \in {"beat", "warm"} THEN p.beat ELSE r0.beat,
           ptr |-> IF with /\ p.inc THEN p.ptr ELSE r0.ptr, by |-> w]
    BY <1>2 DEF RowAfter
  <2>. QED BY <2>1
<1>. QED BY <1>1, <1>2

BeatStands ==
    \A r \in Runs :
        /\ plan[r].kind \in {"paused", "warm"}
        /\ row'.by = r /\ row' # row
        /\ row.beat # snap[r].beat
        => row'.state = row.state /\ row'.beat = row.beat

LEMMA BeatKept ==
    ASSUME IInv, [Next]_vars
    PROVE  BeatStands
<1>. SUFFICES ASSUME NEW r \in Runs, plan[r].kind \in {"paused", "warm"},
                     row'.by = r, row' # row, row.beat # snap[r].beat
              PROVE  row'.state = row.state /\ row'.beat = row.beat
  BY DEF BeatStands
<1>1. PICK w \in Writers : Rewrites(w)
  BY RowChanges
<1>2. PICK with \in BOOLEAN : row' = RowAfter(row, snap[w], w, plan[w], with)
  BY <1>1 DEF Rewrites
<1>3. row \in Row
  BY DEF IInv, TypeOK
<1>4. w = r
  BY <1>2, <1>3, WriterIsNamed
<1>. QED BY <1>2, <1>3, <1>4, GuardHolds

(* A beat recorded after a run read its monitor survives the run's paused   *)
(* or warm-up write, which snapshotGuard keeps off a row that moved: for    *)
(* every number of runs and requests, however their batches interleave,     *)
(* fail or land twice, and also when runs outlive their leases.             *)
THEOREM BeatsAreKept == Spec => BeatsStand
<1>1. IInv /\ [Next]_vars => [BeatStands]_vars
  BY BeatKept
<1>. QED BY <1>1, Invariant, PTL DEF Spec, BeatsStand, BeatStands

\* The write that ends a group at its first try.
LEMMA FirstTry ==
    ASSUME IInv, NEW w \in Writers, [Next]_vars,
           pc[w] = "whole", pc'[w] \in {"finish", "idle"}, faults' = faults
    PROVE  WriteWhole(w)
<1>0. Runs \subseteq Writers /\ Requests \subseteq Writers /\ pc \in [Writers -> PCs] /\ faults \in Nat
  BY CycleAssumption, Parts DEF ActorType, WorldType
<1>1. pc'[w] # pc[w] /\ pc' # pc
  OBVIOUS
<1>2. ~Environment /\ ~UNCHANGED vars
  BY <1>1 DEF Environment, SetMaintenance, SetPaused, ScheduleTurns, HealthTurns, DeadlinePasses,
              LeaseExpires, vars, local
<1>3. ASSUME NEW v \in Writers, v # w
      PROVE  /\ \A n : ~Goes(v, n)
             /\ ~Reset(v) /\ ~(\E n : pc' = [pc EXCEPT ![v] = n])
  BY <1>0, <1>1, <1>3 DEF Goes, Reset
<1>4. ASSUME NEW v \in Writers, v # w
      PROVE  /\ ~RunStart(v) /\ ~RunStep(v) /\ ~BeatArrives(v) /\ ~FirstCheck(v)
             /\ ~RequestStep(v) /\ ~Crash(v)
  <2>1. ~GroupDone(v)
    BY <1>3, <1>4 DEF GroupDone
  <2>2. ~CoreFailed(v)
    BY <1>3, <1>4, <2>1 DEF CoreFailed
  <2>3. ~Write(v)
    BY <1>3, <1>4, <2>1, <2>2 DEF Write, Whole, Together, Everything, Alone, Core, Alert, Fallback, Extras
  <2>4. /\ ~RunStart(v) /\ ~Recheck(v) /\ ~RunRead(v) /\ ~RequestRead(v)
        /\ ~BeatArrives(v) /\ ~FirstCheck(v)
    BY <1>3, <1>4 DEF RunStart, Recheck, RunRead, RequestRead, BeatArrives, FirstCheck
  <2>5. ~Probe(v)
    BY <1>3, <1>4 DEF Probe
  <2>6. ~Repair(v) /\ ~OutOfBudget(v) /\ ~RunFinish(v) /\ ~Crash(v)
    BY <1>3, <1>4 DEF Repair, OutOfBudget, RunFinish, Crash
  <2>. QED BY <2>3, <2>4, <2>5, <2>6 DEF RunStep, RequestStep
<1>5. ~Crash(w)
  BY <1>0 DEF Crash
<1>6. /\ ~RunStart(w) /\ ~BeatArrives(w) /\ ~FirstCheck(w) /\ ~Probe(w) /\ ~Recheck(w) /\ ~RunRead(w)
      /\ ~RequestRead(w) /\ ~Repair(w) /\ ~OutOfBudget(w) /\ ~RunFinish(w)
      /\ ~Together(w) /\ ~Alone(w) /\ ~Core(w) /\ ~Alert(w) /\ ~Fallback(w) /\ ~Extras(w)
  BY DEF RunStart, BeatArrives, FirstCheck, Probe, Recheck, RunRead, RequestRead, Repair, OutOfBudget, RunFinish,
         Together, Everything, Alone, Core, Alert, Fallback, Extras
<1>7. Whole(w)
  BY <1>0, <1>2, <1>4, <1>5, <1>6 DEF Next, RunStep, RequestStep, Write
<1>8. \A n : Goes(w, n) => pc'[w] = n
  BY <1>0 DEF Goes
<1>. QED BY <1>7, <1>8 DEF Whole, Everything

LEMMA LineCatchesUp ==
    ASSUME IInv, LineInv, [Next]_vars
    PROVE  CaughtUp({"check", "beat"})
<1>. SUFFICES ASSUME NEW w \in Writers, pc[w] = "whole", plan[w].kind \in {"check", "beat"},
                     row'.by = w, pc'[w] \in {"finish", "idle"}, faults' = faults
              PROVE  line' = row'.state
  BY DEF CaughtUp
<1>1. WriteWhole(w)
  BY FirstTry
<1>2. plan[w].line
  BY DEF LineInv
<1>3. row'.state = plan[w].state
  BY <1>1 DEF WriteWhole, RowAfter, Lands
<1>4. line' = plan[w].state
  BY <1>1, <1>2 DEF WriteWhole, LineAfter
<1>. QED BY <1>3, <1>4

(* However many intervals were lost before, the first check or beat that    *)
(* lands with its interval leaves the timeline in the stored state, whoever *)
(* else writes the monitor meanwhile (intervalStatements).                  *)
THEOREM TimelineIsCaughtUp == Spec => TimelineCatchesUp
<1>1. IInv /\ LineInv /\ [Next]_vars => [CaughtUp({"check", "beat"})]_vars
  BY LineCatchesUp
<1>. QED BY <1>1, Invariant, LineInvariant, PTL DEF Spec, TimelineCatchesUp
===========================================================================
