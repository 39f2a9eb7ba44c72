---------------------------- MODULE ReleasesProofs ----------------------------
(***************************************************************************)
(* Proofs about Releases, for any fleet, runs, versions and bounds, whatever *)
(* dies, stalls past its lease, is paused, resumed or replaced:             *)
(*   - nobody but a canary gets a version before a canary ran clean on it    *)
(*     (CanaryInv);                                                          *)
(*   - the batches of a rollout follow one another (OrderInv);               *)
(*   - what is done is shipped (ShipInv).                                    *)
(***************************************************************************)
EXTENDS Releases, TLAPS, WellFoundedInduction, SequenceTheorems

Records == [kind : {"rollout", "rollback"}, version : AllVersions, from : AllVersions,
            state : Active \cup {"done", "cancelled"}, canary : Fleet \cup {NoTenant}, ran : BOOLEAN,
            batch : Nat, lease : Rollers \cup {NoRoller}, over : BOOLEAN]
Deployments == [stage : {"new", "made", "ready", "gone"}, row : AllVersions \cup {0}, script : AllVersions \cup {0}]
RollerSteps == {"idle", "begin", "turn", "end", "stop", "look", "upload", "refused", "record", "mark", "health",
                "well", "ill", "call", "busy", "point", "ran", "choose", "note", "back", "repair", "finish"}
RollerRecords == [pc : RollerSteps, rel : Nat, tenant : Fleet \cup {NoTenant}]
DeskRecords == [pc : Requests \cup {"idle", "point"}, rel : Nat, state : Active \cup {"none"}, live : AllVersions]

\* A release whose version may go to everybody.
Shown(R) == R.kind # "rollout" \/ R.ran \/ R.canary = NoTenant
Good(v, ok) == v \in ok \cup {First}

\* A rollout starts from a version that may be gone back to, and rolls only once
\* its own may go to everybody.
RowOK(R, ok) ==
    /\ R.kind = "rollout" => Good(R.from, ok)
    /\ R.state = "rolling" => Shown(R)
    /\ Shown(R) => Good(R.version, ok)

\* What a run may rely on at its step, whoever holds the release by now.
RollerOK(me, rows, ok) ==
    me.pc # "idle" =>
        /\ me.rel \in DOMAIN rows
        /\ me.pc \in {"look", "upload"} => Shown(rows[me.rel]) \/ rows[me.rel].canary = me.tenant
        /\ me.pc \in {"point", "ran"} => Good(rows[me.rel].version, ok)
        /\ me.pc \in {"choose", "back", "repair"} => Shown(rows[me.rel])

DeskOK(d, rows, ok) ==
    /\ d.rel # 0 => d.rel \in DOMAIN rows
    /\ Good(d.live, ok)
    /\ d.pc = "point" => d.rel # 0 /\ Shown(rows[d.rel])

ScriptOK(t, script, rows, ok) ==
    script \in ok \cup {First, 0} \/ \E i \in DOMAIN rows : rows[i].version = script /\ rows[i].canary = t

StateOK ==
    /\ releases \in Seq(Records) /\ fleet \in [Fleet -> Deployments]
    /\ roller \in [Rollers -> RollerRecords] /\ desk \in DeskRecords
    /\ proven \subseteq AllVersions /\ current \in AllVersions

CanaryInv ==
    /\ StateOK
    /\ \A i \in DOMAIN releases : RowOK(releases[i], proven)
    /\ \A r \in Rollers : RollerOK(roller[r], releases, proven)
    /\ DeskOK(desk, releases, proven)
    /\ Good(current, proven)
    /\ \A t \in Fleet : ScriptOK(t, fleet[t].script, releases, proven)

-----------------------------------------------------------------------------
(* The newest of some releases is one of them: sets of numbers of which none *)
(* is above n have a greatest.                                               *)
LEMMA MaxIsIn ==
    ASSUME NEW n \in Nat, NEW S \in SUBSET (1 .. n), S # {}
    PROVE  Max(S) \in S
<1>. DEFINE T == {n - x : x \in S}
            Less == {ss \in Nat \X Nat : ss[1] < ss[2]}
<1>1. \A x \in S : x \in 1 .. n
  OBVIOUS
<1>2. T \subseteq Nat
  <2>. SUFFICES ASSUME NEW x \in S PROVE n - x \in Nat
    OBVIOUS
  <2>. QED BY <1>1
<1>3. T # {}
  OBVIOUS
<1>4. IsWellFoundedOn(Less, Nat)
  BY NatLessThanWellFounded DEF OpToRel
<1>5. PICK y \in T : \A z \in T : ~(<<z, y>> \in Less)
  <2>. HIDE DEF Less, T
  <2>. QED BY <1>2, <1>3, <1>4, WFMin
<1>6. \A z \in T : y <= z
  <2>. SUFFICES ASSUME NEW z \in T PROVE y <= z
    OBVIOUS
  <2>1. z \in Nat /\ y \in Nat
    BY <1>2
  <2>2. z < y => <<z, y>> \in Less
    BY <2>1
  <2>. QED BY <1>5, <2>1, <2>2
<1>7. PICK x \in S : y = n - x
  OBVIOUS
<1>8. \A w \in S : x >= w
  <2>. SUFFICES ASSUME NEW w \in S PROVE x >= w
    OBVIOUS
  <2>1. n - w \in T
    OBVIOUS
  <2>2. n - x <= n - w
    BY <1>6, <1>7, <2>1
  <2>. QED BY <1>1, <2>2
<1>. QED BY <1>7, <1>8 DEF Max

(* A row that goes on: what never changes, and what is never taken back.    *)
Kept(R, Q) ==
    /\ Q.kind = R.kind /\ Q.version = R.version /\ Q.from = R.from /\ Q.canary = R.canary
    /\ R.ran => Q.ran

GoesOn(rows, later, ok, okLater) ==
    /\ ok \subseteq okLater /\ DOMAIN rows \subseteq DOMAIN later
    /\ \A i \in DOMAIN rows : Kept(rows[i], later[i])

(* What a run, a handler or a script relies on is not taken back by others. *)
LEMMA StillOK ==
    ASSUME NEW rows, NEW later, NEW ok, NEW okLater, GoesOn(rows, later, ok, okLater)
    PROVE  /\ \A me : RollerOK(me, rows, ok) => RollerOK(me, later, okLater)
           /\ \A d : DeskOK(d, rows, ok) => DeskOK(d, later, okLater)
           /\ \A t, v : ScriptOK(t, v, rows, ok) => ScriptOK(t, v, later, okLater)
           /\ \A v : Good(v, ok) => Good(v, okLater)
<1>1. \A i \in DOMAIN rows : /\ i \in DOMAIN later /\ later[i].version = rows[i].version
                             /\ later[i].canary = rows[i].canary /\ (Shown(rows[i]) => Shown(later[i]))
  BY DEF GoesOn, Kept, Shown
<1>2. \A v : Good(v, ok) => Good(v, okLater)
  BY DEF GoesOn, Good
<1>3. \A me : RollerOK(me, rows, ok) => RollerOK(me, later, okLater)
  BY <1>1, <1>2 DEF RollerOK
<1>4. \A d : DeskOK(d, rows, ok) => DeskOK(d, later, okLater)
  BY <1>1, <1>2 DEF DeskOK
<1>5. \A t, v : ScriptOK(t, v, rows, ok) => ScriptOK(t, v, later, okLater)
  BY <1>1 DEF ScriptOK, GoesOn
<1>. QED BY <1>2, <1>3, <1>4, <1>5

(* One row is written.                                                      *)
RowsOK(rows, ok) == rows \in Seq(Records) /\ \A i \in DOMAIN rows : RowOK(rows[i], ok)

LEMMA RowWritten ==
    ASSUME NEW rows, NEW ok, RowsOK(rows, ok), NEW i \in DOMAIN rows, NEW R \in Records,
           Kept(rows[i], R), RowOK(R, ok)
    PROVE  LET later == [rows EXCEPT ![i] = R] IN RowsOK(later, ok) /\ GoesOn(rows, later, ok, ok)
<1>. DEFINE later == [rows EXCEPT ![i] = R]
<1>1. later \in Seq(Records) /\ DOMAIN later = DOMAIN rows
  BY ExceptSeq DEF RowsOK
<1>2. \A j \in DOMAIN rows : later[j] = IF j = i THEN R ELSE rows[j]
  OBVIOUS
<1>. QED BY <1>1, <1>2 DEF RowsOK, GoesOn, Kept

(* One row is added.                                                        *)
LEMMA RowAdded ==
    ASSUME NEW rows, NEW ok, RowsOK(rows, ok), NEW R \in Records, NEW okLater, ok \subseteq okLater, RowOK(R, okLater)
    PROVE  LET later == Append(rows, R) IN RowsOK(later, okLater) /\ GoesOn(rows, later, ok, okLater)
<1>. DEFINE later == Append(rows, R)
<1>1. /\ later \in Seq(Records) /\ DOMAIN later = 1 .. Len(rows) + 1 /\ DOMAIN rows = 1 .. Len(rows)
      /\ \A j \in DOMAIN rows : later[j] = rows[j]
      /\ later[Len(rows) + 1] = R /\ Len(rows) \in Nat
  BY AppendProperties DEF RowsOK
<1>2. \A j \in DOMAIN rows : RowOK(rows[j], okLater)
  BY DEF RowsOK, RowOK, Good
<1>3. DOMAIN rows \subseteq DOMAIN later /\ DOMAIN later = DOMAIN rows \cup {Len(rows) + 1}
  BY <1>1
<1>. QED BY <1>1, <1>2, <1>3 DEF RowsOK, GoesOn, Kept

-----------------------------------------------------------------------------
(* What a step has to show: its rows go on, and what it changed is in order. *)
LEMMA Carried ==
    ASSUME CanaryInv,
           RowsOK(releases', proven'), GoesOn(releases, releases', proven, proven'), proven' \subseteq AllVersions,
           roller' \in [Rollers -> RollerRecords], desk' \in DeskRecords,
           fleet' \in [Fleet -> Deployments], current' \in AllVersions,
           \A s \in Rollers : roller'[s] = roller[s] \/ RollerOK(roller'[s], releases', proven'),
           desk' = desk \/ DeskOK(desk', releases', proven'),
           current' = current \/ Good(current', proven'),
           \A t \in Fleet : fleet'[t].script = fleet[t].script \/ ScriptOK(t, fleet'[t].script, releases', proven')
    PROVE  CanaryInv'
<1>1. StateOK'
  BY DEF RowsOK, StateOK
<1>2. \A i \in DOMAIN releases' : RowOK(releases'[i], proven')
  BY DEF RowsOK
<1>3. \A s \in Rollers : RollerOK(roller'[s], releases', proven')
  BY StillOK DEF CanaryInv
<1>4. DeskOK(desk', releases', proven') /\ Good(current', proven')
  BY StillOK DEF CanaryInv
<1>5. \A t \in Fleet : ScriptOK(t, fleet'[t].script, releases', proven')
  BY StillOK DEF CanaryInv
<1>. QED BY <1>1, <1>2, <1>3, <1>4, <1>5 DEF CanaryInv

LEMMA RowsStay ==
    ASSUME CanaryInv, UNCHANGED <<releases, proven>>
    PROVE  RowsOK(releases', proven') /\ GoesOn(releases, releases', proven, proven')
BY DEF CanaryInv, StateOK, RowsOK, GoesOn, Kept

LEMMA RowsWritten ==
    ASSUME CanaryInv, UNCHANGED proven, NEW i \in DOMAIN releases, NEW R \in Records,
           Kept(releases[i], R), RowOK(R, proven),
           releases' = releases \/ releases' = [releases EXCEPT ![i] = R]
    PROVE  RowsOK(releases', proven') /\ GoesOn(releases, releases', proven, proven')
<1>1. RowsOK(releases, proven)
  BY DEF CanaryInv, StateOK, RowsOK
<1>2. CASE releases' = releases
  BY <1>2, RowsStay
<1>3. CASE releases' = [releases EXCEPT ![i] = R]
  BY <1>1, <1>3, RowWritten
<1>. QED BY <1>2, <1>3

(* The release a run works on is there and in order.                        *)
LEMMA ReleaseAtHand ==
    ASSUME CanaryInv, NEW r \in Rollers, roller[r].pc # "idle"
    PROVE  /\ Rel(r) \in DOMAIN releases /\ RollerOK(roller[r], releases, proven)
           /\ releases[Rel(r)] \in Records /\ RowOK(releases[Rel(r)], proven) /\ Ver(r) \in AllVersions
<1>1. RollerOK(roller[r], releases, proven) /\ Rel(r) \in DOMAIN releases /\ releases \in Seq(Records)
  BY DEF CanaryInv, StateOK, RollerOK, Rel
<1>2. releases[Rel(r)] \in Records
  BY <1>1, ElementOfSeq
<1>. QED BY <1>1, <1>2 DEF CanaryInv, Records, Ver

(* A run's step that writes no release and no tenant.                       *)
LEMMA RollerOnly ==
    ASSUME CanaryInv, NEW r \in Rollers, NEW me \in RollerRecords, roller' = [roller EXCEPT ![r] = me],
           RollerOK(me, releases, proven), UNCHANGED <<releases, fleet, current, desk, proven>>
    PROVE  CanaryInv'
<1>1. RowsOK(releases', proven') /\ GoesOn(releases, releases', proven, proven')
  BY RowsStay
<1>2. roller' \in [Rollers -> RollerRecords] /\ \A s \in Rollers : roller'[s] = roller[s] \/ roller'[s] = me
  BY DEF CanaryInv, StateOK
<1>3. proven' \subseteq AllVersions /\ desk' \in DeskRecords /\ fleet' \in [Fleet -> Deployments] /\ current' \in AllVersions
  BY DEF CanaryInv, StateOK
<1>4. RollerOK(me, releases', proven')
  BY Zenon
<1>. QED BY <1>1, <1>2, <1>3, <1>4, Carried

\* Steps at which a run relies on nothing but its release.
FreeSteps == RollerSteps \ {"look", "upload", "point", "ran", "choose", "back", "repair"}

(* Where a run goes, and that it stays with its release and tenant.          *)
LEMMA MovesTo ==
    ASSUME CanaryInv, NEW r \in Rollers, NEW pc \in RollerSteps, Moves(r, pc)
    PROVE  \E me \in RollerRecords :
              roller' = [roller EXCEPT ![r] = me] /\ me.pc = pc /\ me.rel = Rel(r) /\ me.tenant = roller[r].tenant
<1>1. roller \in [Rollers -> RollerRecords]
  BY DEF CanaryInv, StateOK
<1>2. [roller[r] EXCEPT !.pc = pc] \in RollerRecords
  BY <1>1 DEF RollerRecords
<1>3. roller' = [roller EXCEPT ![r] = [roller[r] EXCEPT !.pc = pc]]
  BY DEF Moves
<1>. QED BY <1>1, <1>2, <1>3 DEF Rel, RollerRecords

LEMMA PlainMove ==
    ASSUME CanaryInv, NEW r \in Rollers, roller[r].pc # "idle", NEW pc \in FreeSteps, Moves(r, pc) \/ Quits(r)
    PROVE  \E me \in RollerRecords : roller' = [roller EXCEPT ![r] = me] /\ me.pc \in FreeSteps /\ me.rel \in {0, Rel(r)}
                                      /\ RollerOK(me, releases, proven)
<1>1. CASE Moves(r, pc)
  <2>1. pc \in RollerSteps
    BY DEF FreeSteps
  <2>2. PICK me \in RollerRecords : roller' = [roller EXCEPT ![r] = me] /\ me.pc = pc /\ me.rel = Rel(r)
    BY <1>1, <2>1, MovesTo
  <2>3. Rel(r) \in DOMAIN releases
    BY ReleaseAtHand
  <2>. QED BY <2>2, <2>3 DEF RollerOK, FreeSteps
<1>2. CASE Quits(r)
  <2>1. Off \in RollerRecords
    BY DEF Off, RollerRecords, RollerSteps
  <2>2. roller' = [roller EXCEPT ![r] = Off]
    BY <1>2 DEF Quits
  <2>. QED BY <2>1, <2>2 DEF Off, RollerOK, FreeSteps, RollerSteps
<1>. QED BY <1>1, <1>2

LEMMA PlainStep ==
    ASSUME CanaryInv, NEW r \in Rollers, roller[r].pc # "idle", NEW pc \in FreeSteps, Moves(r, pc) \/ Quits(r),
           UNCHANGED <<releases, fleet, current, desk, proven>>
    PROVE  CanaryInv'
BY PlainMove, RollerOnly
-----------------------------------------------------------------------------
(* Steps of a run that write no release.                                    *)

LEMMA QuietSteps ==
    ASSUME CanaryInv, NEW r \in Rollers,
           \/ UploadFails(r) \/ MarksUploaded(r) \/ HealthAnswers(r) \/ WritesHealth(r)
           \/ CanaryIsBusy(r) \/ RunThrows(r)
    PROVE  CanaryInv'
<1>1. roller[r].pc # "idle" /\ UNCHANGED <<releases, fleet, current, desk, proven>>
  BY DEF UploadFails, MarksUploaded, HealthAnswers, WritesHealth, CanaryIsBusy, RunThrows, RollerAt
<1>2. \/ \E pc \in {"turn", "end", "health", "well", "ill", "stop"} : Moves(r, pc)
      \/ Quits(r)
  BY DEF UploadFails, MarksUploaded, HealthAnswers, WritesHealth, CanaryIsBusy, RunThrows, StepDone
<1>3. "end" \in FreeSteps /\ \A pc \in {"turn", "end", "health", "well", "ill", "stop"} : pc \in FreeSteps
  BY DEF FreeSteps, RollerSteps
<1>. QED BY <1>1, <1>2, <1>3, PlainStep

(* A ready tenant is uploaded to as the run found it.                       *)
LEMMA LookStep ==
    ASSUME CanaryInv, NEW r \in Rollers, LooksAtTenant(r)
    PROVE  CanaryInv'
<1>1. roller[r].pc = "look" /\ UNCHANGED <<releases, fleet, current, desk, proven>>
  BY DEF LooksAtTenant, RollerAt
<1>2. (\E pc \in {"turn", "end", "health", "mark"} : Moves(r, pc)) \/ Moves(r, "upload")
  BY DEF LooksAtTenant, StepDone
<1>3. \A pc \in {"turn", "end", "health", "mark"} : pc \in FreeSteps
  BY DEF FreeSteps, RollerSteps
<1>4. CASE Moves(r, "upload")
  <2>1. "upload" \in RollerSteps
    BY DEF RollerSteps
  <2>2. PICK me \in RollerRecords : /\ roller' = [roller EXCEPT ![r] = me] /\ me.pc = "upload"
                                    /\ me.rel = roller[r].rel /\ me.tenant = roller[r].tenant
    BY <1>4, <2>1, MovesTo DEF Rel
  <2>3. RollerOK(roller[r], releases, proven)
    BY DEF CanaryInv
  <2>4. RollerOK(me, releases, proven)
    BY <1>1, <2>2, <2>3 DEF RollerOK
  <2>. QED BY <1>1, <2>2, <2>4, RollerOnly
<1>. QED BY <1>1, <1>2, <1>3, <1>4, PlainStep

(* A batch is chosen, or tenants are looked for again, by a run of a release *)
(* that may go to everybody.                                                *)
LEMMA ChoosingSteps ==
    ASSUME CanaryInv, NEW r \in Rollers, ChoosesBatch(r) \/ LooksBack(r)
    PROVE  CanaryInv'
<1>1. roller[r].pc \in {"choose", "back"} /\ UNCHANGED <<releases, fleet, current, desk, proven>>
  BY DEF ChoosesBatch, LooksBack, RollerAt
<1>2. (\E pc \in {"turn", "end", "note"} : Moves(r, pc)) \/ (\E pc \in {"back", "repair"} : Moves(r, pc))
  BY DEF ChoosesBatch, LooksBack, NotesIt, StepDone
<1>3. \A pc \in {"turn", "end", "note"} : pc \in FreeSteps
  BY DEF FreeSteps, RollerSteps
<1>4. CASE \E pc \in {"back", "repair"} : Moves(r, pc)
  <2>1. PICK pc \in {"back", "repair"} : Moves(r, pc)
    BY <1>4
  <2>2. pc \in RollerSteps
    BY DEF RollerSteps
  <2>3. PICK me \in RollerRecords : /\ roller' = [roller EXCEPT ![r] = me] /\ me.pc = pc
                                    /\ me.rel = roller[r].rel /\ me.tenant = roller[r].tenant
    BY <2>1, <2>2, MovesTo DEF Rel
  <2>4. RollerOK(roller[r], releases, proven)
    BY DEF CanaryInv
  <2>5. RollerOK(me, releases, proven)
    BY <1>1, <2>3, <2>4 DEF RollerOK
  <2>. QED BY <1>1, <2>3, <2>5, RollerOnly
<1>. QED BY <1>1, <1>2, <1>3, <1>4, PlainStep

(* The pointer is set to what is at work.                                   *)
LEMMA PointingSteps ==
    ASSUME CanaryInv, NEW r \in Rollers, Begins(r) \/ PointsAtProven(r) \/ RepairsPointer(r)
    PROVE  CanaryInv'
<1>1. UNCHANGED <<releases, fleet, desk, proven>> /\ roller[r].pc \in {"begin", "point", "repair"}
  BY DEF Begins, PointsAtProven, RepairsPointer, RollerAt
<1>2. /\ Rel(r) \in DOMAIN releases /\ RollerOK(roller[r], releases, proven)
      /\ releases[Rel(r)] \in Records /\ RowOK(releases[Rel(r)], proven)
  BY <1>1, ReleaseAtHand
<1>3. current' = current \/ (current' = Ver(r) /\ Good(Ver(r), proven))
  BY <1>1, <1>2 DEF Begins, PointsAtProven, RepairsPointer, RollerAt, RollerOK, RowOK, Shown, Ver, Rel
<1>4. PICK pc \in {"turn", "stop", "ran", "finish"} : Moves(r, pc) /\ (pc = "ran" => roller[r].pc = "point")
  BY DEF Begins, PointsAtProven, RepairsPointer, RollerAt
<1>5. PICK me \in RollerRecords : roller' = [roller EXCEPT ![r] = me] /\ me.pc = pc /\ me.rel = Rel(r)
  <2>1. pc \in RollerSteps
    BY DEF RollerSteps
  <2>. QED BY <1>4, <2>1, MovesTo
<1>6. RollerOK(me, releases, proven)
  BY <1>2, <1>4, <1>5 DEF RollerOK, Rel
<1>7. RowsOK(releases', proven') /\ GoesOn(releases, releases', proven, proven')
  BY <1>1, RowsStay
<1>8. roller' \in [Rollers -> RollerRecords] /\ \A s \in Rollers : roller'[s] = roller[s] \/ roller'[s] = me
  BY <1>5 DEF CanaryInv, StateOK
<1>9. /\ proven' \subseteq AllVersions /\ desk' \in DeskRecords /\ fleet' \in [Fleet -> Deployments]
      /\ current' \in AllVersions
  BY <1>1, <1>2, <1>3 DEF CanaryInv, StateOK, Records, Ver
<1>10. RollerOK(me, releases', proven') /\ (current' = current \/ Good(current', proven'))
  BY <1>1, <1>3, <1>6, Zenon
<1>. QED BY <1>1, <1>7, <1>8, <1>9, <1>10, Carried

(* A script is replaced by the version of a release the tenant may get.     *)
LEMMA UploadStep ==
    ASSUME CanaryInv, NEW r \in Rollers, Uploads(r)
    PROVE  CanaryInv'
<1>1. roller[r].pc = "upload" /\ UNCHANGED <<releases, current, desk, proven>>
  BY DEF Uploads, RollerAt
<1>2. /\ Rel(r) \in DOMAIN releases /\ RollerOK(roller[r], releases, proven)
      /\ releases[Rel(r)] \in Records /\ RowOK(releases[Rel(r)], proven)
  BY <1>1, ReleaseAtHand
<1>3. PICK pc \in FreeSteps : Moves(r, pc)
  BY DEF Uploads, FreeSteps, RollerSteps
<1>4. PICK me \in RollerRecords : roller' = [roller EXCEPT ![r] = me] /\ RollerOK(me, releases, proven)
  BY <1>1, <1>3, PlainMove
<1>5. ScriptOK(roller[r].tenant, Ver(r), releases, proven)
  <2>1. CASE Shown(releases[Rel(r)])
    BY <1>2, <2>1 DEF RowOK, Good, ScriptOK, Ver
  <2>2. CASE releases[Rel(r)].canary = roller[r].tenant
    BY <1>2, <2>2 DEF ScriptOK, Ver
  <2>. QED BY <1>1, <1>2, <2>1, <2>2 DEF RollerOK, Rel
<1>6. fleet \in [Fleet -> Deployments] /\ Ver(r) \in AllVersions
  BY <1>2 DEF CanaryInv, StateOK, Records, Ver
<1>7. fleet' = fleet \/ fleet' = [fleet EXCEPT ![roller[r].tenant].script = Ver(r)]
  BY DEF Uploads
<1>8. /\ fleet' \in [Fleet -> Deployments]
      /\ \A t \in Fleet : \/ fleet'[t].script = fleet[t].script
                          \/ t = roller[r].tenant /\ fleet'[t].script = Ver(r)
  <2>1. CASE fleet' = [fleet EXCEPT ![roller[r].tenant].script = Ver(r)]
    <3>1. \A t \in Fleet : [fleet[t] EXCEPT !.script = Ver(r)] \in Deployments /\ [fleet[t] EXCEPT !.script = Ver(r)].script = Ver(r)
      BY <1>6 DEF Deployments
    <3>2. \A t \in Fleet : fleet'[t] = IF t = roller[r].tenant THEN [fleet[t] EXCEPT !.script = Ver(r)] ELSE fleet[t]
      BY <1>6, <2>1
    <3>3. fleet' \in [Fleet -> Deployments]
      BY <1>6, <2>1, <3>1
    <3>. QED BY <3>1, <3>2, <3>3
  <2>. QED BY <1>6, <1>7, <2>1
<1>9. RowsOK(releases', proven') /\ GoesOn(releases, releases', proven, proven')
  BY <1>1, RowsStay
<1>10. roller' \in [Rollers -> RollerRecords] /\ \A s \in Rollers : roller'[s] = roller[s] \/ roller'[s] = me
  BY <1>4 DEF CanaryInv, StateOK
<1>11. proven' \subseteq AllVersions /\ desk' \in DeskRecords /\ current' \in AllVersions
  BY <1>1 DEF CanaryInv, StateOK
<1>12. RollerOK(me, releases', proven') /\ ScriptOK(roller[r].tenant, Ver(r), releases', proven')
  BY <1>1, <1>4, <1>5, Zenon
<1>13. \A t \in Fleet : fleet'[t].script = fleet[t].script \/ ScriptOK(t, fleet'[t].script, releases', proven')
  BY <1>8, <1>12
<1>. QED BY <1>1, <1>8, <1>9, <1>10, <1>11, <1>12, <1>13, Carried

(* A tenant changes, and not by its script.                                 *)
LEMMA FleetKeepsScripts ==
    ASSUME CanaryInv, NEW r \in Rollers, NEW me \in RollerRecords,
           roller' = roller \/ (roller' = [roller EXCEPT ![r] = me] /\ RollerOK(me, releases, proven)),
           UNCHANGED <<releases, current, desk, proven>>,
           fleet' \in [Fleet -> Deployments], \A t \in Fleet : fleet'[t].script = fleet[t].script
    PROVE  CanaryInv'
<1>1. RowsOK(releases', proven') /\ GoesOn(releases, releases', proven, proven')
  BY RowsStay
<1>2. /\ roller' \in [Rollers -> RollerRecords]
      /\ \A s \in Rollers : roller'[s] = roller[s] \/ (roller'[s] = me /\ RollerOK(me, releases, proven))
  BY DEF CanaryInv, StateOK
<1>3. proven' \subseteq AllVersions /\ desk' \in DeskRecords /\ current' \in AllVersions
  BY DEF CanaryInv, StateOK
<1>4. \A s \in Rollers : roller'[s] = roller[s] \/ RollerOK(roller'[s], releases', proven')
  <2>1. releases' = releases /\ proven' = proven
    OBVIOUS
  <2>. QED BY <1>2, <2>1
<1>. QED BY <1>1, <1>2, <1>3, <1>4, Carried

LEMMA RecordVersionStep ==
    ASSUME CanaryInv, NEW r \in Rollers, RecordsVersion(r)
    PROVE  CanaryInv'
<1>1. roller[r].pc = "record" /\ Moves(r, "mark") /\ UNCHANGED <<releases, current, desk, proven>>
  BY DEF RecordsVersion, RollerAt
<1>2. fleet \in [Fleet -> Deployments]
  BY DEF CanaryInv, StateOK
<1>3. Ver(r) \in AllVersions
  BY <1>1, ReleaseAtHand
<1>4. fleet' = fleet \/ \E t \in Fleet : fleet' = [fleet EXCEPT ![t].row = Ver(r)]
  BY DEF RecordsVersion, Ready
<1>5. fleet' \in [Fleet -> Deployments] /\ \A t \in Fleet : fleet'[t].script = fleet[t].script
  <2>1. ASSUME NEW u \in Fleet, fleet' = [fleet EXCEPT ![u].row = Ver(r)]
        PROVE  fleet' \in [Fleet -> Deployments] /\ \A t \in Fleet : fleet'[t].script = fleet[t].script
    BY <1>2, <1>3, <2>1 DEF Deployments
  <2>. QED BY <1>2, <1>4, <2>1
<1>6. PICK me \in RollerRecords : roller' = [roller EXCEPT ![r] = me] /\ RollerOK(me, releases, proven)
  <2>1. "mark" \in FreeSteps
    BY DEF FreeSteps, RollerSteps
  <2>. QED BY <1>1, <2>1, PlainMove
<1>. QED BY <1>1, <1>5, <1>6, FleetKeepsScripts

(* The canary's run makes its version one that may go to everybody.         *)
LEMMA CallSchedulerStep ==
    ASSUME CanaryInv, NEW r \in Rollers, CallsScheduler(r)
    PROVE  CanaryInv'
<1>1. roller[r].pc = "call" /\ UNCHANGED <<releases, fleet, current, desk>>
  BY DEF CallsScheduler, RollerAt
<1>2. CASE proven' = proven /\ (Moves(r, "stop") \/ Moves(r, "busy"))
  <2>1. "stop" \in FreeSteps /\ "busy" \in FreeSteps
    BY DEF FreeSteps, RollerSteps
  <2>. QED BY <1>1, <1>2, <2>1, PlainStep
<1>3. CASE proven' = proven \cup {Ver(r)} /\ Moves(r, "point")
  <2>1. Rel(r) \in DOMAIN releases
    BY <1>1, ReleaseAtHand
  <2>2. Ver(r) \in AllVersions
    BY <1>1, ReleaseAtHand
  <2>3. RowsOK(releases', proven') /\ GoesOn(releases, releases', proven, proven')
    BY <1>1, <1>3 DEF CanaryInv, StateOK, RowsOK, RowOK, Good, GoesOn, Kept
  <2>4. PICK me \in RollerRecords : roller' = [roller EXCEPT ![r] = me] /\ me.pc = "point" /\ me.rel = Rel(r)
    <3>1. "point" \in RollerSteps
      BY DEF RollerSteps
    <3>. QED BY <1>3, <3>1, MovesTo
  <2>5. RollerOK(me, releases', proven')
    BY <1>1, <1>3, <2>1, <2>4 DEF RollerOK, Good, Ver
  <2>6. roller' \in [Rollers -> RollerRecords] /\ \A s \in Rollers : roller'[s] = roller[s] \/ roller'[s] = me
    BY <2>4 DEF CanaryInv, StateOK
  <2>7. /\ proven' \subseteq AllVersions /\ desk' \in DeskRecords /\ fleet' \in [Fleet -> Deployments]
        /\ current' \in AllVersions
    BY <1>1, <1>3, <2>2 DEF CanaryInv, StateOK
  <2>. QED BY <1>1, <2>3, <2>5, <2>6, <2>7, Carried
<1>. QED BY <1>2, <1>3 DEF CallsScheduler
-----------------------------------------------------------------------------
(* Steps of a run, and of time, that write its release.                     *)

LEMMA RowStep ==
    ASSUME CanaryInv, UNCHANGED <<fleet, current, desk, proven>>, NEW i \in DOMAIN releases, NEW R \in Records,
           Kept(releases[i], R), RowOK(R, proven),
           releases' = releases \/ releases' = [releases EXCEPT ![i] = R],
           roller' \in [Rollers -> RollerRecords],
           \A s \in Rollers : roller'[s] = roller[s] \/ RollerOK(roller'[s], releases, proven)
    PROVE  CanaryInv'
<1>1. RowsOK(releases', proven') /\ GoesOn(releases, releases', proven, proven')
  BY RowsWritten
<1>2. \A s \in Rollers : roller'[s] = roller[s] \/ RollerOK(roller'[s], releases', proven')
  BY <1>1, StillOK
<1>3. proven' \subseteq AllVersions /\ desk' \in DeskRecords /\ fleet' \in [Fleet -> Deployments] /\ current' \in AllVersions
  BY DEF CanaryInv, StateOK
<1>. QED BY <1>1, <1>2, <1>3, Carried

\* The lease is taken, renewed, let go or over: nothing else of the row.
LeaseOnly(R, Q) == \E l \in Rollers \cup {NoRoller}, o \in BOOLEAN : Q = [R EXCEPT !.lease = l, !.over = o]

LEMMA LeaseWritten ==
    ASSUME NEW ok, NEW R \in Records, NEW Q, LeaseOnly(R, Q), RowOK(R, ok)
    PROVE  Q \in Records /\ Kept(R, Q) /\ RowOK(Q, ok)
BY DEF LeaseOnly, Records, Kept, RowOK, Shown, Good

LEMMA LeaseExpires ==
    ASSUME CanaryInv, NEW i \in DOMAIN releases, LeaseRunsOut(i)
    PROVE  CanaryInv'
<1>1. releases[i] \in Records /\ RowOK(releases[i], proven)
  BY ElementOfSeq DEF CanaryInv, StateOK
<1>2. PICK R : R = [releases[i] EXCEPT !.over = TRUE]
  OBVIOUS
<1>3. LeaseOnly(releases[i], R)
  BY <1>1, <1>2 DEF LeaseOnly, Records
<1>4. releases' = [releases EXCEPT ![i] = R]
  BY <1>2 DEF LeaseRunsOut
<1>5. UNCHANGED <<fleet, current, desk, proven, roller>>
  BY DEF LeaseRunsOut
<1>6. R \in Records /\ Kept(releases[i], R) /\ RowOK(R, proven)
  BY <1>1, <1>3, LeaseWritten
<1>7. roller' \in [Rollers -> RollerRecords]
  BY <1>5 DEF CanaryInv, StateOK
<1>. QED BY <1>4, <1>5, <1>6, <1>7, RowStep

LEMMA TakeStep ==
    ASSUME CanaryInv, NEW r \in Rollers, TakesRelease(r)
    PROVE  CanaryInv'
<1>1. PICK i \in RunningId :
        /\ releases' = [releases EXCEPT ![i].lease = r, ![i].over = FALSE]
        /\ roller' = [roller EXCEPT ![r] = [pc |-> "begin", rel |-> i, tenant |-> NoTenant]]
  BY DEF TakesRelease
<1>2. i \in DOMAIN releases /\ releases \in Seq(Records)
  BY DEF RunningId, ActiveIds, CanaryInv, StateOK
<1>3. releases[i] \in Records /\ RowOK(releases[i], proven) /\ i \in Nat
  BY <1>2, ElementOfSeq DEF CanaryInv
<1>4. PICK R : R = [releases[i] EXCEPT !.lease = r, !.over = FALSE]
  OBVIOUS
<1>5. LeaseOnly(releases[i], R)
  BY <1>4 DEF LeaseOnly
<1>6. releases' = [releases EXCEPT ![i] = R]
  BY <1>1, <1>2, <1>4
<1>7. R \in Records /\ Kept(releases[i], R) /\ RowOK(R, proven)
  BY <1>3, <1>5, LeaseWritten
<1>8. PICK me : me = [pc |-> "begin", rel |-> i, tenant |-> NoTenant]
  OBVIOUS
<1>9. me \in RollerRecords /\ RollerOK(me, releases, proven)
  BY <1>2, <1>3, <1>8 DEF RollerRecords, RollerSteps, RollerOK
<1>10. roller' \in [Rollers -> RollerRecords] /\ \A s \in Rollers : roller'[s] = roller[s] \/ roller'[s] = me
  BY <1>1, <1>8, <1>9 DEF CanaryInv, StateOK
<1>11. UNCHANGED <<fleet, current, desk, proven>>
  BY DEF TakesRelease
<1>. QED BY <1>2, <1>6, <1>7, <1>9, <1>10, <1>11, RowStep

(* A tenant is taken up only if it is the canary or the release rolls.       *)
LEMMA TurnStep ==
    ASSUME CanaryInv, NEW r \in Rollers, Turn(r)
    PROVE  CanaryInv'
<1>1. roller[r].pc = "turn" /\ UNCHANGED <<fleet, current, desk, proven>> /\ Renews(r)
  BY DEF Turn, RollerAt
<1>2. /\ Rel(r) \in DOMAIN releases
      /\ releases[Rel(r)] \in Records /\ RowOK(releases[Rel(r)], proven)
  BY <1>1, ReleaseAtHand
<1>3. roller[r] \in RollerRecords /\ roller \in [Rollers -> RollerRecords]
  BY DEF CanaryInv, StateOK
<1>4. PICK R : R = [releases[Rel(r)] EXCEPT !.over = FALSE]
  OBVIOUS
<1>5. LeaseOnly(releases[Rel(r)], R)
  BY <1>2, <1>4 DEF LeaseOnly, Records
<1>6. R \in Records /\ Kept(releases[Rel(r)], R) /\ RowOK(R, proven)
  BY <1>2, <1>5, LeaseWritten
<1>7. releases' = releases \/ releases' = [releases EXCEPT ![Rel(r)] = R]
  BY <1>1, <1>4 DEF Renews
<1>8. \E me \in RollerRecords : roller' = [roller EXCEPT ![r] = me] /\ RollerOK(me, releases, proven)
  <2>1. CASE \E pc \in {"call", "stop", "end"} : Moves(r, pc)
    <3>1. \A pc \in {"call", "stop", "end"} : pc \in FreeSteps
      BY DEF FreeSteps, RollerSteps
    <3>. QED BY <1>1, <2>1, <3>1, PlainMove
  <2>2. CASE Moves(r, "choose") /\ releases[Rel(r)].state = "rolling"
    <3>1. "choose" \in RollerSteps
      BY DEF RollerSteps
    <3>2. PICK me \in RollerRecords : roller' = [roller EXCEPT ![r] = me] /\ me.pc = "choose" /\ me.rel = Rel(r)
      BY <2>2, <3>1, MovesTo
    <3>3. RollerOK(me, releases, proven)
      BY <1>2, <2>2, <3>2 DEF RollerOK, RowOK
    <3>. QED BY <3>2, <3>3
  <2>3. ASSUME NEW t \in Fleet \cup {NoTenant}, WorksOn(r, t),
               releases[Rel(r)].state = "rolling" \/ releases[Rel(r)].canary = t
        PROVE  \E me \in RollerRecords : roller' = [roller EXCEPT ![r] = me] /\ RollerOK(me, releases, proven)
    <3>1. [roller[r] EXCEPT !.pc = "look", !.tenant = t] \in RollerRecords
      BY <1>3 DEF RollerRecords, RollerSteps
    <3>2. roller' = [roller EXCEPT ![r] = [roller[r] EXCEPT !.pc = "look", !.tenant = t]]
      BY <1>3, <2>3 DEF WorksOn
    <3>3. RollerOK([roller[r] EXCEPT !.pc = "look", !.tenant = t], releases, proven)
      BY <1>2, <1>3, <2>3 DEF RollerOK, RowOK, RollerRecords, Rel
    <3>. QED BY <3>1, <3>2, <3>3
  <2>4. CASE ~Has(r)
    BY <2>1, <2>4 DEF Turn
  <2>5. CASE CanaryTurn(r)
    <3>1. releases[Rel(r)].canary \in Fleet \cup {NoTenant}
      BY <1>2 DEF Records
    <3>2. WorksOn(r, releases[Rel(r)].canary) \/ Moves(r, "call") \/ Moves(r, "stop")
      BY <2>5 DEF CanaryTurn
    <3>. QED BY <2>1, <2>3, <3>1, <3>2
  <2>6. CASE RollingTurn(r)
    <3>1. \/ Moves(r, "stop") \/ (Moves(r, "choose") /\ releases[Rel(r)].state = "rolling")
          \/ \E t \in Fleet : WorksOn(r, t) /\ releases[Rel(r)].state = "rolling"
      BY <2>6 DEF RollingTurn, Members
    <3>. QED BY <2>1, <2>2, <2>3, <3>1
  <2>. QED BY <2>4, <2>5, <2>6 DEF Turn
<1>9. roller' \in [Rollers -> RollerRecords] /\ \A s \in Rollers : roller'[s] = roller[s] \/ RollerOK(roller'[s], releases, proven)
  BY <1>3, <1>8
<1>. QED BY <1>1, <1>2, <1>6, <1>7, <1>9, RowStep

(* What a run writes of its release while it has it.                        *)
LEMMA ReleaseSteps ==
    ASSUME CanaryInv, NEW r \in Rollers,
           CanaryRan(r) \/ NotesBatch(r) \/ FinishesRelease(r) \/ EndsRun(r)
    PROVE  CanaryInv'
<1>1. roller[r].pc \in {"ran", "note", "finish", "stop", "end"} /\ UNCHANGED <<fleet, current, desk, proven>>
  BY DEF CanaryRan, NotesBatch, FinishesRelease, EndsRun, RollerAt
<1>2. /\ Rel(r) \in DOMAIN releases /\ RollerOK(roller[r], releases, proven)
      /\ releases[Rel(r)] \in Records /\ RowOK(releases[Rel(r)], proven)
  BY <1>1, ReleaseAtHand
<1>3. \E R \in Records : /\ Kept(releases[Rel(r)], R) /\ RowOK(R, proven)
                         /\ releases' = releases \/ releases' = [releases EXCEPT ![Rel(r)] = R]
  <2>1. CASE CanaryRan(r)
    <3>1. PICK R : R = [releases[Rel(r)] EXCEPT !.state = "rolling", !.ran = TRUE, !.batch = 1]
      OBVIOUS
    <3>2. R \in Records /\ Kept(releases[Rel(r)], R)
      BY <1>2, <3>1 DEF Records, Kept, Active
    <3>3. Good(releases[Rel(r)].version, proven)
      BY <1>2, <2>1 DEF CanaryRan, RollerAt, RollerOK, Rel
    <3>4. RowOK(R, proven)
      BY <1>2, <3>1, <3>3 DEF RowOK, Shown, Records
    <3>. QED BY <2>1, <3>1, <3>2, <3>4 DEF CanaryRan, SetsRelease
  <2>2. CASE NotesBatch(r)
    <3>1. PICK R : R = [releases[Rel(r)] EXCEPT !.batch = @ + 1]
      OBVIOUS
    <3>2. R \in Records /\ Kept(releases[Rel(r)], R) /\ RowOK(R, proven)
      BY <1>2, <3>1 DEF Records, Kept, RowOK, Shown
    <3>. QED BY <2>2, <3>1, <3>2 DEF NotesBatch, SetsRelease
  <2>3. CASE FinishesRelease(r)
    <3>1. PICK state \in {"done", "paused"} : SetsRelease(r, [releases[Rel(r)] EXCEPT !.state = state])
      BY <2>3 DEF FinishesRelease
    <3>2. PICK R : R = [releases[Rel(r)] EXCEPT !.state = state]
      OBVIOUS
    <3>3. R \in Records /\ Kept(releases[Rel(r)], R) /\ RowOK(R, proven)
      BY <1>2, <3>2 DEF Records, Kept, RowOK, Shown, Active
    <3>. QED BY <3>1, <3>2, <3>3 DEF SetsRelease
  <2>4. CASE EndsRun(r)
    <3>1. PICK R : R = [releases[Rel(r)] EXCEPT !.lease = NoRoller]
      OBVIOUS
    <3>2. LeaseOnly(releases[Rel(r)], R)
      <4>1. R = [releases[Rel(r)] EXCEPT !.lease = NoRoller, !.over = releases[Rel(r)].over] /\ releases[Rel(r)].over \in BOOLEAN
        BY <1>2, <3>1 DEF Records
      <4>. QED BY <4>1 DEF LeaseOnly
    <3>3. R \in Records /\ Kept(releases[Rel(r)], R) /\ RowOK(R, proven)
      BY <1>2, <3>2, LeaseWritten
    <3>4. releases' = releases \/ releases' = [releases EXCEPT ![Rel(r)] = R]
      BY <2>4, <3>1 DEF EndsRun
    <3>. QED BY <3>3, <3>4
  <2>. QED BY <2>1, <2>2, <2>3, <2>4
<1>4. PICK R \in Records : /\ Kept(releases[Rel(r)], R) /\ RowOK(R, proven)
                           /\ releases' = releases \/ releases' = [releases EXCEPT ![Rel(r)] = R]
  BY <1>3
<1>5. PICK pc \in {"turn", "end"} : Moves(r, pc) \/ Quits(r)
  BY DEF CanaryRan, NotesBatch, FinishesRelease, EndsRun, StepDone
<1>6. PICK me \in RollerRecords : roller' = [roller EXCEPT ![r] = me] /\ RollerOK(me, releases, proven)
  <2>1. pc \in FreeSteps
    BY DEF FreeSteps, RollerSteps
  <2>. QED BY <1>1, <1>5, <2>1, PlainMove
<1>7. roller' \in [Rollers -> RollerRecords] /\ \A s \in Rollers : roller'[s] = roller[s] \/ RollerOK(roller'[s], releases, proven)
  BY <1>6 DEF CanaryInv, StateOK
<1>. QED BY <1>1, <1>2, <1>4, <1>7, RowStep

-----------------------------------------------------------------------------
(* The owner's requests.                                                    *)

LEMMA DeskStepKeeps ==
    ASSUME CanaryInv, UNCHANGED <<fleet, roller>>,
           RowsOK(releases', proven'), GoesOn(releases, releases', proven, proven'), proven' \subseteq AllVersions,
           desk' \in DeskRecords, DeskOK(desk', releases', proven'),
           current' = current \/ (current' \in AllVersions /\ Good(current', proven'))
    PROVE  CanaryInv'
<1>1. roller' \in [Rollers -> RollerRecords] /\ fleet' \in [Fleet -> Deployments] /\ current' \in AllVersions
  BY DEF CanaryInv, StateOK
<1>. QED BY <1>1, Carried

LEMMA Answers ==
    ASSUME Answered, NEW rows, NEW ok
    PROVE  desk' \in DeskRecords /\ DeskOK(desk', rows, ok)
BY ReleasesAssumption DEF Answered, NoRequest, DeskRecords, DeskOK, Good, AllVersions

LEMMA RefuseSteps ==
    ASSUME CanaryInv, RefusesRequest \/ HandlerDies
    PROVE  CanaryInv'
<1>1. Answered /\ UNCHANGED <<releases, fleet, current, roller, proven>>
  BY DEF RefusesRequest, HandlerDies
<1>2. RowsOK(releases', proven') /\ GoesOn(releases, releases', proven, proven') /\ proven' \subseteq AllVersions
  BY <1>1, RowsStay DEF CanaryInv, StateOK
<1>. QED BY <1>1, <1>2, Answers, DeskStepKeeps

LEMMA TakeRequestStep ==
    ASSUME CanaryInv, TakesRequest
    PROVE  CanaryInv'
<1>1. UNCHANGED <<releases, fleet, current, roller, proven>>
  BY DEF TakesRequest
<1>2. releases \in Seq(Records) /\ ActiveIds \in SUBSET (1 .. Len(releases)) /\ Len(releases) \in Nat
  BY DEF CanaryInv, StateOK, ActiveIds
<1>3. ActiveId = 0 \/ (ActiveId \in DOMAIN releases /\ ActiveId \in Nat /\ releases[ActiveId].state \in Active)
  <2>1. CASE ActiveIds # {}
    <3>1. Max(ActiveIds) \in ActiveIds
      BY <1>2, <2>1, MaxIsIn
    <3>. QED BY <1>2, <2>1, <3>1 DEF ActiveId, ActiveIds
  <2>. QED BY <2>1 DEF ActiveId
<1>4. PICK request \in Requests :
        desk' = [pc |-> request, rel |-> ActiveId, live |-> current,
                 state |-> IF ActiveId = 0 THEN "none" ELSE releases[ActiveId].state]
  BY DEF TakesRequest
<1>5. current \in AllVersions /\ Good(current, proven)
  BY DEF CanaryInv, StateOK
<1>6. desk' \in DeskRecords
  BY <1>3, <1>4, <1>5 DEF DeskRecords
<1>7. DeskOK(desk', releases, proven)
  BY <1>3, <1>4, <1>5 DEF DeskOK, Requests
<1>8. DeskOK(desk', releases', proven')
  BY <1>1, <1>7
<1>9. RowsOK(releases', proven') /\ GoesOn(releases, releases', proven, proven') /\ proven' \subseteq AllVersions
  BY <1>1, RowsStay DEF CanaryInv, StateOK
<1>. QED BY <1>1, <1>6, <1>8, <1>9, DeskStepKeeps

LEMMA PointNewStep ==
    ASSUME CanaryInv, PointsNew
    PROVE  CanaryInv'
<1>1. UNCHANGED <<releases, fleet, roller, proven>> /\ Answered /\ current' = releases[desk.rel].version
  BY DEF PointsNew
<1>2. desk.rel \in DOMAIN releases /\ Shown(releases[desk.rel])
  BY DEF CanaryInv, DeskOK, PointsNew
<1>3. RowOK(releases[desk.rel], proven) /\ releases[desk.rel] \in Records
  BY <1>2, ElementOfSeq DEF CanaryInv, StateOK
<1>4. current' \in AllVersions /\ Good(current', proven')
  BY <1>1, <1>2, <1>3 DEF RowOK, Records
<1>5. RowsOK(releases', proven') /\ GoesOn(releases, releases', proven, proven') /\ proven' \subseteq AllVersions
  BY <1>1, RowsStay DEF CanaryInv, StateOK
<1>. QED BY <1>1, <1>4, <1>5, Answers, DeskStepKeeps

(* A release that is resumed rolls only if its version may go to everybody.  *)
LEMMA ChangeStep ==
    ASSUME CanaryInv, ChangesActive
    PROVE  CanaryInv'
<1>1. UNCHANGED <<fleet, current, roller, proven>> /\ Answered /\ desk.rel # 0
  BY DEF ChangesActive
<1>2. desk.rel \in DOMAIN releases
  BY <1>1 DEF CanaryInv, DeskOK
<1>3. releases[desk.rel] \in Records /\ RowOK(releases[desk.rel], proven)
  BY <1>2, ElementOfSeq DEF CanaryInv, StateOK
<1>4. PICK state \in {"paused", "cancelled", ResumeState(desk.rel)} : ChangesTo(desk.rel, state)
  BY DEF ChangesActive
<1>5. state \in Active \cup {"cancelled"} /\ (state = "rolling" => Shown(releases[desk.rel]))
  BY DEF ResumeState, Shown, Active
<1>6. \E R \in Records : /\ Kept(releases[desk.rel], R) /\ RowOK(R, proven)
                         /\ releases' = releases \/ releases' = [releases EXCEPT ![desk.rel] = R]
  <2>1. CASE releases' = [releases EXCEPT ![desk.rel].state = state]
    <3>1. PICK R : R = [releases[desk.rel] EXCEPT !.state = state]
      OBVIOUS
    <3>2. R \in Records /\ Kept(releases[desk.rel], R) /\ RowOK(R, proven)
      BY <1>3, <1>5, <3>1 DEF Records, Kept, RowOK, Shown
    <3>. QED BY <2>1, <3>1, <3>2
  <2>2. CASE releases' = [releases EXCEPT ![desk.rel].state = state, ![desk.rel].lease = NoRoller, ![desk.rel].over = FALSE]
    <3>1. PICK R : R = [releases[desk.rel] EXCEPT !.state = state, !.lease = NoRoller, !.over = FALSE]
      OBVIOUS
    <3>2. R \in Records /\ Kept(releases[desk.rel], R) /\ RowOK(R, proven)
      BY <1>3, <1>5, <3>1 DEF Records, Kept, RowOK, Shown
    <3>3. releases' = [releases EXCEPT ![desk.rel] = R]
      BY <1>2, <2>2, <3>1
    <3>. QED BY <3>2, <3>3
  <2>3. CASE releases' = releases
    BY <1>3, <2>3 DEF Kept
  <2>. QED BY <1>4, <2>1, <2>2, <2>3 DEF ChangesTo
<1>7. RowsOK(releases', proven') /\ GoesOn(releases, releases', proven, proven')
  BY <1>1, <1>2, <1>6, RowsWritten
<1>8. proven' \subseteq AllVersions
  BY <1>1 DEF CanaryInv, StateOK
<1>. QED BY <1>1, <1>7, <1>8, Answers, DeskStepKeeps

(* A new release, and the end of the one it replaces.                       *)
LEMMA Inserted ==
    ASSUME CanaryInv, NEW R \in Records, Inserts(R), proven \subseteq proven', RowOK(R, proven')
    PROVE  /\ RowsOK(releases', proven') /\ GoesOn(releases, releases', proven, proven')
           /\ Len(releases') \in DOMAIN releases' /\ Len(releases') \in Nat \ {0} /\ releases'[Len(releases')] = R
<1>. DEFINE Ending == [i \in DOMAIN releases |->
                         IF i = desk.rel /\ releases[i].state \in Active
                         THEN [releases[i] EXCEPT !.state = "cancelled", !.lease = NoRoller, !.over = FALSE]
                         ELSE releases[i]]
<1>1. RowsOK(releases, proven) /\ releases \in Seq(Records)
  BY DEF CanaryInv, StateOK, RowsOK
<1>2. PICK ended : ended = Ending
  OBVIOUS
<1>3. releases' = Append(ended, R)
  BY <1>2 DEF Inserts
<1>4. RowsOK(ended, proven) /\ GoesOn(releases, ended, proven, proven)
  <2>1. CASE desk.rel \in DOMAIN releases /\ releases[desk.rel].state \in Active
    <3>1. PICK Q : Q = [releases[desk.rel] EXCEPT !.state = "cancelled", !.lease = NoRoller, !.over = FALSE]
      OBVIOUS
    <3>2. releases[desk.rel] \in Records /\ RowOK(releases[desk.rel], proven)
      BY <1>1, <2>1, ElementOfSeq DEF RowsOK
    <3>3. Q \in Records /\ Kept(releases[desk.rel], Q) /\ RowOK(Q, proven)
      BY <3>1, <3>2 DEF Records, Kept, RowOK, Shown
    <3>4. ended = [releases EXCEPT ![desk.rel] = Q]
      BY <1>1, <1>2, <2>1, <3>1
    <3>. QED BY <1>1, <2>1, <3>3, <3>4, RowWritten
  <2>2. CASE ~(desk.rel \in DOMAIN releases /\ releases[desk.rel].state \in Active)
    <3>1. ended = releases
      <4>1. \A i \in DOMAIN releases : ~(i = desk.rel /\ releases[i].state \in Active)
        BY <2>2
      <4>2. ended = [i \in DOMAIN releases |-> releases[i]]
        BY <1>2, <4>1
      <4>3. releases \in [1 .. Len(releases) -> Records]
        BY <1>1
      <4>. QED BY <4>2, <4>3
    <3>. QED BY <1>1, <3>1 DEF GoesOn, Kept
  <2>. QED BY <2>1, <2>2
<1>5. RowsOK(releases', proven') /\ GoesOn(ended, releases', proven, proven')
  BY <1>3, <1>4, RowAdded
<1>6. GoesOn(releases, releases', proven, proven')
  BY <1>4, <1>5 DEF GoesOn, Kept
<1>7. ended \in Seq(Records)
  BY <1>4 DEF RowsOK
<1>8. Len(releases') \in DOMAIN releases' /\ Len(releases') \in Nat \ {0} /\ releases'[Len(releases')] = R
  BY <1>3, <1>7, AppendProperties
<1>. QED BY <1>5, <1>6, <1>8

LEMMA Points ==
    ASSUME CanaryInv, NEW i \in Nat \ {0}, ThenPoints(i), NEW rows, NEW ok,
           i \in DOMAIN rows, Shown(rows[i]), proven \subseteq ok
    PROVE  desk' \in DeskRecords /\ DeskOK(desk', rows, ok)
<1>1. desk \in DeskRecords /\ DeskOK(desk, releases, proven)
  BY DEF CanaryInv, StateOK
<1>2. desk' = [desk EXCEPT !.pc = "point", !.rel = i]
  BY DEF ThenPoints
<1>. QED BY <1>1, <1>2 DEF DeskRecords, DeskOK, Good

LEMMA RolloutStep ==
    ASSUME CanaryInv, StartsRollout
    PROVE  CanaryInv'
<1>1. UNCHANGED <<fleet, current, roller>> /\ desk.pc = "rollout"
  BY DEF StartsRollout
<1>2. desk \in DeskRecords /\ Good(desk.live, proven) /\ proven \subseteq AllVersions
  BY DEF CanaryInv, StateOK, DeskOK
<1>3. PICK v, c, R :
        /\ v \in Versions /\ c \in Ready \cup {NoTenant}
        /\ R = [kind |-> "rollout", version |-> v, from |-> desk.live, canary |-> c, ran |-> FALSE,
                state |-> IF c = NoTenant THEN "rolling" ELSE "canary",
                batch |-> IF c = NoTenant THEN 1 ELSE 0, lease |-> NoRoller, over |-> FALSE]
        /\ Inserts(R)
        /\ IF c = NoTenant THEN ThenPoints(Len(releases')) /\ proven' = proven \cup {v}
           ELSE Answered /\ proven' = proven
  BY DEF StartsRollout
<1>4. R \in Records
  BY <1>2, <1>3 DEF Records, DeskRecords, AllVersions, Active, Ready
<1>5. proven \subseteq proven' /\ proven' \subseteq AllVersions
  BY <1>2, <1>3 DEF AllVersions
<1>6. RowOK(R, proven')
  BY <1>2, <1>3 DEF RowOK, Shown, Good
<1>7. /\ RowsOK(releases', proven') /\ GoesOn(releases, releases', proven, proven')
      /\ Len(releases') \in DOMAIN releases' /\ Len(releases') \in Nat \ {0} /\ releases'[Len(releases')] = R
  BY <1>3, <1>4, <1>5, <1>6, Inserted
<1>8. desk' \in DeskRecords /\ DeskOK(desk', releases', proven')
  <2>1. CASE c = NoTenant
    <3>1. Shown(releases'[Len(releases')])
      BY <1>3, <1>7, <2>1 DEF Shown
    <3>. QED BY <1>3, <1>5, <1>7, <2>1, <3>1, Points
  <2>2. CASE c # NoTenant
    BY <1>3, <2>2, Answers
  <2>. QED BY <2>1, <2>2
<1>. QED BY <1>1, <1>5, <1>7, <1>8, DeskStepKeeps

(* What a rollback goes back to is what some rollout started from.          *)
LEMMA TargetIsGood ==
    ASSUME CanaryInv, Target # 0, desk.rel # 0 => desk.rel \in DOMAIN releases
    PROVE  Target \in AllVersions /\ Good(Target, proven)
<1>1. releases \in Seq(Records) /\ Len(releases) \in Nat /\ DOMAIN releases = 1 .. Len(releases)
  BY DEF CanaryInv, StateOK
<1>2. \A i \in DOMAIN releases : releases[i] \in Records /\ RowOK(releases[i], proven)
  BY <1>1, ElementOfSeq DEF CanaryInv
<1>3. ASSUME NEW i \in Rollouts
      PROVE  releases[i].from \in AllVersions /\ Good(releases[i].from, proven)
  BY <1>2 DEF Rollouts, Records, RowOK
<1>4. CASE ReplacesRollout
  <2>1. desk.rel \in Rollouts
    BY <1>4 DEF ReplacesRollout, Rollouts
  <2>. QED BY <1>3, <1>4, <2>1 DEF Target
<1>5. CASE ~ReplacesRollout
  <2>. DEFINE to == {i \in Rollouts : releases[i].version = desk.live}
              others == {i \in Rollouts : releases[i].from # desk.live}
  <2>1. to \in SUBSET (1 .. Len(releases)) /\ others \in SUBSET (1 .. Len(releases))
    BY <1>1 DEF Rollouts
  <2>2. Target = IF to # {} THEN releases[Max(to)].from ELSE IF others # {} THEN releases[Max(others)].from ELSE 0
    BY <1>5 DEF Target, PreviousVersion
  <2>3. to # {} => Max(to) \in to
    BY <1>1, <2>1, MaxIsIn
  <2>4. others # {} => Max(others) \in others
    BY <1>1, <2>1, MaxIsIn
  <2>5. (to # {} => Max(to) \in Rollouts) /\ (others # {} => Max(others) \in Rollouts)
    BY <2>3, <2>4
  <2>. HIDE DEF to, others
  <2>. QED BY <1>3, <2>2, <2>5
<1>. QED BY <1>4, <1>5

LEMMA RollbackStep ==
    ASSUME CanaryInv, StartsRollback
    PROVE  CanaryInv'
<1>1. UNCHANGED <<fleet, current, roller, proven>> /\ Target # 0
  BY DEF StartsRollback
<1>2. desk \in DeskRecords /\ DeskOK(desk, releases, proven) /\ proven \subseteq AllVersions
  BY DEF CanaryInv, StateOK
<1>3. Target \in AllVersions /\ Good(Target, proven)
  BY <1>1, <1>2, TargetIsGood DEF DeskOK
<1>4. PICK R : /\ R = [kind |-> "rollback", version |-> Target,
                       from |-> IF ReplacesRollout THEN releases[desk.rel].version ELSE desk.live,
                       canary |-> NoTenant, ran |-> FALSE, state |-> "rolling", batch |-> 1,
                       lease |-> NoRoller, over |-> FALSE]
               /\ Inserts(R) /\ ThenPoints(Len(releases'))
  BY DEF StartsRollback
<1>5. R \in Records
  <2>1. (IF ReplacesRollout THEN releases[desk.rel].version ELSE desk.live) \in AllVersions
    <3>1. CASE ReplacesRollout
      <4>1. desk.rel \in DOMAIN releases
        BY <1>2, <3>1 DEF DeskOK, ReplacesRollout
      <4>2. releases[desk.rel] \in Records
        BY <4>1, ElementOfSeq DEF CanaryInv, StateOK
      <4>. QED BY <3>1, <4>2 DEF Records
    <3>. QED BY <1>2, <3>1 DEF DeskRecords
  <2>. QED BY <1>3, <1>4, <2>1 DEF Records, Active
<1>6. RowOK(R, proven') /\ Shown(R)
  BY <1>1, <1>3, <1>4 DEF RowOK, Shown
<1>7. /\ RowsOK(releases', proven') /\ GoesOn(releases, releases', proven, proven')
      /\ Len(releases') \in DOMAIN releases' /\ Len(releases') \in Nat \ {0} /\ releases'[Len(releases')] = R
  BY <1>1, <1>4, <1>5, <1>6, Inserted
<1>8. Shown(releases'[Len(releases')]) /\ proven \subseteq proven' /\ proven' \subseteq AllVersions
  BY <1>1, <1>2, <1>6, <1>7
<1>9. desk' \in DeskRecords /\ DeskOK(desk', releases', proven')
  BY <1>4, <1>7, <1>8, Points
<1>. QED BY <1>1, <1>7, <1>8, <1>9, DeskStepKeeps

-----------------------------------------------------------------------------
(* Tenants come and go: a new one gets what releases/current names.         *)
LEMMA FleetSteps ==
    ASSUME CanaryInv, NEW t \in Fleet, SignsUp(t) \/ GetsReady(t) \/ IsRemoved(t)
    PROVE  CanaryInv'
<1>1. UNCHANGED <<releases, current, roller, desk, proven>>
  BY DEF SignsUp, GetsReady, IsRemoved
<1>2. /\ fleet \in [Fleet -> Deployments] /\ current \in AllVersions /\ Good(current, proven)
      /\ roller' \in [Rollers -> RollerRecords] /\ desk' \in DeskRecords /\ current' \in AllVersions /\ proven' \subseteq AllVersions
  BY <1>1 DEF CanaryInv, StateOK
<1>3. \E new \in Deployments : fleet' = [fleet EXCEPT ![t] = new] /\ new.script \in {fleet[t].script, current}
  <2>1. CASE SignsUp(t)
    <3>1. [stage |-> "made", row |-> current, script |-> current] \in Deployments
      BY <1>2 DEF Deployments
    <3>. QED BY <2>1, <3>1 DEF SignsUp
  <2>2. CASE GetsReady(t)
    <3>1. [fleet[t] EXCEPT !.stage = "ready"] \in Deployments /\ [fleet[t] EXCEPT !.stage = "ready"].script = fleet[t].script
      BY <1>2 DEF Deployments
    <3>. QED BY <1>2, <2>2, <3>1 DEF GetsReady
  <2>3. CASE IsRemoved(t)
    <3>1. [fleet[t] EXCEPT !.stage = "gone"] \in Deployments /\ [fleet[t] EXCEPT !.stage = "gone"].script = fleet[t].script
      BY <1>2 DEF Deployments
    <3>. QED BY <1>2, <2>3, <3>1 DEF IsRemoved
  <2>. QED BY <2>1, <2>2, <2>3
<1>4. PICK new \in Deployments : fleet' = [fleet EXCEPT ![t] = new] /\ new.script \in {fleet[t].script, current}
  BY <1>3
<1>5. ScriptOK(t, current, releases', proven')
  BY <1>1, <1>2 DEF ScriptOK, Good
<1>6. /\ fleet' \in [Fleet -> Deployments]
      /\ \A u \in Fleet : fleet'[u].script = fleet[u].script \/ (u = t /\ fleet'[u].script = current)
  BY <1>2, <1>4
<1>7. \A u \in Fleet : fleet'[u].script = fleet[u].script \/ ScriptOK(u, fleet'[u].script, releases', proven')
  BY <1>5, <1>6
<1>8. RowsOK(releases', proven') /\ GoesOn(releases, releases', proven, proven')
  BY <1>1, RowsStay
<1>. QED BY <1>1, <1>2, <1>6, <1>7, <1>8, Carried

-----------------------------------------------------------------------------

LEMMA StartsInOrder ==
    ASSUME ReleaseInit
    PROVE  CanaryInv
<1>1. releases = <<>> /\ proven = {} /\ current = First /\ desk = NoRequest
  BY DEF ReleaseInit
<1>2. First \in AllVersions /\ First # 0
  BY ReleasesAssumption DEF AllVersions
<1>3. releases \in Seq(Records) /\ DOMAIN releases = {}
  BY <1>1
<1>4. fleet \in [Fleet -> Deployments] /\ \A t \in Fleet : fleet[t].script \in {First, 0}
  <2>1. \A x \in {[stage |-> "ready", row |-> First, script |-> First], [stage |-> "new", row |-> 0, script |-> 0]} :
           x \in Deployments /\ x.script \in {First, 0}
    BY <1>2 DEF Deployments
  <2>. QED BY <2>1 DEF ReleaseInit
<1>5. roller \in [Rollers -> RollerRecords] /\ \A r \in Rollers : roller[r].pc = "idle"
  BY DEF ReleaseInit, Off, RollerRecords, RollerSteps
<1>6. desk \in DeskRecords /\ DeskOK(desk, releases, proven)
  BY <1>1, <1>2 DEF NoRequest, DeskRecords, DeskOK, Good
<1>. QED BY <1>1, <1>2, <1>3, <1>4, <1>5, <1>6 DEF CanaryInv, StateOK, RollerOK, ScriptOK, Good

LEMMA StepKeepsOrder ==
    ASSUME CanaryInv, [ReleaseNext]_releaseVars
    PROVE  CanaryInv'
<1>1. CASE UNCHANGED releaseVars
  BY <1>1 DEF releaseVars, CanaryInv, StateOK, RollerOK, DeskOK, ScriptOK, Good, RowOK, Shown
<1>2. ASSUME NEW r \in Rollers, TakesRelease(r) \/ RollerStep(r) \/ RunThrows(r)
      PROVE  CanaryInv'
  <2>1. CASE TakesRelease(r)
    BY <2>1, TakeStep
  <2>2. CASE Begins(r) \/ PointsAtProven(r) \/ RepairsPointer(r)
    BY <2>2, PointingSteps
  <2>3. CASE Turn(r)
    BY <2>3, TurnStep
  <2>4. CASE LooksAtTenant(r)
    BY <2>4, LookStep
  <2>5. CASE Uploads(r)
    BY <2>5, UploadStep
  <2>6. CASE RecordsVersion(r)
    BY <2>6, RecordVersionStep
  <2>7. CASE \/ UploadFails(r) \/ MarksUploaded(r) \/ HealthAnswers(r) \/ WritesHealth(r)
             \/ CanaryIsBusy(r) \/ RunThrows(r)
    BY <2>7, QuietSteps
  <2>8. CASE CallsScheduler(r)
    BY <2>8, CallSchedulerStep
  <2>9. CASE ChoosesBatch(r) \/ LooksBack(r)
    BY <2>9, ChoosingSteps
  <2>10. CASE CanaryRan(r) \/ NotesBatch(r) \/ FinishesRelease(r) \/ EndsRun(r)
    BY <2>10, ReleaseSteps
  <2>. QED BY <1>2, <2>1, <2>2, <2>3, <2>4, <2>5, <2>6, <2>7, <2>8, <2>9, <2>10 DEF RollerStep
<1>3. CASE \E i \in DOMAIN releases : LeaseRunsOut(i)
  BY <1>3, LeaseExpires
<1>4. CASE TakesRequest
  BY <1>4, TakeRequestStep
<1>5. CASE DeskStep
  BY <1>5, RolloutStep, RollbackStep, PointNewStep, ChangeStep, RefuseSteps DEF DeskStep
<1>6. CASE FleetStep
  BY <1>6, FleetSteps DEF FleetStep
<1>. QED BY <1>1, <1>2, <1>3, <1>4, <1>5, <1>6 DEF ReleaseNext

(* In every state a run, a handler and a script may rely on what CanaryInv  *)
(* says of them: a run that works on a tenant has a release that may go to  *)
(* everybody, or the canary's, wherever it stalled.                         *)
THEOREM CanaryInvariant == ReleaseSpec => []CanaryInv
BY StartsInOrder, StepKeepsOrder, PTL DEF ReleaseSpec

(* No tenant but a canary runs a version, and no new tenant gets it, before *)
(* a canary ran clean on it.                                                *)
THEOREM NobodyBeforeTheCanary == ReleaseSpec => []CanaryFirst
<1>1. CanaryInv => CanaryFirst
  BY DEF CanaryInv, Good, ScriptOK, CanaryFirst
<1>. QED BY <1>1, CanaryInvariant, PTL

-----------------------------------------------------------------------------
(* Batches: the invariant.                                                  *)

MemberRecords == [state : Open \cup {"none", "healthy", "failed", "skipped"}, batch : Nat,
                  tries : 0 .. MaxChecks, requeues : 0 .. MaxRequeues]
Running == {"canary", "rolling"}
TenantSteps == {"look", "upload", "refused", "record", "mark", "health", "well", "ill"}
CallSteps == {"call", "busy", "point", "ran"}

\* A release's row and its tenants: before its canary ran clean it has no other,
\* and no tenant is ahead of the batch the row says.  One that is behind it in a
\* rollout, and not well, was found on another version once too often.
MembersOK(R, M) ==
    /\ R.state = "canary" => ~Shown(R)
    /\ Shown(R) => R.batch >= 1
    /\ ~Shown(R) => /\ R.batch = 0 /\ M[R.canary].batch = 0
                    /\ \A t \in Fleet \ {R.canary} : M[t].state = "none"
    /\ \A t \in Fleet : M[t].state \in {"uploaded", "healthy"} => M[t].batch <= R.batch
    /\ R.kind = "rollout" =>
         \A t \in Fleet : M[t].state \in Open \cup {"failed"} /\ M[t].batch < R.batch => M[t].requeues = MaxRequeues

\* Nothing is left of a batch.
BatchIsOver(R, M) == \A t \in Fleet : M[t].state \in Open => M[t].batch # R.batch
BatchIsWell(R, M) ==
    R.kind = "rollout" =>
        \A t \in Fleet : M[t].state \in Open \cup {"failed"} /\ M[t].batch = R.batch => M[t].requeues = MaxRequeues

\* What the run that holds a release relies on at its step.
WorkOK(me, R, M) ==
    /\ me.pc \in TenantSteps => M[me.tenant].batch = R.batch /\ (~Shown(R) => me.tenant = R.canary)
    /\ me.pc \in CallSteps => ~Shown(R) /\ M[R.canary].state = "healthy"
    /\ me.pc \in {"choose", "back", "note", "repair", "finish"} => Shown(R)
    /\ me.pc \in {"choose", "back", "note"} => BatchIsWell(R, M)
    /\ me.pc \in {"choose", "back", "repair", "finish"} => BatchIsOver(R, M)

OffWork == {"idle", "end"}
\* A run that holds a release finds it running, and itself in order.
HoldOK(s, me, rows, members) ==
    me.pc \notin OffWork /\ rows[me.rel].lease = s =>
        rows[me.rel].state \in Running /\ WorkOK(me, rows[me.rel], members[me.rel])

\* A request that found the release paused still does.
WaitsOK(d, rows) ==
    d.pc \in {"resume", "skip_failed"} /\ d.rel # 0 /\ d.state = "paused" => rows[d.rel].state \notin Running

OrderInv ==
    /\ Len(releases) <= MaxReleases /\ member \in [ReleaseIds -> [Fleet -> MemberRecords]]
    /\ \A i \in ReleaseIds \ DOMAIN releases : \A t \in Fleet : member[i][t].state = "none"
    /\ \A i \in DOMAIN releases : MembersOK(releases[i], member[i])
    /\ \A r \in Rollers : /\ roller[r].pc \in TenantSteps => roller[r].tenant \in Fleet
                          /\ HoldOK(r, roller[r], releases, member)
    /\ WaitsOK(desk, releases)

-----------------------------------------------------------------------------
(* Batches: what a run's step has to show.                                  *)

LEMMA WorkAtHand ==
    ASSUME CanaryInv, OrderInv, NEW r \in Rollers, roller[r].pc # "idle"
    PROVE  /\ Rel(r) \in DOMAIN releases /\ Rel(r) \in ReleaseIds /\ roller[r] \in RollerRecords
           /\ releases[Rel(r)] \in Records /\ member[Rel(r)] \in [Fleet -> MemberRecords]
           /\ MembersOK(releases[Rel(r)], member[Rel(r)])
           /\ roller[r].pc \in TenantSteps => roller[r].tenant \in Fleet
           /\ roller[r].pc # "end" /\ releases[Rel(r)].lease = r =>
                /\ releases[Rel(r)].state \in Running /\ Has(r)
                /\ WorkOK(roller[r], releases[Rel(r)], member[Rel(r)])
<1>1. /\ Rel(r) \in DOMAIN releases /\ releases[Rel(r)] \in Records /\ roller[r] \in RollerRecords
      /\ releases \in Seq(Records)
  BY ReleaseAtHand DEF CanaryInv, StateOK
<1>2. Rel(r) \in ReleaseIds
  <2>1. Len(releases) \in Nat /\ DOMAIN releases = 1 .. Len(releases) /\ Len(releases) <= MaxReleases
    BY <1>1, LenProperties DEF OrderInv
  <2>2. MaxReleases \in Nat
    BY ReleasesAssumption
  <2>. QED BY <1>1, <2>1, <2>2 DEF ReleaseIds
<1>3. /\ member[Rel(r)] \in [Fleet -> MemberRecords] /\ MembersOK(releases[Rel(r)], member[Rel(r)])
      /\ roller[r].pc \in TenantSteps => roller[r].tenant \in Fleet
  BY <1>1, <1>2 DEF OrderInv
<1>4. ASSUME roller[r].pc # "end", releases[Rel(r)].lease = r
      PROVE  /\ releases[Rel(r)].state \in Running /\ Has(r)
             /\ WorkOK(roller[r], releases[Rel(r)], member[Rel(r)])
  <2>1. HoldOK(r, roller[r], releases, member)
    BY DEF OrderInv
  <2>2. /\ releases[Rel(r)].state \in Running
        /\ WorkOK(roller[r], releases[Rel(r)], member[Rel(r)])
    BY <1>4, <2>1 DEF HoldOK, OffWork, Rel
  <2>. QED BY <1>4, <2>2 DEF Has, Running
<1>. QED BY <1>1, <1>2, <1>3, <1>4

\* A run writes its own release, and only while it holds it.
LEMMA RunWrites ==
    ASSUME CanaryInv, OrderInv, NEW r \in Rollers, roller[r].pc # "idle",
           NEW me, roller' = [roller EXCEPT ![r] = me],
           me.pc \notin OffWork => me.rel = Rel(r), me.pc \in TenantSteps => me.tenant \in Fleet,
           desk' = desk,
           NEW R, R = releases[Rel(r)], NEW M, M = member[Rel(r)],
           NEW Q, NEW N \in [Fleet -> MemberRecords],
           releases' = [releases EXCEPT ![Rel(r)] = Q], member' = [member EXCEPT ![Rel(r)] = N],
           MembersOK(Q, N),
           Q.state \in Running => R.state \in Running,
           Q.lease \in {R.lease, NoRoller},
           R.lease # r => Q = R /\ N = M,
           me.pc \notin OffWork /\ R.lease = r /\ Q.lease = r => Q.state \in Running /\ WorkOK(me, Q, N)
    PROVE  OrderInv'
<1>. DEFINE i == Rel(r)
<1>1. i \in DOMAIN releases /\ i \in ReleaseIds /\ releases \in Seq(Records) /\ roller \in [Rollers -> RollerRecords]
  BY WorkAtHand DEF CanaryInv, StateOK
<1>2. /\ DOMAIN releases' = DOMAIN releases /\ Len(releases') = Len(releases)
      /\ releases'[i] = Q /\ \A j \in DOMAIN releases \ {i} : releases'[j] = releases[j]
  BY <1>1
<1>. HIDE DEF i
<1>3. /\ member' \in [ReleaseIds -> [Fleet -> MemberRecords]]
      /\ member'[i] = N /\ \A j \in ReleaseIds \ {i} : member'[j] = member[j]
  BY <1>1 DEF OrderInv, i
<1>4. roller'[r] = me /\ \A s \in Rollers \ {r} : roller'[s] = roller[s]
  BY <1>1
<1>5. Len(releases') <= MaxReleases /\ \A j \in ReleaseIds \ DOMAIN releases' : \A t \in Fleet : member'[j][t].state = "none"
  BY <1>1, <1>2, <1>3 DEF OrderInv
<1>6. \A j \in DOMAIN releases' : MembersOK(releases'[j], member'[j])
  <2>1. DOMAIN releases \subseteq ReleaseIds
    <3>1. Len(releases) \in Nat /\ DOMAIN releases = 1 .. Len(releases) /\ Len(releases) <= MaxReleases
      BY <1>1, LenProperties DEF OrderInv
    <3>2. MaxReleases \in Nat
      BY ReleasesAssumption
    <3>. QED BY <3>1, <3>2 DEF ReleaseIds
  <2>2. \A j \in DOMAIN releases : MembersOK(releases[j], member[j])
    BY DEF OrderInv
  <2>. QED BY <1>2, <1>3, <2>1, <2>2
<1>7. ASSUME NEW s \in Rollers
      PROVE  /\ roller'[s].pc \in TenantSteps => roller'[s].tenant \in Fleet
             /\ HoldOK(s, roller'[s], releases', member')
  <2>1. CASE s = r
    <3>1. releases'[i].lease = r => R.lease = r
      BY <1>2, ReleasesAssumption
    <3>2. HoldOK(r, me, releases', member')
      BY <1>2, <1>3, <3>1 DEF HoldOK, i
    <3>. QED BY <1>4, <2>1, <3>2
  <2>2. CASE s # r
    <3>1. roller'[s] = roller[s] /\ (roller[s].pc \in TenantSteps => roller[s].tenant \in Fleet)
      BY <1>4, <2>2 DEF OrderInv
    <3>2. HoldOK(s, roller[s], releases, member)
      BY DEF OrderInv
    <3>3. roller[s].pc \notin OffWork => roller[s].rel \in DOMAIN releases /\ roller[s].rel \in ReleaseIds
      <4>1. roller[s].pc # "idle" => Rel(s) \in DOMAIN releases /\ Rel(s) \in ReleaseIds
        BY WorkAtHand
      <4>. QED BY <4>1 DEF OffWork, Rel
    <3>4. ASSUME roller[s].pc \notin OffWork, roller[s].rel = i, Q.lease = s
          PROVE  releases'[i] = releases[i] /\ member'[i] = member[i]
      <4>1. R.lease = s
        BY <3>4, ReleasesAssumption
      <4>. QED BY <1>2, <1>3, <2>2, <4>1 DEF i
    <3>5. HoldOK(s, roller[s], releases', member')
      <4>. DEFINE j == roller[s].rel
      <4>1. SUFFICES ASSUME roller[s].pc \notin OffWork, releases'[j].lease = s
                     PROVE  releases'[j].state \in Running /\ WorkOK(roller[s], releases'[j], member'[j])
        BY DEF HoldOK
      <4>2. releases'[j] = releases[j] /\ member'[j] = member[j]
        BY <1>2, <1>3, <3>3, <3>4, <4>1
      <4>. QED BY <3>2, <4>1, <4>2 DEF HoldOK
    <3>. QED BY <3>1, <3>5
  <2>. QED BY <2>1, <2>2
<1>8. WaitsOK(desk', releases')
  <2>1. WaitsOK(desk, releases) /\ (desk.rel # 0 => desk.rel \in DOMAIN releases)
    BY DEF OrderInv, CanaryInv, DeskOK
  <2>2. desk.rel \in DOMAIN releases /\ releases'[desk.rel].state \in Running => releases[desk.rel].state \in Running
    BY <1>2 DEF i
  <2>. QED BY <2>1, <2>2 DEF WaitsOK
<1>. QED BY <1>3, <1>5, <1>6, <1>7, <1>8 DEF OrderInv

LEMMA RunLooks ==
    ASSUME CanaryInv, OrderInv, NEW r \in Rollers, roller[r].pc # "idle",
           NEW me, roller' = [roller EXCEPT ![r] = me],
           me.pc \notin OffWork => me.rel = Rel(r), me.pc \in TenantSteps => me.tenant \in Fleet,
           UNCHANGED <<desk, releases, member>>,
           me.pc \notin OffWork /\ releases[Rel(r)].lease = r =>
               /\ releases[Rel(r)].state \in Running
               /\ WorkOK(me, releases[Rel(r)], member[Rel(r)])
    PROVE  OrderInv'
<1>. DEFINE R == releases[Rel(r)]
            M == member[Rel(r)]
<1>1. Rel(r) \in DOMAIN releases /\ M \in [Fleet -> MemberRecords] /\ MembersOK(R, M) /\ releases \in Seq(Records)
  BY WorkAtHand DEF CanaryInv, StateOK
<1>2. releases' = [releases EXCEPT ![Rel(r)] = R] /\ member' = [member EXCEPT ![Rel(r)] = M]
  <2>1. member \in [ReleaseIds -> [Fleet -> MemberRecords]]
    BY DEF OrderInv
  <2>. QED BY <1>1, <2>1
<1>. HIDE DEF R, M
<1>3. me.pc \notin OffWork /\ R.lease = r => R.state \in Running /\ WorkOK(me, R, M)
  BY DEF R, M
<1>. QED BY <1>1, <1>2, <1>3, RunWrites DEF R, M

-----------------------------------------------------------------------------
(* Batches: the steps of a run that write neither release nor tenants.       *)

\* What holds at the one step holds at the other.
Follows(from, to) ==
    /\ to \in TenantSteps => from \in TenantSteps
    /\ to \in CallSteps => from \in CallSteps
    /\ to \notin {"choose", "note"}
    /\ to = "back" => from = "choose"
    /\ to \in {"repair", "finish"} => from \in {"back", "repair"}

LEMMA RunMoves ==
    ASSUME CanaryInv, OrderInv, NEW r \in Rollers, roller[r].pc \notin OffWork, NEW pc \in RollerSteps,
           Moves(r, pc), Follows(roller[r].pc, pc), UNCHANGED <<desk, releases, member>>
    PROVE  OrderInv'
<1>1. PICK me \in RollerRecords :
        roller' = [roller EXCEPT ![r] = me] /\ me.pc = pc /\ me.rel = Rel(r) /\ me.tenant = roller[r].tenant
  BY MovesTo DEF OffWork
<1>2. pc \in TenantSteps => me.tenant \in Fleet
  BY <1>1, WorkAtHand DEF Follows, OffWork
<1>3. ASSUME pc \notin OffWork, releases[Rel(r)].lease = r
      PROVE  releases[Rel(r)].state \in Running /\ WorkOK(me, releases[Rel(r)], member[Rel(r)])
  <2>1. /\ releases[Rel(r)].state \in Running
        /\ WorkOK(roller[r], releases[Rel(r)], member[Rel(r)])
    BY <1>3, WorkAtHand DEF OffWork
  <2>. QED BY <1>1, <2>1 DEF Follows, WorkOK
<1>. QED BY <1>1, <1>2, <1>3, RunLooks DEF OffWork

LEMMA RunQuits ==
    ASSUME CanaryInv, OrderInv, NEW r \in Rollers, roller[r].pc # "idle", Quits(r),
           UNCHANGED <<desk, releases, member>>
    PROVE  OrderInv'
<1>1. roller' = [roller EXCEPT ![r] = Off]
  BY DEF Quits
<1>2. Off.pc \in OffWork /\ Off.pc \notin TenantSteps
  BY DEF Off, OffWork, TenantSteps
<1>. QED BY <1>1, <1>2, RunLooks

LEMMA RunStepsQuietly ==
    ASSUME CanaryInv, OrderInv, NEW r \in Rollers,
           \/ Begins(r) \/ Uploads(r) \/ RecordsVersion(r) \/ HealthAnswers(r) \/ CallsScheduler(r)
           \/ PointsAtProven(r) \/ RepairsPointer(r)
    PROVE  OrderInv'
<1>1. roller[r].pc \notin OffWork /\ UNCHANGED <<desk, releases, member>>
  BY DEF Begins, Uploads, RecordsVersion, HealthAnswers, CallsScheduler, PointsAtProven, RepairsPointer, RollerAt,
         OffWork
<1>2. \E pc \in RollerSteps : Moves(r, pc) /\ Follows(roller[r].pc, pc)
  BY DEF Begins, Uploads, RecordsVersion, HealthAnswers, CallsScheduler, PointsAtProven, RepairsPointer, RollerAt,
         RollerSteps, Follows, TenantSteps, CallSteps
<1>. QED BY <1>1, <1>2, RunMoves

LEMMA RunThrowsInOrder ==
    ASSUME CanaryInv, OrderInv, NEW r \in Rollers, RunThrows(r)
    PROVE  OrderInv'
<1>1. roller[r].pc \notin OffWork /\ UNCHANGED <<desk, releases, member>> /\ (Moves(r, "end") \/ Quits(r))
  BY DEF RunThrows, OffWork
<1>2. "end" \in RollerSteps /\ Follows(roller[r].pc, "end")
  BY DEF RollerSteps, Follows, TenantSteps, CallSteps
<1>. QED BY <1>1, <1>2, RunMoves, RunQuits DEF OffWork

-----------------------------------------------------------------------------
(* Batches: one tenant is written.                                          *)

\* The canary, or a tenant of the batch in hand, keeps its batch.
LEMMA TenantWritten ==
    ASSUME CanaryInv, OrderInv, NEW r \in Rollers, roller[r].pc # "idle", NEW pc \in RollerSteps, Moves(r, pc),
           NEW t \in Fleet, NEW R, R = releases[Rel(r)], NEW M, M = member[Rel(r)],
           NEW rec \in MemberRecords, SetsMember(r, t, rec), UNCHANGED <<desk, releases>>,
           Has(r) => /\ rec.batch = M[t].batch /\ M[t].batch = R.batch /\ (~Shown(R) => t = R.canary)
                     /\ rec.requeues = M[t].requeues,
           pc \in OffWork \cup {"turn"} \/ (pc = "health" /\ roller[r].pc = "mark" /\ t = roller[r].tenant),
           roller[r].pc # "end"
    PROVE  OrderInv'
<1>1. PICK me \in RollerRecords :
        roller' = [roller EXCEPT ![r] = me] /\ me.pc = pc /\ me.rel = Rel(r) /\ me.tenant = roller[r].tenant
  BY MovesTo
<1>2. /\ Rel(r) \in DOMAIN releases /\ Rel(r) \in ReleaseIds /\ R \in Records /\ M \in [Fleet -> MemberRecords]
      /\ MembersOK(R, M) /\ (roller[r].pc \in TenantSteps => roller[r].tenant \in Fleet)
      /\ R.lease = r => R.state \in Running /\ Has(r) /\ WorkOK(roller[r], R, M)
  BY WorkAtHand
<1>. DEFINE N == IF Has(r) THEN [M EXCEPT ![t] = rec] ELSE M
<1>3. N \in [Fleet -> MemberRecords]
  BY <1>2
<1>4. releases' = [releases EXCEPT ![Rel(r)] = R]
  <2>1. releases \in Seq(Records)
    BY DEF CanaryInv, StateOK
  <2>. QED BY <1>2, <2>1
<1>5. member' = [member EXCEPT ![Rel(r)] = N]
  <2>1. member \in [ReleaseIds -> [Fleet -> MemberRecords]]
    BY DEF OrderInv
  <2>2. CASE Has(r)
    <3>1. member' = [member EXCEPT ![Rel(r)][t] = rec]
      BY <2>2 DEF SetsMember
    <3>. QED BY <2>2, <3>1, Zenon
  <2>3. CASE ~Has(r)
    BY <1>2, <2>1, <2>3 DEF SetsMember
  <2>. QED BY <2>2, <2>3
<1>6. MembersOK(R, N)
  <2>1. CASE ~Has(r)
    BY <1>2, <2>1
  <2>2. CASE Has(r)
    <3>1. /\ \A s \in Fleet : N[s] = IF s = t THEN rec ELSE M[s]
          /\ R.batch \in Nat /\ \A s \in Fleet : M[s].batch \in Nat
      BY <1>2, <2>2 DEF Records, MemberRecords
    <3>2. \A s \in Fleet : N[s].batch = M[s].batch /\ N[s].requeues = M[s].requeues
      BY <2>2, <3>1
    <3>3. ~Shown(R) => R.canary \in Fleet
      BY <1>2 DEF Shown, Records
    <3>. HIDE DEF N
    <3>4. ~Shown(R) => /\ R.batch = 0 /\ N[R.canary].batch = 0
                       /\ \A s \in Fleet \ {R.canary} : N[s].state = "none"
      BY <1>2, <2>2, <3>1, <3>2, <3>3 DEF MembersOK
    <3>5. \A s \in Fleet : N[s].state \in {"uploaded", "healthy"} => N[s].batch <= R.batch
      BY <1>2, <2>2, <3>1, <3>2 DEF MembersOK
    <3>6. ASSUME R.kind = "rollout", NEW s \in Fleet, N[s].state \in Open \cup {"failed"}, N[s].batch < R.batch
          PROVE  N[s].requeues = MaxRequeues
      <4>1. s # t
        BY <2>2, <3>1, <3>2, <3>6
      <4>. QED BY <1>2, <3>1, <3>6, <4>1 DEF MembersOK
    <3>. QED BY <1>2, <3>4, <3>5, <3>6 DEF MembersOK
  <2>. QED BY <2>1, <2>2
<1>7. R.lease # r => N = M
  BY DEF Has
<1>8. me.pc \in TenantSteps => me.tenant \in Fleet
  BY <1>1, <1>2 DEF TenantSteps, OffWork
<1>9. ASSUME me.pc \notin OffWork, R.lease = r
      PROVE  R.state \in Running /\ WorkOK(me, R, N)
  <2>1. CASE pc = "turn"
    BY <1>1, <1>2, <1>9, <2>1 DEF WorkOK, TenantSteps, CallSteps
  <2>2. CASE pc = "health" /\ roller[r].pc = "mark" /\ t = roller[r].tenant
    <3>1. N[t].batch = R.batch /\ (~Shown(R) => t = R.canary)
      BY <1>2, <1>9
    <3>. QED BY <1>1, <1>2, <1>9, <2>2, <3>1 DEF WorkOK, CallSteps
  <2>. QED BY <1>1, <1>9, <2>1, <2>2 DEF OffWork
<1>. HIDE DEF N
<1>. QED BY <1>1, <1>2, <1>3, <1>4, <1>5, <1>6, <1>7, <1>8, <1>9, RunWrites

LEMMA ReleaseConstants ==
    /\ MaxChecks \in Nat \ {0} /\ MaxRequeues \in Nat /\ MaxReleases \in Nat
    /\ NoTenant \notin Fleet /\ NoRoller \notin Rollers
    /\ \A pc \in {"turn", "end", "stop", "health", "note", "back", "repair"} : pc \in RollerSteps
  BY ReleasesAssumption DEF RollerSteps

(* A tenant's row with another state and another number of tries.            *)
Tried(m, state, k) == [m EXCEPT !.state = state, !.tries = k]
LEMMA TriedAgain ==
    ASSUME NEW m \in MemberRecords, NEW state \in Open \cup {"none", "healthy", "failed", "skipped"},
           NEW k \in 0 .. MaxChecks
    PROVE  /\ Tried(m, state, k) \in MemberRecords /\ Tried(m, state, k).batch = m.batch
           /\ Tried(m, state, k).requeues = m.requeues /\ Tried(m, state, k).state = state
<1>. DEFINE o == [m EXCEPT !.state = state]
<1>1. o \in MemberRecords /\ o.batch = m.batch /\ o.requeues = m.requeues /\ o.state = state
  BY DEF MemberRecords
<1>2. Tried(m, state, k) = [o EXCEPT !.tries = k]
  BY DEF Tried
<1>. HIDE DEF o
<1>. QED BY <1>1, <1>2 DEF MemberRecords

LEMMA MoreTries ==
    ASSUME NEW k \in 0 .. MaxChecks
    PROVE  (IF k < MaxChecks THEN k + 1 ELSE k) \in 0 .. MaxChecks
BY ReleaseConstants

LEMMA TenantStepsInOrder ==
    ASSUME CanaryInv, OrderInv, NEW r \in Rollers,
           LooksAtTenant(r) \/ UploadFails(r) \/ MarksUploaded(r) \/ WritesHealth(r)
    PROVE  OrderInv'
<1>. DEFINE t == roller[r].tenant
            R == releases[Rel(r)]
            M == member[Rel(r)]
<1>1. /\ roller[r].pc \in TenantSteps /\ roller[r].pc \notin OffWork /\ UNCHANGED <<desk, releases>>
  BY DEF LooksAtTenant, UploadFails, MarksUploaded, WritesHealth, RollerAt, TenantSteps, OffWork
<1>2. /\ t \in Fleet /\ M[t] \in MemberRecords /\ Member(r) = M[t]
      /\ Has(r) => M[t].batch = R.batch /\ (~Shown(R) => t = R.canary)
  BY <1>1, WorkAtHand DEF OffWork, WorkOK, Has, Member
<1>3. CASE UNCHANGED member
  <2>1. \E pc \in RollerSteps : Moves(r, pc) /\ Follows(roller[r].pc, pc)
    BY <1>3 DEF LooksAtTenant, UploadFails, MarksUploaded, WritesHealth, RollerAt, StepDone,
                RollerSteps, Follows, TenantSteps, CallSteps
  <2>. QED BY <1>1, <1>3, <2>1, RunMoves
<1>4. ASSUME NEW rec \in MemberRecords, NEW pc \in {"turn", "end", "health"}, SetsMember(r, t, rec), Moves(r, pc),
             rec.batch = M[t].batch, rec.requeues = M[t].requeues, pc = "health" => roller[r].pc = "mark"
      PROVE  OrderInv'
  <2>1. pc \in RollerSteps /\ (pc \in OffWork \cup {"turn"} \/ (pc = "health" /\ roller[r].pc = "mark"))
    BY <1>4 DEF RollerSteps, OffWork
  <2>. HIDE DEF t, R, M
  <2>2. t = roller[r].tenant /\ R = releases[Rel(r)] /\ M = member[Rel(r)]
    BY DEF t, R, M
  <2>3. roller[r].pc # "idle" /\ roller[r].pc # "end"
    BY <1>1 DEF OffWork
  <2>. QED BY <1>1, <1>2, <1>4, <2>1, <2>2, <2>3, TenantWritten
<1>. HIDE DEF t, R, M
<1>5. CASE LooksAtTenant(r)
  <2>1. CASE UNCHANGED member
    BY <1>3, <2>1
  <2>2. CASE SetsMember(r, t, [Member(r) EXCEPT !.state = "skipped"]) /\ StepDone(r)
    <3>. DEFINE rec == [M[t] EXCEPT !.state = "skipped"]
    <3>1. rec \in MemberRecords /\ rec.batch = M[t].batch /\ rec.requeues = M[t].requeues
      BY <1>2 DEF MemberRecords
    <3>2. SetsMember(r, t, rec)
      BY <1>2, <2>2
    <3>. HIDE DEF rec
    <3>. QED BY <1>4, <2>2, <3>1, <3>2 DEF StepDone
  <2>. QED BY <1>5, <2>1, <2>2 DEF LooksAtTenant, t
<1>6. CASE UploadFails(r)
  <2>. DEFINE more == IF M[t].tries < MaxChecks THEN M[t].tries + 1 ELSE M[t].tries
              rec(failed) == Tried(M[t], IF failed THEN "failed" ELSE "pending", more)
  <2>1. ASSUME NEW failed \in BOOLEAN
        PROVE  rec(failed) \in MemberRecords /\ rec(failed).batch = M[t].batch /\ rec(failed).requeues = M[t].requeues
    <3>1. M[t].tries \in 0 .. MaxChecks
      BY <1>2 DEF MemberRecords
    <3>2. more \in 0 .. MaxChecks
      BY <3>1, MoreTries
    <3>. DEFINE state == IF failed THEN "failed" ELSE "pending"
    <3>3. state \in Open \cup {"none", "healthy", "failed", "skipped"}
      BY DEF Open
    <3>. HIDE DEF more, state
    <3>4. /\ Tried(M[t], state, more) \in MemberRecords /\ Tried(M[t], state, more).batch = M[t].batch
          /\ Tried(M[t], state, more).requeues = M[t].requeues
      BY <1>2, <3>2, <3>3, TriedAgain
    <3>. QED BY <3>4 DEF state
  <2>2. \E failed \in BOOLEAN : SetsMember(r, t, rec(failed))
    <3>1. PICK retryable \in BOOLEAN :
            LET failed == ~retryable \/ Member(r).tries + 1 >= MaxChecks IN
            SetsMember(r, roller[r].tenant, [Member(r) EXCEPT !.state = IF failed THEN "failed" ELSE "pending",
                                                              !.tries = IF @ < MaxChecks THEN @ + 1 ELSE @])
      BY <1>6 DEF UploadFails
    <3>2. (~retryable \/ M[t].tries + 1 >= MaxChecks) \in BOOLEAN
      OBVIOUS
    <3>. QED BY <1>2, <3>1, <3>2 DEF t, Tried
  <2>3. Moves(r, "turn") \/ Moves(r, "end")
    BY <1>6 DEF UploadFails, StepDone
  <2>. HIDE DEF rec
  <2>. QED BY <1>4, <2>1, <2>2, <2>3
<1>7. CASE MarksUploaded(r)
  <2>. DEFINE rec == Tried(M[t], "uploaded", 0)
  <2>1. rec \in MemberRecords /\ rec.batch = M[t].batch /\ rec.requeues = M[t].requeues
    <3>1. 0 \in 0 .. MaxChecks /\ "uploaded" \in Open
      BY ReleaseConstants DEF Open
    <3>. QED BY <1>2, <3>1, TriedAgain
  <2>2. SetsMember(r, t, rec) /\ Moves(r, "health") /\ roller[r].pc = "mark"
    BY <1>2, <1>7 DEF MarksUploaded, RollerAt, t, Tried
  <2>. HIDE DEF rec
  <2>. QED BY <1>4, <2>1, <2>2
<1>8. CASE WritesHealth(r)
  <2>. DEFINE well == [M[t] EXCEPT !.state = "healthy"]
              more == IF M[t].tries < MaxChecks THEN M[t].tries + 1 ELSE M[t].tries
              ill(failed) == Tried(M[t], IF failed THEN "failed" ELSE "uploaded", more)
  <2>1. well \in MemberRecords /\ well.batch = M[t].batch /\ well.requeues = M[t].requeues
    BY <1>2 DEF MemberRecords
  <2>2. ASSUME NEW failed \in BOOLEAN
        PROVE  ill(failed) \in MemberRecords /\ ill(failed).batch = M[t].batch /\ ill(failed).requeues = M[t].requeues
    <3>1. M[t].tries \in 0 .. MaxChecks
      BY <1>2 DEF MemberRecords
    <3>2. more \in 0 .. MaxChecks
      BY <3>1, MoreTries
    <3>. DEFINE state == IF failed THEN "failed" ELSE "uploaded"
    <3>3. state \in Open \cup {"none", "healthy", "failed", "skipped"}
      BY DEF Open
    <3>. HIDE DEF more, state
    <3>4. /\ Tried(M[t], state, more) \in MemberRecords /\ Tried(M[t], state, more).batch = M[t].batch
          /\ Tried(M[t], state, more).requeues = M[t].requeues
      BY <1>2, <3>2, <3>3, TriedAgain
    <3>. QED BY <3>4 DEF state
  <2>3. SetsMember(r, t, well) \/ \E failed \in BOOLEAN : SetsMember(r, t, ill(failed))
    <3>1. \/ SetsMember(r, roller[r].tenant, [Member(r) EXCEPT !.state = "healthy"])
          \/ SetsMember(r, roller[r].tenant,
               [Member(r) EXCEPT !.state = IF Member(r).tries + 1 >= MaxChecks THEN "failed" ELSE "uploaded",
                                 !.tries = IF @ < MaxChecks THEN @ + 1 ELSE @])
      BY <1>8 DEF WritesHealth
    <3>2. (M[t].tries + 1 >= MaxChecks) \in BOOLEAN
      OBVIOUS
    <3>. QED BY <1>2, <3>1, <3>2 DEF t, Tried
  <2>4. Moves(r, "turn") \/ Moves(r, "end")
    BY <1>8 DEF WritesHealth, StepDone
  <2>. HIDE DEF well, ill
  <2>. QED BY <1>4, <2>1, <2>2, <2>3, <2>4
<1>. QED BY <1>5, <1>6, <1>7, <1>8

LEMMA BusyInOrder ==
    ASSUME CanaryInv, OrderInv, NEW r \in Rollers, CanaryIsBusy(r)
    PROVE  OrderInv'
<1>. DEFINE R == releases[Rel(r)]
            M == member[Rel(r)]
            c == R.canary
            rec == [M[c] EXCEPT !.tries = M[c].tries + 1]
<1>1. /\ roller[r].pc = "busy" /\ roller[r].pc \notin OffWork /\ UNCHANGED <<desk, releases>>
      /\ \/ Moves(r, "stop") /\ UNCHANGED member
         \/ Moves(r, "end") /\ SetsMember(r, c, rec) /\ ~(M[c].tries + 1 >= MaxChecks)
  BY DEF CanaryIsBusy, RollerAt, OffWork
<1>2. Follows("busy", "stop") /\ Follows("busy", "end")
  BY DEF Follows, TenantSteps, CallSteps
<1>3. CASE UNCHANGED member
  BY <1>1, <1>2, <1>3, RunMoves, ReleaseConstants
<1>4. CASE member' # member
  <2>1. Has(r) /\ Moves(r, "end") /\ SetsMember(r, c, rec) /\ ~(M[c].tries + 1 >= MaxChecks)
    BY <1>1, <1>4 DEF SetsMember
  <2>2. ~Shown(R) /\ R \in Records /\ M \in [Fleet -> MemberRecords] /\ MembersOK(R, M)
    BY <1>1, <2>1, WorkAtHand DEF Has, WorkOK, CallSteps
  <2>3. c \in Fleet /\ M[c].batch = R.batch
    BY <2>2 DEF Shown, Records, MembersOK
  <2>4. rec \in MemberRecords /\ rec.batch = M[c].batch /\ rec.requeues = M[c].requeues
    BY <2>1, <2>2, <2>3, ReleaseConstants DEF MemberRecords
  <2>. HIDE DEF rec
  <2>5. "end" \in RollerSteps /\ "end" \in OffWork /\ roller[r].pc # "idle" /\ roller[r].pc # "end"
    BY <1>1, ReleaseConstants DEF OffWork
  <2>. QED BY <1>1, <2>1, <2>3, <2>4, <2>5, TenantWritten
<1>. QED BY <1>3, <1>4

-----------------------------------------------------------------------------
(* Batches: a turn renews the lease and reads the release anew.             *)

(* Where the turn of a run that holds its release leads, it is in order.     *)
LEMMA TurnLeads ==
    ASSUME CanaryInv, OrderInv, NEW r \in Rollers, roller[r].pc = "turn", Has(r), CanaryTurn(r) \/ RollingTurn(r)
    PROVE  \E me \in RollerRecords : /\ roller' = [roller EXCEPT ![r] = me] /\ me.rel = Rel(r)
                                     /\ me.pc \in TenantSteps => me.tenant \in Fleet
                                     /\ WorkOK(me, releases[Rel(r)], member[Rel(r)])
<1>. DEFINE R == releases[Rel(r)]
            M == member[Rel(r)]
<1>1. /\ R \in Records /\ M \in [Fleet -> MemberRecords] /\ MembersOK(R, M) /\ RowOK(R, proven)
      /\ roller[r] \in RollerRecords /\ roller \in [Rollers -> RollerRecords]
  BY WorkAtHand, ReleaseAtHand DEF CanaryInv, StateOK
<1>2. ASSUME NEW t \in Fleet, WorksOn(r, t), M[t].batch = R.batch, ~Shown(R) => t = R.canary
      PROVE  \E me \in RollerRecords : /\ roller' = [roller EXCEPT ![r] = me] /\ me.rel = Rel(r)
                                       /\ me.pc \in TenantSteps => me.tenant \in Fleet
                                       /\ WorkOK(me, R, M)
  <2>1. PICK me : me = [[roller[r] EXCEPT !.pc = "look"] EXCEPT !.tenant = t]
    OBVIOUS
  <2>2. me \in RollerRecords /\ me.pc = "look" /\ me.rel = Rel(r) /\ me.tenant = t
    BY <1>1, <2>1 DEF RollerRecords, RollerSteps, Rel
  <2>3. roller' = [roller EXCEPT ![r] = me]
    BY <1>1, <1>2, <2>1 DEF WorksOn
  <2>4. WorkOK(me, R, M)
    BY <1>2, <2>2 DEF WorkOK, CallSteps
  <2>. QED BY <1>2, <2>2, <2>3, <2>4
<1>3. ASSUME NEW pc \in RollerSteps \ TenantSteps, Moves(r, pc), WorkOK([roller[r] EXCEPT !.pc = pc], R, M)
      PROVE  \E me \in RollerRecords : /\ roller' = [roller EXCEPT ![r] = me] /\ me.rel = Rel(r)
                                       /\ me.pc \in TenantSteps => me.tenant \in Fleet
                                       /\ WorkOK(me, R, M)
  <2>1. PICK me : me = [roller[r] EXCEPT !.pc = pc]
    OBVIOUS
  <2>2. me \in RollerRecords /\ me.pc = pc /\ me.rel = Rel(r)
    BY <1>1, <2>1 DEF RollerRecords, Rel
  <2>3. roller' = [roller EXCEPT ![r] = me]
    BY <1>3, <2>1 DEF Moves
  <2>. QED BY <1>3, <2>1, <2>2, <2>3
<1>4. \A pc \in RollerSteps : [roller[r] EXCEPT !.pc = pc].pc = pc
  BY <1>1 DEF RollerRecords
<1>5. {"call", "stop", "choose"} \subseteq RollerSteps \ TenantSteps
  BY DEF RollerSteps, TenantSteps
<1>6. CASE CanaryTurn(r)
  <2>1. ~Shown(R) /\ R.batch = 0 /\ M[R.canary].batch = 0 /\ R.canary \in Fleet
    BY <1>1, <1>6 DEF CanaryTurn, MembersOK, Shown, Records
  <2>2. \/ WorksOn(r, R.canary)
        \/ M[R.canary].state = "healthy" /\ Moves(r, "call")
        \/ Moves(r, "stop")
    BY <1>6 DEF CanaryTurn
  <2>3. CASE WorksOn(r, R.canary)
    BY <1>2, <2>1, <2>3
  <2>4. CASE M[R.canary].state = "healthy" /\ Moves(r, "call")
    BY <1>3, <1>4, <1>5, <2>1, <2>4 DEF WorkOK, TenantSteps
  <2>5. CASE Moves(r, "stop")
    BY <1>3, <1>4, <1>5, <2>5 DEF WorkOK, TenantSteps, CallSteps
  <2>. QED BY <2>2, <2>3, <2>4, <2>5
<1>7. CASE RollingTurn(r)
  <2>1. Shown(R) /\ R.batch >= 1 /\ R.batch \in Nat
    BY <1>1, <1>7 DEF RollingTurn, RowOK, MembersOK, Records
  <2>. DEFINE rows == Members(Rel(r), R.batch)
              open == {t \in rows : M[t].state \in Open}
  <2>2. \A t \in Fleet : t \in rows <=> M[t].state # "none" /\ M[t].batch = R.batch
    BY DEF Members
  <2>3. \/ Moves(r, "stop")
        \/ \E t \in open : WorksOn(r, t)
        \/ ~StopsAt(rows, Rel(r)) /\ open = {} /\ Moves(r, "choose")
    BY <1>7, <2>1 DEF RollingTurn
  <2>4. CASE Moves(r, "stop")
    BY <1>3, <1>4, <1>5, <2>4 DEF WorkOK, TenantSteps, CallSteps
  <2>5. CASE \E t \in open : WorksOn(r, t)
    <3>1. PICK t \in open : WorksOn(r, t)
      BY <2>5
    <3>2. t \in Fleet /\ M[t].batch = R.batch
      BY <3>1 DEF Members
    <3>. QED BY <1>2, <2>1, <3>1, <3>2
  <2>6. CASE ~StopsAt(rows, Rel(r)) /\ open = {} /\ Moves(r, "choose")
    <3>1. \A t \in Fleet : M[t].state \in Open => M[t].batch # R.batch
      BY <2>2, <2>6 DEF Open
    <3>2. R.kind = "rollout" => \A t \in Fleet : M[t].state = "failed" => M[t].batch # R.batch
      BY <2>2, <2>6 DEF StopsAt
    <3>3. BatchIsOver(R, M) /\ BatchIsWell(R, M)
      BY <3>1, <3>2 DEF BatchIsOver, BatchIsWell
    <3>. HIDE DEF rows, open
    <3>. QED BY <1>3, <1>4, <1>5, <2>1, <2>6, <3>3 DEF WorkOK, TenantSteps, CallSteps
  <2>. HIDE DEF rows, open
  <2>. QED BY <2>3, <2>4, <2>5, <2>6
<1>. QED BY <1>6, <1>7

LEMMA TurnInOrder ==
    ASSUME CanaryInv, OrderInv, NEW r \in Rollers, Turn(r)
    PROVE  OrderInv'
<1>. DEFINE R == releases[Rel(r)]
            M == member[Rel(r)]
            Q == IF R.lease = r THEN [R EXCEPT !.over = FALSE] ELSE R
<1>1. /\ roller[r].pc = "turn" /\ roller[r].pc \notin OffWork /\ UNCHANGED <<desk, member>>
  BY DEF Turn, RollerAt, OffWork
<1>2. /\ Rel(r) \in DOMAIN releases /\ Rel(r) \in ReleaseIds /\ R \in Records /\ M \in [Fleet -> MemberRecords]
      /\ MembersOK(R, M) /\ releases \in Seq(Records) /\ roller[r] \in RollerRecords
      /\ R.lease = r => R.state \in Running
  BY <1>1, WorkAtHand DEF CanaryInv, StateOK, OffWork
<1>3. releases' = [releases EXCEPT ![Rel(r)] = Q] /\ member' = [member EXCEPT ![Rel(r)] = M]
  <2>1. member \in [ReleaseIds -> [Fleet -> MemberRecords]]
    BY DEF OrderInv
  <2>2. CASE R.lease = r
    <3>1. releases' = [releases EXCEPT ![Rel(r)].over = FALSE]
      BY <2>2 DEF Turn, Renews
    <3>. QED BY <1>1, <1>2, <2>1, <2>2, <3>1
  <2>3. CASE R.lease # r
    <3>1. releases' = releases
      BY <2>3 DEF Turn, Renews
    <3>. QED BY <1>1, <1>2, <2>1, <2>3, <3>1
  <2>. QED BY <2>2, <2>3
<1>4. /\ Q.state = R.state /\ Q.lease = R.lease /\ Q.kind = R.kind /\ Q.ran = R.ran /\ Q.canary = R.canary
      /\ Q.batch = R.batch /\ (R.lease # r => Q = R)
  BY <1>2 DEF Records
<1>. HIDE DEF Q
<1>5. MembersOK(Q, M)
  BY <1>2, <1>4 DEF MembersOK, Shown
<1>6. CASE Has(r) /\ (CanaryTurn(r) \/ RollingTurn(r))
  <2>1. PICK me \in RollerRecords : /\ roller' = [roller EXCEPT ![r] = me] /\ me.rel = Rel(r)
                                    /\ me.pc \in TenantSteps => me.tenant \in Fleet
                                    /\ WorkOK(me, R, M)
    BY <1>1, <1>6, TurnLeads
  <2>. HIDE DEF R, M
  <2>3. R = releases[Rel(r)] /\ M = member[Rel(r)]
    BY DEF R, M
  <2>2. WorkOK(me, Q, M)
    BY <1>4, <2>1 DEF WorkOK, Shown, BatchIsOver, BatchIsWell
  <2>. QED BY <1>1, <1>2, <1>3, <1>4, <1>5, <2>3, <2>1, <2>2, RunWrites DEF OffWork
<1>7. CASE ~Has(r) /\ Moves(r, "end")
  <2>. HIDE DEF R, M
  <2>3. R = releases[Rel(r)] /\ M = member[Rel(r)]
    BY DEF R, M
  <2>1. PICK me \in RollerRecords : roller' = [roller EXCEPT ![r] = me] /\ me.pc = "end"
    BY <1>7, MovesTo, ReleaseConstants
  <2>2. me.pc \in OffWork /\ me.pc \notin TenantSteps
    BY <2>1 DEF OffWork, TenantSteps
  <2>. QED BY <1>1, <1>2, <1>3, <1>4, <1>5, <2>3, <2>1, <2>2, RunWrites DEF OffWork
<1>. QED BY <1>6, <1>7 DEF Turn

-----------------------------------------------------------------------------
(* Batches: one is chosen, or tenants are put back.                         *)

LEMMA NextBatchIs ==
    ASSUME NEW i, releases[i].batch \in Nat, releases[i].batch >= 1
    PROVE  NextBatch(i) \in {releases[i].batch, releases[i].batch + 1}
<1>. DEFINE b == releases[i].batch
            S == {1, b}
<1>1. Max(S) \in S /\ \A y \in S : Max(S) >= y
  <2>1. b \in S /\ \A y \in S : b >= y
    OBVIOUS
  <2>. HIDE DEF S
  <2>. QED BY <2>1 DEF Max
<1>2. Max(S) = b
  BY <1>1
<1>. HIDE DEF S
<1>3. NextBatch(i) = IF Members(i, b) = {} \/ b = 0 THEN Max(S) ELSE b + 1
  BY DEF NextBatch, S
<1>. QED BY <1>2, <1>3

(* A batch is put together of tenants that no batch to come comes before.    *)
LEMMA BatchWritten ==
    ASSUME CanaryInv, OrderInv, NEW r \in Rollers, roller[r].pc \in {"choose", "back"}, NotesIt(r),
           UNCHANGED <<desk, releases>>,
           NEW N \in [Fleet -> MemberRecords], member' = [member EXCEPT ![Rel(r)] = N],
           releases[Rel(r)].lease # r => N = member[Rel(r)],
           \A t \in Fleet : \/ N[t] = member[Rel(r)][t]
                            \/ N[t].state = "pending" /\ N[t].batch = NextBatch(Rel(r))
                            \/ N[t].state = "failed" /\ N[t].requeues = MaxRequeues
    PROVE  OrderInv'
<1>. DEFINE R == releases[Rel(r)]
            M == member[Rel(r)]
            nb == NextBatch(Rel(r))
<1>1. /\ Rel(r) \in DOMAIN releases /\ R \in Records /\ M \in [Fleet -> MemberRecords] /\ MembersOK(R, M)
      /\ R.lease = r => R.state \in Running /\ WorkOK(roller[r], R, M)
  BY WorkAtHand
<1>2. releases' = [releases EXCEPT ![Rel(r)] = R] /\ roller[r].pc # "idle"
  <2>1. releases \in Seq(Records)
    BY DEF CanaryInv, StateOK
  <2>. QED BY <1>1, <2>1
<1>3. R.batch \in Nat /\ MaxRequeues \in Nat /\ \A t \in Fleet : M[t].batch \in Nat /\ N[t].batch \in Nat
  BY <1>1, ReleaseConstants DEF Records, MemberRecords
<1>4. ASSUME R.lease = r
      PROVE  /\ Shown(R) /\ BatchIsWell(R, M) /\ R.batch >= 1 /\ nb \in {R.batch, R.batch + 1}
  <2>1. Shown(R) /\ BatchIsWell(R, M) /\ R.batch >= 1
    BY <1>1, <1>4 DEF WorkOK, MembersOK
  <2>. QED BY <1>3, <2>1, NextBatchIs
<1>5. MembersOK(R, N)
  <2>1. CASE R.lease # r
    BY <1>1, <2>1
  <2>2. CASE R.lease = r
    <3>1. Shown(R) /\ R.batch >= 1 /\ nb >= R.batch
      BY <1>3, <1>4, <2>2
    <3>2. \A t \in Fleet : N[t].state \in {"uploaded", "healthy"} => N[t].batch <= R.batch
      BY <1>1 DEF MembersOK
    <3>3. ASSUME R.kind = "rollout", NEW t \in Fleet, N[t].state \in Open \cup {"failed"}, N[t].batch < R.batch
          PROVE  N[t].requeues = MaxRequeues
      <4>1. ~(N[t].state = "pending" /\ N[t].batch = nb)
        BY <1>3, <1>4, <2>2, <3>1, <3>3
      <4>. QED BY <1>1, <3>3, <4>1 DEF MembersOK
    <3>. QED BY <1>1, <3>1, <3>2, <3>3 DEF MembersOK
  <2>. QED BY <2>1, <2>2
<1>6. ASSUME R.lease = r, nb # R.batch
      PROVE  BatchIsWell(R, N)
  <2>1. \A t \in Fleet : N[t].state = "pending" /\ N[t].batch = nb => N[t].batch # R.batch
    BY <1>6
  <2>. QED BY <1>4, <1>6, <2>1 DEF BatchIsWell
<1>7. \/ \E pc \in {"turn", "end"} : Moves(r, pc)
      \/ nb # R.batch /\ Moves(r, "note")
  BY DEF NotesIt, StepDone
<1>8. CASE \E pc \in {"turn", "end"} : Moves(r, pc)
  <2>1. PICK me \in RollerRecords : roller' = [roller EXCEPT ![r] = me] /\ me.pc \in {"turn", "end"} /\ me.rel = Rel(r)
    BY <1>8, MovesTo, ReleaseConstants
  <2>2. me.pc \notin TenantSteps /\ WorkOK(me, R, N)
    BY <2>1 DEF TenantSteps, CallSteps, WorkOK
  <2>. QED BY <1>1, <1>2, <1>5, <2>1, <2>2, RunWrites
<1>9. CASE nb # R.batch /\ Moves(r, "note")
  <2>1. PICK me \in RollerRecords : roller' = [roller EXCEPT ![r] = me] /\ me.pc = "note" /\ me.rel = Rel(r)
    BY <1>9, MovesTo, ReleaseConstants
  <2>2. me.pc \notin TenantSteps /\ (R.lease = r => WorkOK(me, R, N))
    BY <1>4, <1>6, <1>9, <2>1 DEF TenantSteps, CallSteps, WorkOK
  <2>. QED BY <1>1, <1>2, <1>5, <2>1, <2>2, RunWrites
<1>. QED BY <1>7, <1>8, <1>9

(* A run that chooses finds its release running, or has lost it.             *)
LEMMA ChooseInOrder ==
    ASSUME CanaryInv, OrderInv, NEW r \in Rollers, ChoosesBatch(r)
    PROVE  OrderInv'
<1>. DEFINE i == Rel(r)
            R == releases[Rel(r)]
            M == member[Rel(r)]
            left == IF R.lease = r THEN {t \in Needing(Ver(r)) : M[t].state = "none"} ELSE {}
            nb == NextBatch(Rel(r))
            new == [Absent EXCEPT !.state = "pending", !.batch = nb]
<1>1. roller[r].pc = "choose" /\ roller[r].pc \notin OffWork /\ UNCHANGED <<desk, releases>>
  BY DEF ChoosesBatch, RollerAt, OffWork
<1>2. CASE left = {}
  <2>1. Moves(r, "back") /\ UNCHANGED member
    BY <1>2 DEF ChoosesBatch
  <2>2. Follows("choose", "back")
    BY DEF Follows, TenantSteps, CallSteps
  <2>. QED BY <1>1, <2>1, <2>2, RunMoves, ReleaseConstants
<1>3. CASE left # {}
  <2>1. PICK chosen \in kSubset(Min({BatchSize, Cardinality(left)}), left) :
            member' = [member EXCEPT ![i] = [t \in Fleet |-> IF t \in chosen THEN new ELSE member[i][t]]]
    BY <1>3 DEF ChoosesBatch
  <2>2. NotesIt(r) /\ R.lease = r
    BY <1>3 DEF ChoosesBatch
  <2>. DEFINE N == [t \in Fleet |-> IF t \in chosen THEN new ELSE M[t]]
  <2>3. M \in [Fleet -> MemberRecords] /\ R \in Records /\ R.batch \in Nat /\ R.batch >= 1
    <3>1. R \in Records /\ M \in [Fleet -> MemberRecords] /\ MembersOK(R, M) /\ Shown(R)
      BY <1>1, <2>2, WorkAtHand DEF WorkOK
    <3>. QED BY <3>1 DEF MembersOK, Records
  <2>4. nb \in Nat
    BY <2>3, NextBatchIs
  <2>. HIDE DEF nb
  <2>5. new \in MemberRecords /\ new.state = "pending" /\ new.batch = nb
    <3>1. PICK o : o = [Absent EXCEPT !.state = "pending"]
      OBVIOUS
    <3>2. o = [state |-> "pending", batch |-> 0, tries |-> 0, requeues |-> 0]
      BY <3>1 DEF Absent
    <3>3. o \in MemberRecords /\ o.state = "pending"
      BY <3>2, ReleaseConstants DEF MemberRecords, Open
    <3>4. new = [o EXCEPT !.batch = nb]
      BY <3>1
    <3>. HIDE DEF new
    <3>. QED BY <2>4, <3>3, <3>4 DEF MemberRecords
  <2>. HIDE DEF new
  <2>6. N \in [Fleet -> MemberRecords] /\ \A t \in Fleet : N[t] = M[t] \/ N[t] = new
    BY <2>3, <2>5
  <2>7. member' = [member EXCEPT ![Rel(r)] = N]
    BY <2>1
  <2>. HIDE DEF N
  <2>8. \A t \in Fleet : \/ N[t] = M[t]
                         \/ N[t].state = "pending" /\ N[t].batch = nb
                         \/ N[t].state = "failed" /\ N[t].requeues = MaxRequeues
    BY <2>5, <2>6
  <2>9. \A t \in Fleet : \/ N[t] = member[Rel(r)][t]
                         \/ N[t].state = "pending" /\ N[t].batch = NextBatch(Rel(r))
                         \/ N[t].state = "failed" /\ N[t].requeues = MaxRequeues
    BY <2>8 DEF nb
  <2>. QED BY <1>1, <2>2, <2>6, <2>7, <2>9, BatchWritten
<1>. QED BY <1>2, <1>3

LEMMA PutBack ==
    ASSUME NEW i, NextBatch(i) \in Nat, NEW m \in MemberRecords
    PROVE  /\ Requeued(i, m) \in MemberRecords
           /\ \/ Requeued(i, m).state = "pending" /\ Requeued(i, m).batch = NextBatch(i)
              \/ Requeued(i, m).state = "failed" /\ Requeued(i, m).requeues = MaxRequeues
<1>. DEFINE nb == NextBatch(i)
<1>1. m.requeues \in 0 .. MaxRequeues /\ m.tries \in 0 .. MaxChecks /\ MaxRequeues \in Nat /\ MaxChecks \in Nat
  BY ReleaseConstants DEF MemberRecords
<1>2. CASE m.requeues >= MaxRequeues
  <2>1. Requeued(i, m) = [m EXCEPT !.state = "failed"] /\ m.requeues = MaxRequeues
    BY <1>1, <1>2 DEF Requeued
  <2>. QED BY <2>1 DEF MemberRecords
<1>3. CASE m.requeues < MaxRequeues
  <2>. DEFINE o == Tried(m, "pending", 0)
              p == [o EXCEPT !.batch = nb]
              q == [p EXCEPT !.requeues = m.requeues + 1]
  <2>1. o \in MemberRecords /\ o.state = "pending"
    <3>1. "pending" \in Open /\ 0 \in 0 .. MaxChecks
      BY ReleaseConstants DEF Open
    <3>. QED BY <3>1, TriedAgain
  <2>2. Requeued(i, m) = [m EXCEPT !.state = "pending", !.tries = 0, !.batch = nb, !.requeues = m.requeues + 1]
    BY <1>1, <1>3 DEF Requeued
  <2>3. Requeued(i, m) = q
    BY <2>2, Zenon DEF Tried
  <2>. HIDE DEF o, nb
  <2>4. p \in MemberRecords /\ p.state = "pending" /\ p.batch = nb
    BY <2>1 DEF MemberRecords, nb
  <2>. HIDE DEF p
  <2>5. m.requeues + 1 \in 0 .. MaxRequeues
    BY <1>1, <1>3
  <2>6. q \in MemberRecords /\ q.state = "pending" /\ q.batch = nb
    BY <2>4, <2>5 DEF MemberRecords
  <2>. QED BY <2>3, <2>6 DEF nb
<1>. QED BY <1>1, <1>2, <1>3

LEMMA LookBackInOrder ==
    ASSUME CanaryInv, OrderInv, NEW r \in Rollers, LooksBack(r)
    PROVE  OrderInv'
<1>. DEFINE i == Rel(r)
            R == releases[Rel(r)]
            M == member[Rel(r)]
            nb == NextBatch(Rel(r))
<1>1. roller[r].pc = "back" /\ roller[r].pc \notin OffWork /\ UNCHANGED <<desk, releases>>
  BY DEF LooksBack, RollerAt, OffWork
<1>2. CASE Stragglers(i) = {}
  <2>1. Moves(r, "repair") /\ UNCHANGED member
    BY <1>2 DEF LooksBack
  <2>2. Follows("back", "repair")
    BY DEF Follows, TenantSteps, CallSteps
  <2>. QED BY <1>1, <2>1, <2>2, RunMoves, ReleaseConstants
<1>3. CASE Stragglers(i) # {}
  <2>. DEFINE N == IF Has(r) THEN [t \in Fleet |-> IF t \in Stragglers(i) THEN Requeued(i, M[t]) ELSE M[t]] ELSE M
  <2>1. /\ i \in DOMAIN releases /\ i \in ReleaseIds /\ M \in [Fleet -> MemberRecords] /\ R.batch \in Nat
        /\ Has(r) => R.batch >= 1
    <3>1. /\ i \in DOMAIN releases /\ i \in ReleaseIds /\ R \in Records /\ M \in [Fleet -> MemberRecords]
          /\ MembersOK(R, M) /\ (Has(r) => Shown(R))
      BY <1>1, WorkAtHand DEF WorkOK, Has
    <3>. QED BY <3>1 DEF MembersOK, Records
  <2>2. NotesIt(r)
    BY <1>3 DEF LooksBack
  <2>3. member' = [member EXCEPT ![Rel(r)] = N]
    <3>1. CASE Has(r)
      BY <1>3, <3>1 DEF LooksBack
    <3>2. CASE ~Has(r)
      <4>1. member' = member /\ member \in [ReleaseIds -> [Fleet -> MemberRecords]] /\ N = M
        BY <1>3, <3>2 DEF LooksBack, OrderInv
      <4>. QED BY <2>1, <4>1
    <3>. QED BY <3>1, <3>2
  <2>4. /\ N \in [Fleet -> MemberRecords]
        /\ \A t \in Fleet : \/ N[t] = M[t]
                            \/ N[t].state = "pending" /\ N[t].batch = nb
                            \/ N[t].state = "failed" /\ N[t].requeues = MaxRequeues
    <3>1. CASE Has(r)
      <4>1. nb \in Nat
        BY <2>1, <3>1, NextBatchIs
      <4>2. ASSUME NEW t \in Fleet
            PROVE  /\ Requeued(i, M[t]) \in MemberRecords
                   /\ \/ Requeued(i, M[t]).state = "pending" /\ Requeued(i, M[t]).batch = nb
                      \/ Requeued(i, M[t]).state = "failed" /\ Requeued(i, M[t]).requeues = MaxRequeues
        BY <2>1, <4>1, PutBack
      <4>. HIDE DEF nb
      <4>3. \A t \in Fleet : N[t] = M[t] \/ N[t] = Requeued(i, M[t])
        BY <3>1
      <4>4. N \in [Fleet -> MemberRecords]
        BY <2>1, <3>1, <4>2
      <4>. HIDE DEF N
      <4>. QED BY <4>2, <4>3, <4>4
    <3>2. CASE ~Has(r)
      BY <2>1, <3>2
    <3>. QED BY <3>1, <3>2
  <2>5. R.lease # r => N = M
    BY DEF Has
  <2>. HIDE DEF N
  <2>. QED BY <1>1, <2>2, <2>3, <2>4, <2>5, BatchWritten
<1>. QED BY <1>2, <1>3

-----------------------------------------------------------------------------
(* Batches: a run writes its release.                                       *)

LEMMA ReleaseWritten ==
    ASSUME CanaryInv, OrderInv, NEW r \in Rollers, roller[r].pc \notin OffWork, NEW pc \in {"turn", "end"}, Moves(r, pc),
           NEW Q, SetsRelease(r, Q), UNCHANGED <<desk, member>>,
           Has(r) => /\ MembersOK(Q, member[Rel(r)]) /\ Q.lease = r
                     /\ Q.state \in Running \/ pc = "end"
    PROVE  OrderInv'
<1>. DEFINE R == releases[Rel(r)]
            M == member[Rel(r)]
            P == IF Has(r) THEN Q ELSE R
<1>1. /\ roller[r].pc # "idle" /\ Rel(r) \in DOMAIN releases /\ Rel(r) \in ReleaseIds /\ M \in [Fleet -> MemberRecords] /\ MembersOK(R, M)
      /\ releases \in Seq(Records) /\ member \in [ReleaseIds -> [Fleet -> MemberRecords]]
  BY WorkAtHand DEF CanaryInv, StateOK, OrderInv, OffWork
<1>2. releases' = [releases EXCEPT ![Rel(r)] = P] /\ member' = [member EXCEPT ![Rel(r)] = M]
  <2>1. member' = [member EXCEPT ![Rel(r)] = M]
    BY <1>1
  <2>2. CASE Has(r)
    BY <2>1, <2>2 DEF SetsRelease
  <2>3. CASE ~Has(r)
    <3>1. releases' = releases /\ P = R
      BY <2>3 DEF SetsRelease
    <3>2. releases = [releases EXCEPT ![Rel(r)] = R]
      BY <1>1
    <3>. QED BY <2>1, <3>1, <3>2
  <2>. QED BY <2>2, <2>3
<1>3. PICK me \in RollerRecords : roller' = [roller EXCEPT ![r] = me] /\ me.pc = pc /\ me.rel = Rel(r)
  BY MovesTo, ReleaseConstants
<1>4. me.pc \notin TenantSteps /\ (me.pc \notin OffWork => pc = "turn")
  BY <1>3 DEF TenantSteps, OffWork
<1>5. Has(r) => R.state \in Running /\ R.lease = r
  BY DEF Has, Running
<1>6. MembersOK(P, M) /\ (P.state \in Running => R.state \in Running) /\ P.lease \in {R.lease, NoRoller}
  BY <1>1, <1>5
<1>7. R.lease # r => P = R /\ M = M
  BY DEF Has
<1>8. ASSUME me.pc \notin OffWork, R.lease = r
      PROVE  P.state \in Running /\ WorkOK(me, P, M)
  <2>1. Has(r) /\ pc = "turn"
    BY <1>4, <1>8, WorkAtHand DEF OffWork
  <2>2. WorkOK(me, P, M)
    BY <1>3, <2>1 DEF WorkOK, TenantSteps, CallSteps
  <2>. QED BY <2>1, <2>2
<1>. HIDE DEF P
<1>. QED BY <1>1, <1>2, <1>3, <1>4, <1>6, <1>7, <1>8, RunWrites DEF OffWork

LEMMA ReleaseStepsInOrder ==
    ASSUME CanaryInv, OrderInv, NEW r \in Rollers, NotesBatch(r) \/ CanaryRan(r) \/ FinishesRelease(r)
    PROVE  OrderInv'
<1>. DEFINE R == releases[Rel(r)]
            M == member[Rel(r)]
<1>1. roller[r].pc \notin OffWork /\ UNCHANGED <<desk, member>>
  BY DEF NotesBatch, CanaryRan, FinishesRelease, RollerAt, OffWork
<1>2. /\ R \in Records /\ M \in [Fleet -> MemberRecords] /\ MembersOK(R, M)
      /\ Has(r) => WorkOK(roller[r], R, M) /\ R.lease = r /\ R.state \in Running
  BY <1>1, WorkAtHand DEF Has, OffWork
<1>3. R.batch \in Nat /\ \A t \in Fleet : M[t].batch \in Nat
  BY <1>2 DEF Records, MemberRecords
<1>4. CASE NotesBatch(r)
  <2>1. PICK Q : Q = [R EXCEPT !.batch = R.batch + 1]
    OBVIOUS
  <2>2. SetsRelease(r, Q) /\ (Moves(r, "turn") \/ Moves(r, "end")) /\ roller[r].pc = "note"
    BY <1>4, <2>1 DEF NotesBatch, StepDone, RollerAt
  <2>3. /\ Q.state = R.state /\ Q.lease = R.lease /\ Q.kind = R.kind /\ Q.ran = R.ran /\ Q.canary = R.canary
        /\ Q.batch = R.batch + 1
    BY <1>2, <2>1 DEF Records
  <2>4. ASSUME Has(r)
        PROVE  MembersOK(Q, M)
    <3>1. Shown(R) /\ BatchIsWell(R, M) /\ Shown(Q)
      BY <1>2, <2>2, <2>3, <2>4 DEF WorkOK, Shown
    <3>2. \A t \in Fleet : M[t].state \in {"uploaded", "healthy"} => M[t].batch <= Q.batch
      BY <1>2, <1>3, <2>3 DEF MembersOK
    <3>3. ASSUME Q.kind = "rollout", NEW t \in Fleet, M[t].state \in Open \cup {"failed"}, M[t].batch < Q.batch
          PROVE  M[t].requeues = MaxRequeues
      <4>1. M[t].batch < R.batch \/ M[t].batch = R.batch
        BY <1>3, <2>3, <3>3
      <4>. QED BY <1>2, <2>3, <3>1, <3>3, <4>1 DEF MembersOK, BatchIsWell
    <3>4. Q.state = "canary" => ~Shown(Q)
      BY <1>2, <2>3, <3>1 DEF MembersOK
    <3>. QED BY <1>3, <2>3, <3>1, <3>2, <3>3, <3>4 DEF MembersOK
  <2>. QED BY <1>1, <1>2, <2>2, <2>3, <2>4, ReleaseWritten
<1>5. CASE CanaryRan(r)
  <2>1. PICK Q : Q = [R EXCEPT !.state = "rolling", !.ran = TRUE, !.batch = 1]
    OBVIOUS
  <2>2. SetsRelease(r, Q) /\ (Moves(r, "turn") \/ Moves(r, "end")) /\ roller[r].pc = "ran"
    BY <1>5, <2>1 DEF CanaryRan, StepDone, RollerAt
  <2>3. Q.state = "rolling" /\ Q.lease = R.lease /\ Q.ran = TRUE /\ Q.batch = 1 /\ Q.kind = R.kind /\ Q.canary = R.canary
    BY <1>2, <2>1 DEF Records
  <2>4. ASSUME Has(r)
        PROVE  MembersOK(Q, M)
    <3>1. ~Shown(R) /\ M[R.canary].state = "healthy" /\ Shown(Q)
      BY <1>2, <2>2, <2>3, <2>4 DEF WorkOK, CallSteps, Shown
    <3>2. /\ M[R.canary].batch = 0
          /\ \A t \in Fleet \ {R.canary} : M[t].state = "none"
      BY <1>2, <3>1 DEF MembersOK
    <3>3. \A t \in Fleet : M[t].state \in {"uploaded", "healthy"} => M[t].batch <= 1
      BY <1>3, <3>2
    <3>4. \A t \in Fleet : M[t].state \notin Open \cup {"failed"}
      BY <3>1, <3>2 DEF Open
    <3>. QED BY <2>3, <3>1, <3>3, <3>4 DEF MembersOK
  <2>. QED BY <1>1, <1>2, <2>2, <2>3, <2>4, ReleaseWritten DEF Running
<1>6. CASE FinishesRelease(r)
  <2>1. PICK state \in {"done", "paused"} : SetsRelease(r, [R EXCEPT !.state = state])
    BY <1>6 DEF FinishesRelease
  <2>2. PICK Q : Q = [R EXCEPT !.state = state]
    OBVIOUS
  <2>3. /\ Q.state = state /\ Q.lease = R.lease /\ Q.kind = R.kind /\ Q.ran = R.ran /\ Q.canary = R.canary
        /\ Q.batch = R.batch
    BY <1>2, <2>2 DEF Records
  <2>4. MembersOK(Q, M)
    BY <1>2, <2>1, <2>3 DEF MembersOK, Shown
  <2>5. Moves(r, "end") /\ SetsRelease(r, Q)
    BY <1>6, <2>1, <2>2 DEF FinishesRelease
  <2>. QED BY <1>1, <1>2, <2>3, <2>4, <2>5, ReleaseWritten
<1>. QED BY <1>4, <1>5, <1>6

LEMMA EndsInOrder ==
    ASSUME CanaryInv, OrderInv, NEW r \in Rollers, EndsRun(r)
    PROVE  OrderInv'
<1>. DEFINE R == releases[Rel(r)]
            M == member[Rel(r)]
            Q == IF R.lease = r THEN [R EXCEPT !.lease = NoRoller] ELSE R
<1>1. /\ roller[r].pc # "idle" /\ UNCHANGED <<desk, member>> /\ roller' = [roller EXCEPT ![r] = Off]
      /\ Off.pc \in OffWork /\ Off.pc \notin TenantSteps
  BY DEF EndsRun, RollerAt, Quits, Off, OffWork, TenantSteps
<1>2. /\ Rel(r) \in DOMAIN releases /\ Rel(r) \in ReleaseIds /\ R \in Records /\ M \in [Fleet -> MemberRecords] /\ MembersOK(R, M)
      /\ releases \in Seq(Records) /\ member \in [ReleaseIds -> [Fleet -> MemberRecords]]
  BY <1>1, WorkAtHand DEF CanaryInv, StateOK, OrderInv
<1>3. releases' = [releases EXCEPT ![Rel(r)] = Q] /\ member' = [member EXCEPT ![Rel(r)] = M]
  <2>1. member' = [member EXCEPT ![Rel(r)] = M]
    BY <1>1, <1>2
  <2>2. CASE R.lease = r
    <3>1. releases' = [releases EXCEPT ![Rel(r)].lease = NoRoller]
      BY <2>2 DEF EndsRun
    <3>. QED BY <1>2, <2>1, <2>2, <3>1
  <2>3. CASE R.lease # r
    <3>1. releases' = releases
      BY <2>3 DEF EndsRun
    <3>. QED BY <1>2, <2>1, <2>3, <3>1
  <2>. QED BY <2>2, <2>3
<1>4. /\ Q.state = R.state /\ Q.lease \in {R.lease, NoRoller} /\ Q.kind = R.kind /\ Q.ran = R.ran
      /\ Q.canary = R.canary /\ Q.batch = R.batch /\ (R.lease # r => Q = R)
  BY <1>2 DEF Records
<1>. HIDE DEF Q
<1>5. MembersOK(Q, M)
  BY <1>2, <1>4 DEF MembersOK, Shown
<1>. QED BY <1>1, <1>2, <1>3, <1>4, <1>5, RunWrites

-----------------------------------------------------------------------------
(* Batches: what others do to a release.                                    *)

LEMMA RowsAreReleases ==
    ASSUME CanaryInv, OrderInv
    PROVE  /\ DOMAIN releases \subseteq ReleaseIds /\ releases \in Seq(Records) /\ roller \in [Rollers -> RollerRecords]
           /\ member \in [ReleaseIds -> [Fleet -> MemberRecords]]
           /\ \A i \in DOMAIN releases : releases[i] \in Records /\ MembersOK(releases[i], member[i])
<1>1. releases \in Seq(Records) /\ roller \in [Rollers -> RollerRecords]
  BY DEF CanaryInv, StateOK
<1>2. Len(releases) \in Nat /\ DOMAIN releases = 1 .. Len(releases) /\ Len(releases) <= MaxReleases
  BY <1>1, LenProperties DEF OrderInv
<1>3. DOMAIN releases \subseteq ReleaseIds
  BY <1>2, ReleaseConstants DEF ReleaseIds
<1>. QED BY <1>1, <1>3, ElementOfSeq DEF OrderInv

\* Rows of which a run sees the same.
Alike(R, Q) ==
    /\ Q.state = R.state /\ Q.kind = R.kind /\ Q.ran = R.ran /\ Q.canary = R.canary /\ Q.batch = R.batch
    /\ Q.lease = R.lease

(* A release is written by the owner, or its lease runs out: a run that holds *)
(* it sees nothing of that, or loses it, or is not at work.                  *)
LEMMA OthersWrite ==
    ASSUME CanaryInv, OrderInv, NEW i \in DOMAIN releases, NEW Q, releases' = [releases EXCEPT ![i] = Q],
           NEW N \in [Fleet -> MemberRecords], member' = [member EXCEPT ![i] = N], roller' = roller,
           MembersOK(Q, N),
           \/ N = member[i] /\ Alike(releases[i], Q)
           \/ Q.lease = NoRoller
           \/ releases[i].state \notin Running /\ Q.lease = releases[i].lease,
           WaitsOK(desk', releases')
    PROVE  OrderInv'
<1>1. /\ DOMAIN releases \subseteq ReleaseIds /\ releases \in Seq(Records) /\ roller \in [Rollers -> RollerRecords]
      /\ member \in [ReleaseIds -> [Fleet -> MemberRecords]]
      /\ \A j \in DOMAIN releases : MembersOK(releases[j], member[j])
  BY RowsAreReleases
<1>2. /\ DOMAIN releases' = DOMAIN releases /\ Len(releases') = Len(releases)
      /\ releases'[i] = Q /\ \A j \in DOMAIN releases \ {i} : releases'[j] = releases[j]
  BY <1>1
<1>3. /\ member' \in [ReleaseIds -> [Fleet -> MemberRecords]]
      /\ member'[i] = N /\ \A j \in ReleaseIds \ {i} : member'[j] = member[j]
  BY <1>1
<1>4. Len(releases') <= MaxReleases /\ \A j \in ReleaseIds \ DOMAIN releases' : \A t \in Fleet : member'[j][t].state = "none"
  BY <1>1, <1>2, <1>3 DEF OrderInv
<1>5. \A j \in DOMAIN releases' : MembersOK(releases'[j], member'[j])
  BY <1>1, <1>2, <1>3
<1>6. ASSUME NEW s \in Rollers
      PROVE  /\ roller'[s].pc \in TenantSteps => roller'[s].tenant \in Fleet
             /\ HoldOK(s, roller'[s], releases', member')
  <2>1. HoldOK(s, roller[s], releases, member) /\ (roller[s].pc \in TenantSteps => roller[s].tenant \in Fleet)
    BY DEF OrderInv
  <2>. DEFINE j == roller[s].rel
  <2>2. roller[s].pc \notin OffWork => j \in DOMAIN releases
    BY ReleaseAtHand DEF OffWork, Rel
  <2>3. ASSUME roller[s].pc \notin OffWork, releases'[j].lease = s
        PROVE  releases'[j].state \in Running /\ WorkOK(roller[s], releases'[j], member'[j])
    <3>1. CASE j # i
      <4>1. releases'[j] = releases[j] /\ member'[j] = member[j]
        BY <1>1, <1>2, <1>3, <2>2, <2>3, <3>1
      <4>. QED BY <2>1, <2>3, <4>1 DEF HoldOK
    <3>2. CASE j = i
      <4>1. Q.lease = s /\ s # NoRoller
        BY <1>2, <2>3, <3>2, ReleaseConstants
      <4>2. N = member[i] /\ Alike(releases[i], Q)
        BY <2>1, <2>3, <3>2, <4>1 DEF HoldOK
      <4>3. releases[i].state \in Running /\ WorkOK(roller[s], releases[i], member[i])
        BY <2>1, <2>3, <3>2, <4>1, <4>2 DEF HoldOK, Alike
      <4>4. Q.state \in Running /\ WorkOK(roller[s], Q, N)
        BY <4>2, <4>3 DEF Alike, WorkOK, Shown, BatchIsOver, BatchIsWell
      <4>. QED BY <1>2, <1>3, <3>2, <4>4
    <3>. QED BY <3>1, <3>2
  <2>. HIDE DEF j
  <2>4. HoldOK(s, roller[s], releases', member')
    BY <2>3 DEF HoldOK, j
  <2>. QED BY <2>1, <2>4
<1>. QED BY <1>3, <1>4, <1>5, <1>6 DEF OrderInv

LEMMA LeaseOutInOrder ==
    ASSUME CanaryInv, OrderInv, NEW i \in DOMAIN releases, LeaseRunsOut(i)
    PROVE  OrderInv'
<1>. DEFINE R == releases[i]
            M == member[i]
<1>1. /\ i \in ReleaseIds /\ R \in Records /\ M \in [Fleet -> MemberRecords] /\ MembersOK(R, M)
      /\ member \in [ReleaseIds -> [Fleet -> MemberRecords]] /\ releases \in Seq(Records)
  BY RowsAreReleases
<1>2. PICK Q : Q = [R EXCEPT !.over = TRUE]
  OBVIOUS
<1>3. Alike(R, Q)
  BY <1>1, <1>2 DEF Alike, Records
<1>4. /\ releases' = [releases EXCEPT ![i] = Q] /\ member' = [member EXCEPT ![i] = M]
      /\ UNCHANGED <<desk, roller>>
  BY <1>1, <1>2 DEF LeaseRunsOut
<1>5. MembersOK(Q, M)
  BY <1>1, <1>3 DEF MembersOK, Alike, Shown
<1>6. WaitsOK(desk', releases')
  <2>1. WaitsOK(desk, releases) /\ (desk.rel # 0 => desk.rel \in DOMAIN releases)
    BY DEF OrderInv, CanaryInv, DeskOK
  <2>2. \A j \in DOMAIN releases : releases'[j].state = releases[j].state
    BY <1>1, <1>3, <1>4 DEF Alike
  <2>. QED BY <1>4, <2>1, <2>2 DEF WaitsOK
<1>. QED BY <1>1, <1>3, <1>4, <1>5, <1>6, OthersWrite

LEMMA TakeInOrder ==
    ASSUME CanaryInv, OrderInv, NEW r \in Rollers, TakesRelease(r)
    PROVE  OrderInv'
<1>1. PICK i \in RunningId :
        /\ releases' = [releases EXCEPT ![i].lease = r, ![i].over = FALSE]
        /\ roller' = [roller EXCEPT ![r] = [pc |-> "begin", rel |-> i, tenant |-> NoTenant]]
  BY DEF TakesRelease
<1>2. UNCHANGED <<desk, member>> /\ roller[r].pc = "idle"
  BY DEF TakesRelease, RollerAt
<1>3. i \in DOMAIN releases /\ releases[i].state \in Running
  BY DEF RunningId, ActiveIds, Active, Running
<1>4. /\ DOMAIN releases \subseteq ReleaseIds /\ releases \in Seq(Records) /\ roller \in [Rollers -> RollerRecords]
      /\ member \in [ReleaseIds -> [Fleet -> MemberRecords]]
      /\ \A j \in DOMAIN releases : releases[j] \in Records /\ MembersOK(releases[j], member[j])
  BY RowsAreReleases
<1>5. PICK Q : Q = [releases[i] EXCEPT !.lease = r, !.over = FALSE]
  OBVIOUS
<1>6. /\ Q.lease = r /\ Q.state = releases[i].state /\ Q.kind = releases[i].kind /\ Q.ran = releases[i].ran
      /\ Q.canary = releases[i].canary /\ Q.batch = releases[i].batch
  BY <1>3, <1>4, <1>5 DEF Records
<1>7. releases' = [releases EXCEPT ![i] = Q]
  BY <1>1, <1>3, <1>4, <1>5
<1>8. /\ DOMAIN releases' = DOMAIN releases /\ Len(releases') = Len(releases)
      /\ releases'[i] = Q /\ \A j \in DOMAIN releases \ {i} : releases'[j] = releases[j]
  BY <1>3, <1>4, <1>7
<1>9. /\ Len(releases') <= MaxReleases /\ member' \in [ReleaseIds -> [Fleet -> MemberRecords]]
      /\ \A j \in ReleaseIds \ DOMAIN releases' : \A t \in Fleet : member'[j][t].state = "none"
  BY <1>2, <1>4, <1>8 DEF OrderInv
<1>10. \A j \in DOMAIN releases' : MembersOK(releases'[j], member'[j])
  <2>1. MembersOK(Q, member[i])
    BY <1>3, <1>4, <1>6 DEF MembersOK, Shown
  <2>. QED BY <1>2, <1>4, <1>8, <2>1
<1>11. ASSUME NEW s \in Rollers
       PROVE  /\ roller'[s].pc \in TenantSteps => roller'[s].tenant \in Fleet
              /\ HoldOK(s, roller'[s], releases', member')
  <2>1. CASE s = r
    <3>1. roller'[s].pc = "begin" /\ roller'[s].rel = i
      BY <1>1, <1>4, <2>1
    <3>2. WorkOK(roller'[s], Q, member[i])
      BY <3>1 DEF WorkOK, TenantSteps, CallSteps
    <3>. QED BY <1>2, <1>3, <1>6, <1>8, <3>1, <3>2 DEF HoldOK, TenantSteps
  <2>2. CASE s # r
    <3>1. /\ roller'[s] = roller[s] /\ HoldOK(s, roller[s], releases, member)
          /\ roller[s].pc \in TenantSteps => roller[s].tenant \in Fleet
      BY <1>1, <1>4, <2>2 DEF OrderInv
    <3>2. roller[s].pc \notin OffWork => roller[s].rel \in DOMAIN releases
      BY ReleaseAtHand DEF OffWork, Rel
    <3>3. HoldOK(s, roller[s], releases', member')
      BY <1>2, <1>6, <1>8, <2>2, <3>1, <3>2 DEF HoldOK
    <3>. QED BY <3>1, <3>3
  <2>. QED BY <2>1, <2>2
<1>12. WaitsOK(desk', releases')
  <2>1. WaitsOK(desk, releases) /\ (desk.rel # 0 => desk.rel \in DOMAIN releases)
    BY DEF OrderInv, CanaryInv, DeskOK
  <2>2. \A j \in DOMAIN releases : releases'[j].state = releases[j].state
    BY <1>6, <1>8
  <2>. QED BY <1>2, <2>1, <2>2 DEF WaitsOK
<1>. QED BY <1>9, <1>10, <1>11, <1>12 DEF OrderInv

-----------------------------------------------------------------------------
(* Batches: the owner's requests.                                           *)

LEMMA QuietDesk ==
    ASSUME CanaryInv, OrderInv,
           UNCHANGED <<releases, member, roller>>, WaitsOK(desk', releases)
    PROVE  OrderInv'
BY DEF OrderInv

LEMMA NobodyWaits ==
    ASSUME NEW d, d = NoRequest \/ d.pc = "point", NEW rows
    PROVE  WaitsOK(d, rows)
BY DEF WaitsOK, NoRequest

LEMMA RequestInOrder ==
    ASSUME CanaryInv, OrderInv, TakesRequest
    PROVE  OrderInv'
<1>1. UNCHANGED <<releases, member, roller>>
  BY DEF TakesRequest
<1>2. /\ desk'.rel = ActiveId
      /\ desk'.state = IF ActiveId = 0 THEN "none" ELSE releases[ActiveId].state
  BY DEF TakesRequest
<1>3. WaitsOK(desk', releases)
  BY <1>2 DEF WaitsOK, Running
<1>. QED BY <1>1, <1>3, QuietDesk

LEMMA AnswersInOrder ==
    ASSUME CanaryInv, OrderInv, PointsNew \/ RefusesRequest \/ HandlerDies
    PROVE  OrderInv'
BY QuietDesk, NobodyWaits DEF PointsNew, RefusesRequest, HandlerDies, Answered

(* The failed are put back or skipped: nobody's batch changes.               *)
LEMMA FailedWritten ==
    ASSUME CanaryInv, OrderInv, NEW i \in DOMAIN releases, NEW state \in {"pending", "skipped"}, FailedBecome(i, state)
    PROVE  \E N \in [Fleet -> MemberRecords] :
              /\ member' = [member EXCEPT ![i] = N]
              /\ \A t \in Fleet : /\ N[t].batch = member[i][t].batch /\ N[t].requeues = member[i][t].requeues
                                  /\ \/ N[t].state = member[i][t].state
                                     \/ member[i][t].state = "failed" /\ N[t].state = state
<1>. DEFINE M == member[i]
            N == [t \in Fleet |-> TriedAnew(M[t], state)]
<1>1. i \in ReleaseIds /\ member \in [ReleaseIds -> [Fleet -> MemberRecords]] /\ M \in [Fleet -> MemberRecords]
  BY RowsAreReleases
<1>2. member' = [member EXCEPT ![i] = N]
  BY <1>1 DEF FailedBecome
<1>3. ASSUME NEW t \in Fleet
      PROVE  /\ TriedAnew(M[t], state) \in MemberRecords
             /\ TriedAnew(M[t], state).batch = M[t].batch /\ TriedAnew(M[t], state).requeues = M[t].requeues
             /\ \/ TriedAnew(M[t], state).state = M[t].state
                \/ M[t].state = "failed" /\ TriedAnew(M[t], state).state = state
  <2>. DEFINE k == IF state = "pending" THEN 0 ELSE M[t].tries
  <2>1. M[t] \in MemberRecords /\ k \in 0 .. MaxChecks
    BY <1>1, ReleaseConstants DEF MemberRecords
  <2>2. CASE M[t].state = "failed"
    <3>1. state \in Open \cup {"none", "healthy", "failed", "skipped"}
      BY DEF Open
    <3>2. TriedAnew(M[t], state) = Tried(M[t], state, k)
      BY <2>2 DEF TriedAnew, Tried
    <3>. HIDE DEF k
    <3>. QED BY <2>1, <2>2, <3>1, <3>2, TriedAgain
  <2>3. CASE M[t].state # "failed"
    <3>1. TriedAnew(M[t], state) \in {[M[t] EXCEPT !.tries = 0], M[t]}
      BY <2>3 DEF TriedAnew
    <3>. QED BY <2>1, <3>1, ReleaseConstants DEF MemberRecords
  <2>. QED BY <2>2, <2>3
<1>4. \A t \in Fleet : N[t] = TriedAnew(M[t], state)
  OBVIOUS
<1>5. N \in [Fleet -> MemberRecords]
  BY <1>3
<1>. HIDE DEF N
<1>. QED BY <1>2, <1>3, <1>4, <1>5

LEMMA ChangeInOrder ==
    ASSUME CanaryInv, OrderInv, ChangesActive
    PROVE  OrderInv'
<1>. DEFINE i == desk.rel
            R == releases[desk.rel]
            M == member[desk.rel]
<1>1. i # 0 /\ desk' = NoRequest /\ roller' = roller
  BY DEF ChangesActive, Answered
<1>2. i \in DOMAIN releases
  BY <1>1 DEF CanaryInv, DeskOK
<1>3. /\ i \in ReleaseIds /\ R \in Records /\ M \in [Fleet -> MemberRecords] /\ MembersOK(R, M)
      /\ member \in [ReleaseIds -> [Fleet -> MemberRecords]] /\ releases \in Seq(Records)
  BY <1>2, RowsAreReleases
<1>4. WaitsOK(desk', releases')
  BY <1>1, NobodyWaits
<1>5. ASSUME NEW state \in Active \cup {"done", "cancelled"}, ChangesTo(i, state)
      PROVE  \E Q \in Records : /\ releases' = [releases EXCEPT ![i] = Q]
                                /\ Q.kind = R.kind /\ Q.ran = R.ran /\ Q.canary = R.canary /\ Q.batch = R.batch
                                /\ \/ Alike(R, Q)
                                   \/ Q.state = state /\ (Q.lease = NoRoller \/ (state \in Running /\ Q.lease = R.lease))
  <2>1. CASE releases' = releases
    <3>1. releases' = [releases EXCEPT ![i] = R]
      BY <1>2, <1>3, <2>1
    <3>. QED BY <1>3, <3>1 DEF Alike
  <2>2. CASE releases' = [releases EXCEPT ![i].state = state] /\ state \in {"canary", "rolling"}
    <3>1. PICK Q : Q = [R EXCEPT !.state = state]
      OBVIOUS
    <3>2. /\ Q \in Records /\ Q.kind = R.kind /\ Q.ran = R.ran /\ Q.canary = R.canary /\ Q.batch = R.batch
          /\ Q.state = state /\ Q.lease = R.lease
      BY <1>3, <2>2, <3>1 DEF Records, Active
    <3>3. releases' = [releases EXCEPT ![i] = Q]
      BY <1>2, <1>3, <2>2, <3>1
    <3>. QED BY <2>2, <3>2, <3>3 DEF Running
  <2>3. CASE releases' = [releases EXCEPT ![i].state = state, ![i].lease = NoRoller, ![i].over = FALSE]
    <3>1. PICK Q : Q = [R EXCEPT !.state = state, !.lease = NoRoller, !.over = FALSE]
      OBVIOUS
    <3>2. /\ Q \in Records /\ Q.kind = R.kind /\ Q.ran = R.ran /\ Q.canary = R.canary /\ Q.batch = R.batch
          /\ Q.state = state /\ Q.lease = NoRoller
      BY <1>3, <3>1 DEF Records, Active
    <3>3. releases' = [releases EXCEPT ![i] = Q]
      BY <1>2, <1>3, <2>3, <3>1
    <3>. QED BY <3>2, <3>3
  <2>. QED BY <1>5, <2>1, <2>2, <2>3 DEF ChangesTo
<1>6. CASE /\ UNCHANGED member
           /\ ChangesTo(i, "paused") \/ ChangesTo(i, "cancelled")
  <2>1. PICK state \in {"paused", "cancelled"} : ChangesTo(i, state)
    BY <1>6
  <2>2. PICK Q : /\ releases' = [releases EXCEPT ![i] = Q]
                 /\ Q.kind = R.kind /\ Q.ran = R.ran /\ Q.canary = R.canary /\ Q.batch = R.batch
                 /\ Alike(R, Q) \/ (Q.state = state /\ Q.lease = NoRoller)
    BY <1>5, <2>1 DEF Running, Active
  <2>3. MembersOK(Q, M)
    BY <1>3, <2>1, <2>2 DEF MembersOK, Shown, Alike
  <2>4. member' = [member EXCEPT ![i] = M]
    BY <1>3, <1>6
  <2>5. (M = member[i] /\ Alike(releases[i], Q)) \/ Q.lease = NoRoller
    BY <2>2
  <2>. HIDE DEF i, M, R
  <2>6. i \in DOMAIN releases /\ M \in [Fleet -> MemberRecords]
    BY <1>2, <1>3
  <2>. QED BY <1>1, <1>4, <2>2, <2>3, <2>4, <2>5, <2>6, OthersWrite
<1>7. CASE /\ desk.pc \in {"resume", "skip_failed"} /\ desk.state = "paused" /\ ChangesTo(i, ResumeState(i))
           /\ FailedBecome(i, "pending") \/ FailedBecome(i, "skipped")
  <2>1. R.state \notin Running
    BY <1>1, <1>7 DEF OrderInv, WaitsOK
  <2>2. PICK Q : /\ releases' = [releases EXCEPT ![i] = Q]
                 /\ Q.kind = R.kind /\ Q.ran = R.ran /\ Q.canary = R.canary /\ Q.batch = R.batch
                 /\ Alike(R, Q) \/ (Q.state = ResumeState(i) /\ (Q.lease = NoRoller \/ Q.lease = R.lease))
    BY <1>5, <1>7 DEF ResumeState, Active
  <2>3. PICK state \in {"pending", "skipped"} : FailedBecome(i, state)
    BY <1>7
  <2>4. PICK N \in [Fleet -> MemberRecords] :
              /\ member' = [member EXCEPT ![i] = N]
              /\ \A t \in Fleet : /\ N[t].batch = M[t].batch /\ N[t].requeues = M[t].requeues
                                  /\ N[t].state = M[t].state \/ (M[t].state = "failed" /\ N[t].state = state)
    BY <1>2, <2>3, FailedWritten
  <2>5. MembersOK(Q, N)
    <3>1. Shown(Q) <=> Shown(R)
      BY <2>2 DEF Shown
    <3>2. Q.state = "canary" => ~Shown(Q)
      BY <1>3, <2>2, <3>1 DEF MembersOK, Alike, ResumeState, Shown
    <3>3. ~Shown(R) => R.canary \in Fleet
      BY <1>3 DEF Shown, Records
    <3>4. ~Shown(Q) => /\ Q.batch = 0 /\ N[Q.canary].batch = 0
                       /\ \A t \in Fleet \ {Q.canary} : N[t].state = "none"
      BY <1>3, <2>2, <2>4, <3>1, <3>3 DEF MembersOK
    <3>5. \A t \in Fleet : N[t].state \in {"uploaded", "healthy"} => N[t].batch <= Q.batch
      BY <1>3, <2>2, <2>4 DEF MembersOK
    <3>6. ASSUME Q.kind = "rollout", NEW t \in Fleet, N[t].state \in Open \cup {"failed"}, N[t].batch < Q.batch
          PROVE  N[t].requeues = MaxRequeues
      <4>1. M[t].state \in Open \cup {"failed"}
        BY <2>4, <3>6
      <4>. QED BY <1>3, <2>2, <2>4, <3>6, <4>1 DEF MembersOK
    <3>. QED BY <1>3, <2>2, <3>1, <3>2, <3>4, <3>5, <3>6 DEF MembersOK
  <2>6. Q.lease = NoRoller \/ (releases[i].state \notin Running /\ Q.lease = releases[i].lease)
    BY <2>1, <2>2 DEF Alike
  <2>. HIDE DEF i
  <2>. QED BY <1>1, <1>2, <1>4, <2>2, <2>4, <2>5, <2>6, OthersWrite
<1>. QED BY <1>6, <1>7 DEF ChangesActive

(* The rows once a release is in: the one it replaces is cancelled.          *)
LEMMA RowsInserted ==
    ASSUME CanaryInv, OrderInv, NEW R \in Records, Inserts(R), NEW n, n = Len(releases)
    PROVE  /\ n \in Nat /\ DOMAIN releases = 1 .. n /\ n < MaxReleases
           /\ DOMAIN releases' = 1 .. n + 1 /\ Len(releases') = n + 1 /\ releases'[n + 1] = R
           /\ \A i \in 1 .. n :
                \/ releases'[i] = releases[i] /\ ~(i = desk.rel /\ releases[i].state \in Active)
                \/ /\ releases'[i].state = "cancelled" /\ releases'[i].lease = NoRoller
                   /\ releases'[i].kind = releases[i].kind /\ releases'[i].ran = releases[i].ran
                   /\ releases'[i].canary = releases[i].canary /\ releases'[i].batch = releases[i].batch
                   /\ releases'[i].version = releases[i].version
<1>. DEFINE Ending == [i \in DOMAIN releases |->
                         IF i = desk.rel /\ releases[i].state \in Active
                         THEN [releases[i] EXCEPT !.state = "cancelled", !.lease = NoRoller, !.over = FALSE]
                         ELSE releases[i]]
<1>1. /\ releases \in Seq(Records) /\ \A i \in DOMAIN releases : releases[i] \in Records
      /\ n \in Nat /\ DOMAIN releases = 1 .. n /\ n < MaxReleases
  <2>1. Len(releases) < MaxReleases
    BY DEF Inserts
  <2>. QED BY <2>1, RowsAreReleases, LenProperties
<1>2. PICK ended : ended = Ending
  OBVIOUS
<1>3. releases' = Append(ended, R)
  BY <1>2 DEF Inserts
<1>4. ASSUME NEW i \in 1 .. n, i = desk.rel, releases[i].state \in Active
      PROVE  /\ ended[i].state = "cancelled" /\ ended[i].lease = NoRoller
             /\ ended[i].kind = releases[i].kind /\ ended[i].ran = releases[i].ran
             /\ ended[i].canary = releases[i].canary /\ ended[i].batch = releases[i].batch
             /\ ended[i].version = releases[i].version /\ ended[i] \in Records
  <2>1. releases[i] \in Records
    BY <1>1
  <2>2. ended[i] = [releases[i] EXCEPT !.state = "cancelled", !.lease = NoRoller, !.over = FALSE]
    BY <1>1, <1>2, <1>4
  <2>. QED BY <2>1, <2>2 DEF Records
<1>5. ASSUME NEW i \in 1 .. n, ~(i = desk.rel /\ releases[i].state \in Active)
      PROVE  ended[i] = releases[i]
  BY <1>1, <1>2, <1>5
<1>6. ended \in Seq(Records) /\ Len(ended) = n
  <2>1. \A i \in 1 .. n : ended[i] \in Records
    BY <1>1, <1>4, <1>5
  <2>2. ended \in [1 .. n -> Records]
    BY <1>1, <1>2, <2>1
  <2>. QED BY <1>1, <2>2
<1>7. /\ DOMAIN releases' = 1 .. n + 1 /\ Len(releases') = n + 1 /\ releases'[n + 1] = R
      /\ \A i \in 1 .. n : releases'[i] = ended[i]
  BY <1>1, <1>3, <1>6, AppendProperties
<1>. QED BY <1>1, <1>4, <1>5, <1>7

(* A new release, and the end of the one it replaces.                       *)
LEMMA InsertedInOrder ==
    ASSUME CanaryInv, OrderInv, NEW R \in Records, Inserts(R), roller' = roller, desk' = NoRequest \/ desk'.pc = "point",
           NEW N \in [Fleet -> MemberRecords], MembersOK(R, N), R.lease = NoRoller,
           Len(releases') \in ReleaseIds => member' = [member EXCEPT ![Len(releases')] = N]
    PROVE  OrderInv'
<1>. DEFINE n == Len(releases)
<1>1. /\ DOMAIN releases \subseteq ReleaseIds /\ releases \in Seq(Records) /\ roller \in [Rollers -> RollerRecords]
      /\ member \in [ReleaseIds -> [Fleet -> MemberRecords]]
      /\ \A i \in DOMAIN releases : releases[i] \in Records /\ MembersOK(releases[i], member[i])
      /\ n \in Nat /\ DOMAIN releases = 1 .. n /\ n < MaxReleases /\ MaxReleases \in Nat
  BY RowsAreReleases, RowsInserted, ReleaseConstants
<1>2. /\ DOMAIN releases' = 1 .. n + 1 /\ Len(releases') = n + 1 /\ releases'[n + 1] = R
      /\ \A i \in 1 .. n :
           \/ releases'[i] = releases[i]
           \/ /\ releases'[i].state = "cancelled" /\ releases'[i].lease = NoRoller
              /\ releases'[i].kind = releases[i].kind /\ releases'[i].ran = releases[i].ran
              /\ releases'[i].canary = releases[i].canary /\ releases'[i].batch = releases[i].batch
  BY RowsInserted
<1>. HIDE DEF n
<1>3. n + 1 \in ReleaseIds /\ n + 1 \notin DOMAIN releases
  BY <1>1 DEF ReleaseIds
<1>4. /\ member' \in [ReleaseIds -> [Fleet -> MemberRecords]] /\ member'[n + 1] = N
      /\ \A i \in ReleaseIds \ {n + 1} : member'[i] = member[i]
  BY <1>1, <1>2, <1>3
<1>5. \A i \in ReleaseIds \ DOMAIN releases' : \A t \in Fleet : member'[i][t].state = "none"
  <2>1. \A i \in ReleaseIds \ DOMAIN releases' : i # n + 1 /\ i \notin DOMAIN releases
    BY <1>1, <1>2
  <2>. QED BY <1>4, <2>1 DEF OrderInv
<1>6. \A i \in DOMAIN releases' : MembersOK(releases'[i], member'[i])
  <2>1. MembersOK(releases'[n + 1], member'[n + 1])
    BY <1>2, <1>4
  <2>2. ASSUME NEW i \in 1 .. n
        PROVE  MembersOK(releases'[i], member'[i])
    <3>1. member'[i] = member[i] /\ MembersOK(releases[i], member[i])
      BY <1>1, <1>3, <1>4
    <3>2. CASE releases'[i] = releases[i]
      BY <3>1, <3>2
    <3>3. CASE releases'[i] # releases[i]
      BY <1>2, <3>1, <3>3 DEF MembersOK, Shown
    <3>. QED BY <3>2, <3>3
  <2>3. \A i \in DOMAIN releases' : i \in 1 .. n \/ i = n + 1
    BY <1>1, <1>2
  <2>. QED BY <2>1, <2>2, <2>3
<1>7. ASSUME NEW s \in Rollers
       PROVE  /\ roller'[s].pc \in TenantSteps => roller'[s].tenant \in Fleet
              /\ HoldOK(s, roller'[s], releases', member')
  <2>. DEFINE j == roller[s].rel
  <2>1. HoldOK(s, roller[s], releases, member) /\ (roller[s].pc \in TenantSteps => roller[s].tenant \in Fleet)
    BY DEF OrderInv
  <2>2. roller[s].pc \notin OffWork => j \in 1 .. n
    BY <1>1, ReleaseAtHand DEF OffWork, Rel
  <2>3. ASSUME roller[s].pc \notin OffWork, releases'[j].lease = s
        PROVE  releases'[j].state \in Running /\ WorkOK(roller[s], releases'[j], member'[j])
    <3>1. releases'[j] = releases[j] /\ member'[j] = member[j]
      BY <1>1, <1>2, <1>3, <1>4, <2>2, <2>3, ReleaseConstants
    <3>. QED BY <2>1, <2>3, <3>1 DEF HoldOK
  <2>. HIDE DEF j
  <2>4. HoldOK(s, roller[s], releases', member')
    BY <2>3 DEF HoldOK, j
  <2>. QED BY <2>1, <2>4
<1>8. WaitsOK(desk', releases')
  BY NobodyWaits
<1>9. Len(releases') <= MaxReleases
  BY <1>1, <1>2
<1>. QED BY <1>4, <1>5, <1>6, <1>7, <1>8, <1>9 DEF OrderInv

(* A release starts with nobody, or with its canary.                        *)
LEMMA NewMembers ==
    ASSUME CanaryInv, OrderInv, Len(releases) < MaxReleases
    PROVE  /\ Len(releases) + 1 \in ReleaseIds
           /\ member[Len(releases) + 1] \in [Fleet -> MemberRecords]
           /\ \A t \in Fleet : member[Len(releases) + 1][t].state = "none"
<1>1. /\ releases \in Seq(Records) /\ member \in [ReleaseIds -> [Fleet -> MemberRecords]]
  BY RowsAreReleases
<1>2. Len(releases) \in Nat /\ DOMAIN releases = 1 .. Len(releases)
  BY <1>1, LenProperties
<1>3. Len(releases) + 1 \in ReleaseIds /\ Len(releases) + 1 \notin DOMAIN releases
  BY <1>2, ReleaseConstants DEF ReleaseIds
<1>. QED BY <1>1, <1>3 DEF OrderInv

LEMMA InsertsOne ==
    ASSUME CanaryInv, OrderInv, NEW R \in Records, Inserts(R)
    PROVE  Len(releases') = Len(releases) + 1 /\ Len(releases) < MaxReleases
BY RowsInserted

LEMMA RolloutInOrder ==
    ASSUME CanaryInv, OrderInv, StartsRollout
    PROVE  OrderInv'
<1>1. PICK v, c, R :
        /\ v \in Versions /\ c \in Ready \cup {NoTenant}
        /\ R = [kind |-> "rollout", version |-> v, from |-> desk.live, canary |-> c, ran |-> FALSE,
                state |-> IF c = NoTenant THEN "rolling" ELSE "canary",
                batch |-> IF c = NoTenant THEN 1 ELSE 0, lease |-> NoRoller, over |-> FALSE]
        /\ Inserts(R)
        /\ IF c = NoTenant THEN ThenPoints(Len(releases')) /\ member' = member
           ELSE Answered /\ member' = [member EXCEPT ![Len(releases')][c] = [Absent EXCEPT !.state = "pending"]]
  BY DEF StartsRollout
<1>2. roller' = roller /\ desk \in DeskRecords
  BY DEF StartsRollout, CanaryInv, StateOK
<1>3. R \in Records /\ R.lease = NoRoller
  BY <1>1, <1>2 DEF Records, DeskRecords, AllVersions, Active, Ready
<1>4. Len(releases') = Len(releases) + 1 /\ Len(releases) < MaxReleases
  BY <1>1, <1>3, InsertsOne
<1>. DEFINE n == Len(releases) + 1
            M == member[n]
<1>5. /\ n \in ReleaseIds /\ M \in [Fleet -> MemberRecords] /\ (\A t \in Fleet : M[t].state = "none")
      /\ member \in [ReleaseIds -> [Fleet -> MemberRecords]]
  BY <1>4, NewMembers, RowsAreReleases
<1>6. desk' = NoRequest \/ desk'.pc = "point"
  BY <1>1, <1>2 DEF ThenPoints, Answered, DeskRecords
<1>7. CASE c = NoTenant
  <2>1. MembersOK(R, M)
    BY <1>1, <1>5, <1>7 DEF MembersOK, Shown, Open
  <2>2. member' = [member EXCEPT ![Len(releases')] = M]
    BY <1>1, <1>4, <1>5, <1>7
  <2>. HIDE DEF M
  <2>. QED BY <1>1, <1>2, <1>3, <1>5, <1>6, <2>1, <2>2, InsertedInOrder
<1>8. CASE c # NoTenant
  <2>1. PICK rec : rec = [Absent EXCEPT !.state = "pending"]
    OBVIOUS
  <2>2. rec = [state |-> "pending", batch |-> 0, tries |-> 0, requeues |-> 0]
    BY <2>1 DEF Absent
  <2>3. rec \in MemberRecords /\ rec.state = "pending" /\ rec.batch = 0 /\ c \in Fleet
    BY <1>1, <1>8, <2>2, ReleaseConstants DEF MemberRecords, Open, Ready
  <2>. DEFINE N == [M EXCEPT ![c] = rec]
  <2>4. N \in [Fleet -> MemberRecords] /\ N[c] = rec /\ \A t \in Fleet \ {c} : N[t] = M[t]
    BY <1>5, <2>3
  <2>5. member' = [member EXCEPT ![Len(releases')] = N]
    <3>1. member' = [member EXCEPT ![Len(releases')][c] = rec]
      BY <1>1, <1>8, <2>1
    <3>. QED BY <1>4, <3>1, Zenon
  <2>. HIDE DEF N
  <2>6. MembersOK(R, N)
    <3>1. R.kind = "rollout" /\ R.state = "canary" /\ R.canary = c /\ R.batch = 0 /\ ~Shown(R)
      BY <1>1, <1>8 DEF Shown
    <3>2. \A t \in Fleet : N[t].state \in {"none", "pending"} /\ (N[t].state # "none" => t = c)
      BY <1>5, <2>3, <2>4
    <3>3. \A t \in Fleet : N[t].batch \in Nat
      BY <2>4 DEF MemberRecords
    <3>4. \A t \in Fleet : ~(N[t].batch < 0)
      BY <3>3
    <3>. QED BY <2>3, <2>4, <3>1, <3>2, <3>4 DEF MembersOK
  <2>. QED BY <1>1, <1>2, <1>3, <1>6, <2>4, <2>5, <2>6, InsertedInOrder
<1>. QED BY <1>7, <1>8

LEMMA RollbackInOrder ==
    ASSUME CanaryInv, OrderInv, StartsRollback
    PROVE  OrderInv'
<1>1. UNCHANGED <<member, roller>> /\ Target # 0
  BY DEF StartsRollback
<1>2. desk \in DeskRecords /\ DeskOK(desk, releases, proven) /\ Target \in AllVersions
  <2>1. desk \in DeskRecords /\ DeskOK(desk, releases, proven)
    BY DEF CanaryInv, StateOK
  <2>. QED BY <1>1, <2>1, TargetIsGood DEF DeskOK
<1>3. PICK R : /\ R = [kind |-> "rollback", version |-> Target,
                       from |-> IF ReplacesRollout THEN releases[desk.rel].version ELSE desk.live,
                       canary |-> NoTenant, ran |-> FALSE, state |-> "rolling", batch |-> 1,
                       lease |-> NoRoller, over |-> FALSE]
               /\ Inserts(R) /\ ThenPoints(Len(releases'))
  BY DEF StartsRollback
<1>4. R \in Records /\ R.lease = NoRoller
  <2>1. (IF ReplacesRollout THEN releases[desk.rel].version ELSE desk.live) \in AllVersions
    <3>1. CASE ReplacesRollout
      <4>1. desk.rel \in DOMAIN releases
        BY <1>2, <3>1 DEF DeskOK, ReplacesRollout
      <4>2. releases[desk.rel] \in Records
        BY <4>1, RowsAreReleases
      <4>. QED BY <3>1, <4>2 DEF Records
    <3>2. CASE ~ReplacesRollout
      BY <1>2, <3>2 DEF DeskRecords
    <3>. QED BY <3>1, <3>2
  <2>. QED BY <1>2, <1>3, <2>1 DEF Records, Active
<1>5. Len(releases') = Len(releases) + 1 /\ Len(releases) < MaxReleases
  BY <1>3, <1>4, InsertsOne
<1>. DEFINE n == Len(releases) + 1
            M == member[n]
<1>6. /\ n \in ReleaseIds /\ M \in [Fleet -> MemberRecords] /\ (\A t \in Fleet : M[t].state = "none")
      /\ member \in [ReleaseIds -> [Fleet -> MemberRecords]]
  BY <1>5, NewMembers, RowsAreReleases
<1>7. desk'.pc = "point"
  BY <1>2, <1>3 DEF ThenPoints, DeskRecords
<1>8. MembersOK(R, M)
  BY <1>3, <1>6 DEF MembersOK, Shown, Open
<1>9. member' = [member EXCEPT ![Len(releases')] = M]
  BY <1>1, <1>5, <1>6
<1>. HIDE DEF M
<1>. QED BY <1>1, <1>3, <1>4, <1>6, <1>7, <1>8, <1>9, InsertedInOrder

-----------------------------------------------------------------------------

LEMMA OrderAtStart ==
    ASSUME ReleaseInit
    PROVE  OrderInv
<1>1. /\ releases = <<>> /\ DOMAIN releases = {} /\ Len(releases) = 0
      /\ member = [i \in ReleaseIds |-> [t \in Fleet |-> Absent]]
      /\ desk = NoRequest /\ \A r \in Rollers : roller[r].pc = "idle"
  BY DEF ReleaseInit, Off
<1>2. Absent \in MemberRecords /\ Absent.state = "none"
  BY ReleaseConstants DEF Absent, MemberRecords
<1>3. member \in [ReleaseIds -> [Fleet -> MemberRecords]] /\ \A i \in ReleaseIds : \A t \in Fleet : member[i][t].state = "none"
  BY <1>1, <1>2
<1>4. \A r \in Rollers : (roller[r].pc \in TenantSteps => roller[r].tenant \in Fleet) /\ HoldOK(r, roller[r], releases, member)
  BY <1>1 DEF HoldOK, OffWork, TenantSteps
<1>5. WaitsOK(desk, releases)
  BY <1>1, NobodyWaits
<1>. QED BY <1>1, <1>3, <1>4, <1>5, ReleaseConstants DEF OrderInv

LEMMA StepKeepsBatches ==
    ASSUME CanaryInv, OrderInv, [ReleaseNext]_releaseVars
    PROVE  OrderInv'
<1>1. CASE UNCHANGED <<releases, member, roller, desk>>
  BY <1>1 DEF OrderInv
<1>2. ASSUME NEW r \in Rollers, TakesRelease(r) \/ RollerStep(r) \/ RunThrows(r)
      PROVE  OrderInv'
  <2>1. CASE TakesRelease(r)
    BY <2>1, TakeInOrder
  <2>2. CASE \/ Begins(r) \/ Uploads(r) \/ RecordsVersion(r) \/ HealthAnswers(r) \/ CallsScheduler(r)
             \/ PointsAtProven(r) \/ RepairsPointer(r)
    BY <2>2, RunStepsQuietly
  <2>3. CASE Turn(r)
    BY <2>3, TurnInOrder
  <2>4. CASE LooksAtTenant(r) \/ UploadFails(r) \/ MarksUploaded(r) \/ WritesHealth(r)
    BY <2>4, TenantStepsInOrder
  <2>5. CASE CanaryIsBusy(r)
    BY <2>5, BusyInOrder
  <2>6. CASE NotesBatch(r) \/ CanaryRan(r) \/ FinishesRelease(r)
    BY <2>6, ReleaseStepsInOrder
  <2>7. CASE ChoosesBatch(r) \/ LooksBack(r)
    BY <2>7, ChooseInOrder, LookBackInOrder
  <2>8. CASE EndsRun(r) \/ RunThrows(r)
    BY <2>8, EndsInOrder, RunThrowsInOrder
  <2>. QED BY <1>2, <2>1, <2>2, <2>3, <2>4, <2>5, <2>6, <2>7, <2>8 DEF RollerStep
<1>3. CASE \E i \in DOMAIN releases : LeaseRunsOut(i)
  BY <1>3, LeaseOutInOrder
<1>4. CASE TakesRequest
  BY <1>4, RequestInOrder
<1>5. CASE DeskStep
  BY <1>5, RolloutInOrder, RollbackInOrder, ChangeInOrder, AnswersInOrder DEF DeskStep
<1>6. CASE FleetStep
  <2>1. UNCHANGED <<releases, member, roller, desk>>
    BY <1>6 DEF FleetStep, SignsUp, GetsReady, IsRemoved
  <2>. QED BY <1>1, <2>1
<1>. QED BY <1>1, <1>2, <1>3, <1>4, <1>5, <1>6 DEF ReleaseNext, releaseVars

(* In every state no tenant of a rollout is ahead of the batch its row says, *)
(* one that is behind it was put back as often as is allowed, and a run that *)
(* holds its lease finds what its step relies on: however many runs died or  *)
(* stalled on the way, and whatever the owner asked for meanwhile.           *)
THEOREM OrderInvariant == ReleaseSpec => []OrderInv
<1>1. CanaryInv /\ OrderInv /\ [ReleaseNext]_releaseVars => OrderInv'
  BY StepKeepsBatches
<1>2. ReleaseInit => OrderInv
  BY OrderAtStart
<1>. QED BY <1>1, <1>2, CanaryInvariant, PTL DEF ReleaseSpec

(* No tenant of a rollout is touched while one of a batch before it is open  *)
(* or failed, but for one that was put back as often as is allowed.          *)
THEOREM BatchesFollowInOrder == ReleaseSpec => []BatchesInOrder
<1>1. CanaryInv /\ OrderInv => BatchesInOrder
  <2>. SUFFICES ASSUME CanaryInv, OrderInv, NEW i \in DOMAIN releases, releases[i].kind = "rollout", NEW t \in Fleet, NEW u \in Fleet,
                       member[i][u].state \in {"uploaded", "healthy"},
                       member[i][t].state \in Open \cup {"failed"}, member[i][t].batch < member[i][u].batch
                PROVE  member[i][t].requeues = MaxRequeues
    BY DEF BatchesInOrder
  <2>1. MembersOK(releases[i], member[i]) /\ releases[i] \in Records /\ member[i] \in [Fleet -> MemberRecords]
    BY RowsAreReleases
  <2>2. member[i][t].batch \in Nat /\ member[i][u].batch \in Nat /\ releases[i].batch \in Nat
    BY <2>1 DEF Records, MemberRecords
  <2>3. member[i][u].batch <= releases[i].batch
    BY <2>1 DEF MembersOK
  <2>4. member[i][t].batch < releases[i].batch
    BY <2>2, <2>3
  <2>. QED BY <2>1, <2>4 DEF MembersOK
<1>. QED BY <1>1, CanaryInvariant, OrderInvariant, PTL
-----------------------------------------------------------------------------
(* Shipping: the invariant.                                                 *)

\* One release is active, and a handler that starts another read which.
OneActive ==
    /\ \A i, j \in ActiveIds : i = j
    /\ desk.pc \in {"rollout", "rollback"} => ActiveIds \subseteq {desk.rel}

\* Once nobody is left to choose, a ready tenant that is not on the version is one
\* of the release; once nobody strayed, not a healthy one.
LookedOK(me) ==
    me.pc \in {"back", "repair", "finish"} =>
        \A t \in Ready \ moved : fleet[t].row # releases[me.rel].version =>
            member[me.rel][t].state # "none" /\ (me.pc # "back" => member[me.rel][t].state # "healthy")
HeldBy(s, me, rows) == rows[me.rel].lease = s /\ rows[me.rel].state \in Running

\* What a tenant runs and its row does not say came from an upload without a record.
Uploaded(v, rows) == \E i \in DOMAIN rows : rows[i].version = v
ScriptSays(t) ==
    fleet[t].stage = "gone" \/ fleet[t].script = fleet[t].row
    \/ \E i \in DOMAIN releases : releases[i].version = fleet[t].script /\ <<i, t>> \in unrecorded

RecordOK(me, tenants, rows) ==
    me.pc \in {"upload", "record"} =>
        /\ tenants[me.tenant].stage \in {"ready", "gone"}
        /\ me.pc = "record" => Uploaded(tenants[me.tenant].script, rows)

ShipInv ==
    /\ OneActive
    /\ \A t \in Fleet : ScriptSays(t)
    /\ \A r \in Rollers : RecordOK(roller[r], fleet, releases) /\ (HeldBy(r, roller[r], releases) => LookedOK(roller[r]))

-----------------------------------------------------------------------------
(* Shipping: what the others see of a step.                                 *)

VersionsStay == \A i \in DOMAIN releases : i \in DOMAIN releases' /\ releases'[i].version = releases[i].version
OthersSee(S) ==
    \A s \in S :
        /\ roller'[s] = roller[s]
        /\ roller[s].pc \notin OffWork /\ HeldBy(s, roller[s], releases') =>
              HeldBy(s, roller[s], releases) /\ member'[roller[s].rel] = member[roller[s].rel]
FewerActive == ActiveIds' \subseteq ActiveIds

LEMMA OnlyOneHolds ==
    ASSUME CanaryInv, ShipInv, NEW r \in Rollers, NEW s \in Rollers, r # s,
           roller[r].pc # "idle", roller[s].pc # "idle", HeldBy(r, roller[r], releases)
    PROVE  ~HeldBy(s, roller[s], releases)
<1>1. Rel(r) \in DOMAIN releases /\ Rel(s) \in DOMAIN releases
  BY ReleaseAtHand
<1>2. \A i \in DOMAIN releases : releases[i].state \in Running => i \in ActiveIds
  BY DEF ActiveIds, Active, Running
<1>. QED BY <1>1, <1>2 DEF HeldBy, ShipInv, OneActive, Rel

\* A run writes its release and its tenants only while it has the lease.
WritesOwn(r) ==
    /\ \/ releases' = releases
       \/ \E Q : /\ releases' = [releases EXCEPT ![Rel(r)] = Q] /\ releases[Rel(r)].lease = r
                 /\ Q.version = Ver(r) /\ Q.lease \in {r, NoRoller}
                 /\ Q.state \in Active => releases[Rel(r)].state \in Active
    /\ \/ member' = member
       \/ \E N : member' = [member EXCEPT ![Rel(r)] = N] /\ releases[Rel(r)].lease = r

LEMMA RunIsSeen ==
    ASSUME CanaryInv, OrderInv, NEW r \in Rollers, roller[r].pc # "idle", WritesOwn(r),
           NEW me, roller' = [roller EXCEPT ![r] = me]
    PROVE  VersionsStay /\ OthersSee(Rollers \ {r}) /\ FewerActive
<1>1. /\ DOMAIN releases \subseteq ReleaseIds /\ releases \in Seq(Records) /\ roller \in [Rollers -> RollerRecords]
      /\ member \in [ReleaseIds -> [Fleet -> MemberRecords]] /\ Rel(r) \in DOMAIN releases
  BY RowsAreReleases, ReleaseAtHand
<1>2. /\ DOMAIN releases' = DOMAIN releases
      /\ \A i \in DOMAIN releases \ {Rel(r)} : releases'[i] = releases[i]
      /\ releases'[Rel(r)].version = Ver(r)
      /\ releases'[Rel(r)].state \in Active => releases[Rel(r)].state \in Active
      /\ \/ releases' = releases
         \/ releases[Rel(r)].lease = r /\ releases'[Rel(r)].lease \in {r, NoRoller}
  BY <1>1 DEF WritesOwn, Ver
<1>3. /\ \A i \in ReleaseIds \ {Rel(r)} : member'[i] = member[i]
      /\ member' = member \/ releases[Rel(r)].lease = r
  BY <1>1 DEF WritesOwn
<1>4. VersionsStay /\ FewerActive
  BY <1>1, <1>2 DEF VersionsStay, FewerActive, ActiveIds, Ver
<1>5. ASSUME NEW s \in Rollers \ {r}
      PROVE  /\ roller'[s] = roller[s]
             /\ roller[s].pc \notin OffWork /\ HeldBy(s, roller[s], releases') =>
                   HeldBy(s, roller[s], releases) /\ member'[roller[s].rel] = member[roller[s].rel]
  <2>1. roller'[s] = roller[s]
    BY <1>1
  <2>2. ASSUME roller[s].pc \notin OffWork, HeldBy(s, roller[s], releases')
        PROVE  HeldBy(s, roller[s], releases) /\ member'[roller[s].rel] = member[roller[s].rel]
    <3>1. roller[s].rel \in DOMAIN releases /\ roller[s].rel \in ReleaseIds
      <4>1. Rel(s) \in DOMAIN releases
        BY <2>2, ReleaseAtHand DEF OffWork
      <4>. QED BY <1>1, <4>1 DEF Rel
    <3>2. CASE roller[s].rel = Rel(r)
      <4>1. releases' = releases
        BY <1>2, <2>2, <3>2, ReleaseConstants DEF HeldBy
      <4>2. releases[Rel(r)].lease = s
        BY <2>2, <3>2, <4>1 DEF HeldBy
      <4>. QED BY <1>3, <2>2, <4>1, <4>2
    <3>3. CASE roller[s].rel # Rel(r)
      BY <1>2, <1>3, <2>2, <3>1, <3>3 DEF HeldBy
    <3>. QED BY <3>2, <3>3
  <2>. QED BY <2>1, <2>2
<1>. QED BY <1>4, <1>5 DEF OthersSee

LEMMA QuietlySeen ==
    ASSUME UNCHANGED <<releases, member>>, NEW S, \A s \in S : roller'[s] = roller[s]
    PROVE  VersionsStay /\ OthersSee(S) /\ FewerActive
BY DEF VersionsStay, OthersSee, FewerActive, ActiveIds, HeldBy

LEMMA OwnTenant ==
    ASSUME NEW r, NEW t, NEW rec, SetsMember(r, t, rec)
    PROVE  member' = member \/ \E N : member' = [member EXCEPT ![Rel(r)] = N] /\ releases[Rel(r)].lease = r
<1>1. CASE Has(r)
  <2>1. member' = [member EXCEPT ![Rel(r)][t] = rec]
    BY <1>1 DEF SetsMember
  <2>2. member' = [member EXCEPT ![Rel(r)] = [member[Rel(r)] EXCEPT ![t] = rec]]
    BY <2>1, Zenon
  <2>3. \E N : member' = [member EXCEPT ![Rel(r)] = N]
    BY <2>2
  <2>. QED BY <1>1, <2>3 DEF Has
<1>2. CASE ~Has(r)
  BY <1>2 DEF SetsMember
<1>. QED BY <1>1, <1>2

LEMMA RunStepIsSeen ==
    ASSUME CanaryInv, OrderInv, NEW r \in Rollers, RollerStep(r) \/ RunThrows(r)
    PROVE  /\ roller[r].pc # "idle" /\ UNCHANGED desk
           /\ VersionsStay /\ OthersSee(Rollers \ {r}) /\ FewerActive
<1>1. roller[r].pc # "idle" /\ UNCHANGED desk
  BY DEF RollerStep, Begins, Turn, LooksAtTenant, Uploads, UploadFails, RecordsVersion, MarksUploaded, HealthAnswers,
         WritesHealth, CallsScheduler, CanaryIsBusy, PointsAtProven, CanaryRan, ChoosesBatch, NotesBatch, LooksBack,
         RepairsPointer, FinishesRelease, EndsRun, RunThrows, RollerAt
<1>2. \E me : roller' = [roller EXCEPT ![r] = me]
  <2>1. \/ \E pc : Moves(r, pc)
        \/ Quits(r)
        \/ \E t : WorksOn(r, t)
    BY DEF RollerStep, Begins, Turn, LooksAtTenant, Uploads, UploadFails, RecordsVersion, MarksUploaded, HealthAnswers,
           WritesHealth, CallsScheduler, CanaryIsBusy, PointsAtProven, CanaryRan, ChoosesBatch, NotesBatch, LooksBack,
           RepairsPointer, FinishesRelease, EndsRun, RunThrows, StepDone, NotesIt, CanaryTurn, RollingTurn
  <2>2. ASSUME NEW pc, Moves(r, pc)
        PROVE  roller' = [roller EXCEPT ![r] = [roller[r] EXCEPT !.pc = pc]]
    BY <2>2 DEF Moves
  <2>3. ASSUME NEW t, WorksOn(r, t)
        PROVE  roller' = [roller EXCEPT ![r] = [[roller[r] EXCEPT !.pc = "look"] EXCEPT !.tenant = t]]
    <3>1. roller \in [Rollers -> RollerRecords]
      BY DEF CanaryInv, StateOK
    <3>. QED BY <2>3, <3>1 DEF WorksOn
  <2>. QED BY <2>1, <2>2, <2>3 DEF Quits
<1>3. /\ Rel(r) \in DOMAIN releases /\ releases[Rel(r)] \in Records /\ releases \in Seq(Records)
      /\ member \in [ReleaseIds -> [Fleet -> MemberRecords]]
  BY <1>1, WorkAtHand, RowsAreReleases
<1>4. \/ releases' = releases
      \/ \E Q : /\ releases' = [releases EXCEPT ![Rel(r)] = Q] /\ releases[Rel(r)].lease = r
                /\ Q.version = Ver(r) /\ Q.lease \in {r, NoRoller}
                /\ Q.state \in Active => releases[Rel(r)].state \in Active
  <2>1. CASE Turn(r)
    <3>1. PICK Q : Q = [releases[Rel(r)] EXCEPT !.over = FALSE]
      OBVIOUS
    <3>2. Q.version = Ver(r) /\ Q.lease = releases[Rel(r)].lease /\ Q.state = releases[Rel(r)].state
      BY <1>3, <3>1 DEF Records, Ver
    <3>3. \/ releases' = releases
          \/ releases' = [releases EXCEPT ![Rel(r)] = Q] /\ releases[Rel(r)].lease = r
      BY <2>1, <3>1 DEF Turn, Renews
    <3>. QED BY <3>2, <3>3
  <2>2. CASE EndsRun(r)
    <3>1. PICK Q : Q = [releases[Rel(r)] EXCEPT !.lease = NoRoller]
      OBVIOUS
    <3>2. Q.version = Ver(r) /\ Q.lease = NoRoller /\ Q.state = releases[Rel(r)].state
      BY <1>3, <3>1 DEF Records, Ver
    <3>3. \/ releases' = releases
          \/ releases' = [releases EXCEPT ![Rel(r)] = Q] /\ releases[Rel(r)].lease = r
      BY <2>2, <3>1 DEF EndsRun
    <3>. QED BY <3>2, <3>3
  <2>3. CASE CanaryRan(r) \/ NotesBatch(r) \/ FinishesRelease(r)
    <3>1. PICK Q : /\ SetsRelease(r, Q)
                   /\ \/ Q = [releases[Rel(r)] EXCEPT !.state = "rolling", !.ran = TRUE, !.batch = 1]
                      \/ Q = [releases[Rel(r)] EXCEPT !.batch = @ + 1]
                      \/ Q = [releases[Rel(r)] EXCEPT !.state = "done"]
                      \/ Q = [releases[Rel(r)] EXCEPT !.state = "paused"]
      BY <2>3 DEF CanaryRan, NotesBatch, FinishesRelease
    <3>2. Q.version = Ver(r) /\ Q.lease = releases[Rel(r)].lease
      BY <1>3, <3>1 DEF Records, Ver
    <3>3. releases' = releases \/ (releases' = [releases EXCEPT ![Rel(r)] = Q] /\ Has(r))
      BY <3>1 DEF SetsRelease
    <3>. QED BY <3>2, <3>3 DEF Has, Active
  <2>4. CASE ~(Turn(r) \/ EndsRun(r) \/ CanaryRan(r) \/ NotesBatch(r) \/ FinishesRelease(r))
    BY <2>4 DEF RollerStep, Begins, LooksAtTenant, Uploads, UploadFails, RecordsVersion, MarksUploaded, HealthAnswers,
           WritesHealth, CallsScheduler, CanaryIsBusy, PointsAtProven, ChoosesBatch, LooksBack, RepairsPointer, RunThrows
  <2>. QED BY <2>1, <2>2, <2>3, <2>4
<1>5. member' = member \/ \E N : member' = [member EXCEPT ![Rel(r)] = N] /\ releases[Rel(r)].lease = r
  <2>1. CASE \E t, rec : SetsMember(r, t, rec)
    BY <2>1, OwnTenant
  <2>2. CASE ChoosesBatch(r)
    BY <2>2 DEF ChoosesBatch
  <2>3. CASE LooksBack(r)
    BY <2>3 DEF LooksBack, Has
  <2>4. CASE UNCHANGED member
    BY <2>4
  <2>5. CASE LooksAtTenant(r) \/ UploadFails(r) \/ MarksUploaded(r) \/ WritesHealth(r) \/ CanaryIsBusy(r)
    <3>1. UNCHANGED member \/ \E t, rec : SetsMember(r, t, rec)
      BY <2>5 DEF LooksAtTenant, UploadFails, MarksUploaded, WritesHealth, CanaryIsBusy
    <3>. QED BY <2>1, <2>4, <3>1
  <2>. QED BY <2>2, <2>3, <2>4, <2>5
         DEF RollerStep, Begins, Turn, Uploads, RecordsVersion, HealthAnswers, CallsScheduler, PointsAtProven, CanaryRan,
             NotesBatch, RepairsPointer, FinishesRelease, EndsRun, RunThrows
<1>6. WritesOwn(r)
  BY <1>4, <1>5 DEF WritesOwn
<1>. QED BY <1>1, <1>2, <1>6, RunIsSeen

LEMMA RowIsSeen ==
    ASSUME CanaryInv, OrderInv, NEW i \in DOMAIN releases, NEW Q, releases' = [releases EXCEPT ![i] = Q],
           NEW N, member' = [member EXCEPT ![i] = N], NEW S \in SUBSET Rollers, \A s \in S : roller'[s] = roller[s],
           Q.version = releases[i].version, Q.state \in Active => releases[i].state \in Active,
           \A s \in S : \/ Q.lease # s
                        \/ N = member[i] /\ Alike(releases[i], Q)
                        \/ releases[i].state \notin Running /\ Q.lease = releases[i].lease
    PROVE  VersionsStay /\ OthersSee(S) /\ FewerActive
<1>1. /\ DOMAIN releases \subseteq ReleaseIds /\ releases \in Seq(Records)
      /\ member \in [ReleaseIds -> [Fleet -> MemberRecords]]
  BY RowsAreReleases
<1>2. /\ DOMAIN releases' = DOMAIN releases /\ releases'[i] = Q
      /\ \A j \in DOMAIN releases \ {i} : releases'[j] = releases[j]
      /\ member'[i] = N /\ \A j \in ReleaseIds \ {i} : member'[j] = member[j]
  BY <1>1
<1>3. VersionsStay /\ FewerActive
  BY <1>2 DEF VersionsStay, FewerActive, ActiveIds
<1>4. ASSUME NEW s \in S, roller[s].pc \notin OffWork, HeldBy(s, roller[s], releases')
      PROVE  HeldBy(s, roller[s], releases) /\ member'[roller[s].rel] = member[roller[s].rel]
  <2>1. roller[s].rel \in DOMAIN releases
    BY <1>4, ReleaseAtHand DEF OffWork, Rel
  <2>2. CASE roller[s].rel # i
    BY <1>1, <1>2, <1>4, <2>1, <2>2 DEF HeldBy
  <2>3. CASE roller[s].rel = i
    <3>1. Q.lease = s /\ Q.state \in Running
      BY <1>2, <1>4, <2>3 DEF HeldBy
    <3>2. HoldOK(s, roller[s], releases, member)
      BY DEF OrderInv
    <3>3. N = member[i] /\ Alike(releases[i], Q)
      BY <1>4, <2>3, <3>1, <3>2 DEF HoldOK
    <3>. QED BY <1>2, <2>3, <3>1, <3>3 DEF HeldBy, Alike
  <2>. QED BY <2>2, <2>3
<1>. QED BY <1>3, <1>4 DEF OthersSee

LEMMA TakeIsSeen ==
    ASSUME CanaryInv, OrderInv, NEW r \in Rollers, TakesRelease(r)
    PROVE  VersionsStay /\ OthersSee(Rollers \ {r}) /\ FewerActive /\ roller'[r].pc = "begin"
<1>1. PICK i \in RunningId :
        /\ releases' = [releases EXCEPT ![i].lease = r, ![i].over = FALSE]
        /\ roller' = [roller EXCEPT ![r] = [pc |-> "begin", rel |-> i, tenant |-> NoTenant]]
  BY DEF TakesRelease
<1>2. i \in DOMAIN releases
  BY DEF RunningId, ActiveIds
<1>3. /\ i \in ReleaseIds /\ releases \in Seq(Records) /\ roller \in [Rollers -> RollerRecords]
      /\ member \in [ReleaseIds -> [Fleet -> MemberRecords]] /\ releases[i] \in Records
  BY <1>2, RowsAreReleases
<1>4. PICK Q : Q = [releases[i] EXCEPT !.lease = r, !.over = FALSE]
  OBVIOUS
<1>5. Q.lease = r /\ Q.state = releases[i].state /\ Q.version = releases[i].version
  BY <1>3, <1>4 DEF Records
<1>6. releases' = [releases EXCEPT ![i] = Q]
  BY <1>1, <1>2, <1>3, <1>4
<1>7. member' = [member EXCEPT ![i] = member[i]]
  BY <1>3 DEF TakesRelease
<1>8. roller'[r].pc = "begin" /\ \A s \in Rollers \ {r} : roller'[s] = roller[s]
  BY <1>1, <1>3
<1>9. VersionsStay /\ OthersSee(Rollers \ {r}) /\ FewerActive
  <2>. DEFINE S == Rollers \ {r}
  <2>1. S \in SUBSET Rollers /\ (\A s \in S : Q.lease # s) /\ \A s \in S : roller'[s] = roller[s]
    BY <1>5, <1>8
  <2>. HIDE DEF S
  <2>2. VersionsStay /\ OthersSee(S) /\ FewerActive
    <3>1. PICK N : N = member[i]
      OBVIOUS
    <3>2. \A s \in S : \/ Q.lease # s
                       \/ N = member[i] /\ Alike(releases[i], Q)
                       \/ releases[i].state \notin Running /\ Q.lease = releases[i].lease
      BY <2>1
    <3>3. Q.state \in Active => releases[i].state \in Active
      BY <1>5
    <3>4. member' = [member EXCEPT ![i] = N]
      BY <1>7, <3>1
    <3>. QED BY <1>2, <1>5, <1>6, <2>1, <3>2, <3>3, <3>4, RowIsSeen
  <2>. QED BY <2>2 DEF S
<1>. QED BY <1>8, <1>9

LEMMA LeaseOutIsSeen ==
    ASSUME CanaryInv, OrderInv, NEW i \in DOMAIN releases, LeaseRunsOut(i)
    PROVE  VersionsStay /\ OthersSee(Rollers) /\ FewerActive
<1>1. /\ i \in ReleaseIds /\ releases \in Seq(Records)
      /\ member \in [ReleaseIds -> [Fleet -> MemberRecords]] /\ releases[i] \in Records
  BY RowsAreReleases
<1>2. PICK Q : Q = [releases[i] EXCEPT !.over = TRUE]
  OBVIOUS
<1>3. Alike(releases[i], Q) /\ Q.version = releases[i].version /\ Q.state = releases[i].state
  BY <1>1, <1>2 DEF Alike, Records
<1>4. /\ releases' = [releases EXCEPT ![i] = Q] /\ member' = [member EXCEPT ![i] = member[i]]
      /\ roller' = roller
  BY <1>1, <1>2 DEF LeaseRunsOut
<1>. QED BY <1>3, <1>4, RowIsSeen

LEMMA ChangeIsSeen ==
    ASSUME CanaryInv, OrderInv, ChangesActive
    PROVE  VersionsStay /\ OthersSee(Rollers) /\ FewerActive
<1>. DEFINE i == desk.rel
            R == releases[desk.rel]
<1>1. i # 0 /\ roller' = roller /\ desk \in DeskRecords
  BY DEF ChangesActive, CanaryInv, StateOK
<1>2. i \in DOMAIN releases
  BY <1>1 DEF CanaryInv, DeskOK
<1>3. /\ i \in ReleaseIds /\ releases \in Seq(Records)
      /\ member \in [ReleaseIds -> [Fleet -> MemberRecords]] /\ R \in Records
  BY <1>2, RowsAreReleases
<1>4. PICK state \in Active \cup {"cancelled"} :
        /\ ChangesTo(i, state)
        /\ \/ state \in {"paused", "cancelled"} /\ UNCHANGED member
           \/ /\ R.state \notin Running /\ state \in Running
              /\ FailedBecome(i, "pending") \/ FailedBecome(i, "skipped")
  <2>1. desk.pc \in {"resume", "skip_failed"} /\ desk.state = "paused" => R.state \notin Running
    BY <1>1 DEF OrderInv, WaitsOK
  <2>2. ResumeState(i) \in Running /\ ResumeState(i) \in Active
    BY DEF ResumeState, Running, Active
  <2>. QED BY <2>1, <2>2 DEF ChangesActive, Active
<1>5. PICK N : member' = [member EXCEPT ![i] = N] /\ (UNCHANGED member => N = member[i])
  <2>1. CASE UNCHANGED member
    BY <1>3, <2>1
  <2>2. CASE ~UNCHANGED member
    <3>1. \E N : member' = [member EXCEPT ![i] = N]
      BY <1>4, <2>2 DEF FailedBecome
    <3>. QED BY <2>2, <3>1
  <2>. QED BY <2>1, <2>2
<1>6. PICK Q : /\ releases' = [releases EXCEPT ![i] = Q] /\ Q.version = R.version
               /\ Q.state \in Active => R.state \in Active
               /\ \/ Q = R
                  \/ Q.lease = NoRoller
                  \/ state \in Running /\ Q.lease = R.lease
  <2>1. CASE releases' = releases
    BY <1>3, <2>1
  <2>2. CASE R.state = desk.state /\ state \in {"canary", "rolling"} /\ releases' = [releases EXCEPT ![i].state = state]
    <3>1. PICK Q : Q = [R EXCEPT !.state = state]
      OBVIOUS
    <3>2. Q.version = R.version /\ Q.lease = R.lease /\ R.state \in Active
      BY <1>1, <1>3, <2>2, <3>1 DEF Records, DeskRecords, Active
    <3>3. releases' = [releases EXCEPT ![i] = Q]
      BY <2>2, <3>1
    <3>. QED BY <2>2, <3>2, <3>3 DEF Running
  <2>3. CASE R.state = desk.state /\ releases' = [releases EXCEPT ![i].state = state, ![i].lease = NoRoller, ![i].over = FALSE]
    <3>1. PICK Q : Q = [R EXCEPT !.state = state, !.lease = NoRoller, !.over = FALSE]
      OBVIOUS
    <3>2. Q.version = R.version /\ Q.lease = NoRoller /\ R.state \in Active
      BY <1>1, <1>3, <2>3, <3>1 DEF Records, DeskRecords, Active
    <3>3. releases' = [releases EXCEPT ![i] = Q]
      BY <1>2, <1>3, <2>3, <3>1
    <3>. QED BY <3>2, <3>3
  <2>. QED BY <1>4, <2>1, <2>2, <2>3 DEF ChangesTo
<1>7. \A s \in Rollers : \/ Q.lease # s
                         \/ N = member[i] /\ Alike(releases[i], Q)
                         \/ releases[i].state \notin Running /\ Q.lease = releases[i].lease
  <2>1. R.state \notin Running \/ (UNCHANGED member /\ state \notin Running)
    BY <1>4 DEF Running
  <2>2. Q.lease = NoRoller \/ Q = R \/ (R.state \notin Running /\ Q.lease = R.lease)
    BY <1>6, <2>1
  <2>3. Q = R => \/ N = member[i] /\ Alike(R, Q)
                 \/ R.state \notin Running /\ Q.lease = R.lease
    BY <1>5, <2>1 DEF Alike
  <2>. QED BY <2>2, <2>3, ReleaseConstants
<1>. HIDE DEF i
<1>. QED BY <1>1, <1>2, <1>5, <1>6, <1>7, RowIsSeen DEF i

LEMMA InsertIsSeen ==
    ASSUME CanaryInv, OrderInv, NEW R \in Records, Inserts(R), roller' = roller,
           \A i \in DOMAIN releases : member'[i] = member[i]
    PROVE  /\ VersionsStay /\ OthersSee(Rollers)
           /\ ActiveIds' \subseteq (ActiveIds \ {desk.rel}) \cup {Len(releases')}
<1>. DEFINE n == Len(releases)
<1>1. /\ n \in Nat /\ DOMAIN releases = 1 .. n
      /\ DOMAIN releases' = 1 .. n + 1 /\ Len(releases') = n + 1
      /\ \A i \in 1 .. n :
           \/ releases'[i] = releases[i] /\ ~(i = desk.rel /\ releases[i].state \in Active)
           \/ /\ releases'[i].state = "cancelled" /\ releases'[i].lease = NoRoller
              /\ releases'[i].version = releases[i].version
  BY RowsInserted
<1>. HIDE DEF n
<1>2. VersionsStay
  BY <1>1 DEF VersionsStay
<1>3. ActiveIds' \subseteq (ActiveIds \ {desk.rel}) \cup {Len(releases')}
  <2>. SUFFICES ASSUME NEW i \in ActiveIds', i # n + 1
                PROVE  i \in ActiveIds /\ i # desk.rel
    BY <1>1
  <2>1. i \in 1 .. n /\ releases'[i].state \in Active
    BY <1>1 DEF ActiveIds
  <2>2. releases'[i] = releases[i] /\ ~(i = desk.rel /\ releases[i].state \in Active)
    BY <1>1, <2>1 DEF Active
  <2>. QED BY <1>1, <2>1, <2>2 DEF ActiveIds
<1>4. OthersSee(Rollers)
  <2>. SUFFICES ASSUME NEW s \in Rollers, roller[s].pc \notin OffWork, HeldBy(s, roller[s], releases')
                PROVE  HeldBy(s, roller[s], releases) /\ member'[roller[s].rel] = member[roller[s].rel]
    BY DEF OthersSee
  <2>1. roller[s].rel \in 1 .. n
    BY <1>1, ReleaseAtHand DEF OffWork, Rel
  <2>2. releases'[roller[s].rel] = releases[roller[s].rel]
    BY <1>1, <2>1, ReleaseConstants DEF HeldBy
  <2>. QED BY <1>1, <2>1, <2>2 DEF HeldBy
<1>. QED BY <1>2, <1>3, <1>4

-----------------------------------------------------------------------------
(* Shipping: one release is active.                                         *)

LEMMA StillOneActive ==
    ASSUME ShipInv, FewerActive, desk' = desk \/ desk'.pc \notin {"rollout", "rollback"}
    PROVE  OneActive'
BY DEF ShipInv, OneActive, FewerActive

LEMMA RequestSeesActive ==
    ASSUME CanaryInv, ShipInv, TakesRequest
    PROVE  OneActive'
<1>1. releases' = releases /\ desk'.rel = ActiveId
  BY DEF TakesRequest
<1>2. Len(releases) \in Nat /\ DOMAIN releases = 1 .. Len(releases)
  BY LenProperties DEF CanaryInv, StateOK
<1>3. ActiveIds \subseteq 1 .. Len(releases)
  BY <1>2 DEF ActiveIds
<1>4. ActiveIds # {} => ActiveId \in ActiveIds
  BY <1>2, <1>3, MaxIsIn DEF ActiveId
<1>5. ActiveIds' = ActiveIds
  BY <1>1 DEF ActiveIds
<1>. QED BY <1>1, <1>4, <1>5 DEF ShipInv, OneActive

LEMMA InsertedIsActive ==
    ASSUME ShipInv, desk.pc \in {"rollout", "rollback"}, desk'.pc \notin {"rollout", "rollback"},
           ActiveIds' \subseteq (ActiveIds \ {desk.rel}) \cup {Len(releases')}
    PROVE  OneActive'
BY DEF ShipInv, OneActive

-----------------------------------------------------------------------------
(* Shipping: what a step has to show.                                       *)

\* Who is ready and what the rows say: nothing a run would have to look for.
NothingToLookFor ==
    \A t \in Ready' \ moved' : t \in Ready \ moved /\ fleet'[t].row = fleet[t].row
ScriptsGoOn ==
    \A t \in Fleet : /\ fleet[t].stage \in {"ready", "gone"} => fleet'[t].stage \in {"ready", "gone"}
                     /\ fleet[t].stage \in {"ready", "gone"} => fleet'[t].script = fleet[t].script \/ Uploaded(fleet'[t].script, releases')

LEMMA UploadedStays ==
    ASSUME VersionsStay, NEW v, Uploaded(v, releases)
    PROVE  Uploaded(v, releases')
BY DEF VersionsStay, Uploaded

LEMMA Ships ==
    ASSUME CanaryInv, OrderInv, ShipInv, OrderInv', NEW S \in SUBSET Rollers, VersionsStay, OthersSee(S), OneActive',
           NothingToLookFor \/ \A s \in S : ~HeldBy(s, roller[s], releases) \/ roller[s].pc \in OffWork,
           ScriptsGoOn, \A t \in Fleet : ScriptSays(t)',
           \A r \in Rollers \ S : RecordOK(roller'[r], fleet', releases') /\ (HeldBy(r, roller[r], releases)' => LookedOK(roller[r])')
    PROVE  ShipInv'
<1>1. ASSUME NEW s \in S
      PROVE  RecordOK(roller'[s], fleet', releases')
  <2>. DEFINE t == roller[s].tenant
  <2>1. SUFFICES ASSUME roller[s].pc \in {"upload", "record"}
                 PROVE  /\ fleet'[t].stage \in {"ready", "gone"}
                        /\ roller[s].pc = "record" => Uploaded(fleet'[t].script, releases')
    BY DEF RecordOK, OthersSee
  <2>2. /\ fleet[t].stage \in {"ready", "gone"}
        /\ roller[s].pc = "record" => Uploaded(fleet[t].script, releases)
    BY <2>1 DEF ShipInv, RecordOK
  <2>3. t \in Fleet
    BY <2>1 DEF OrderInv, TenantSteps
  <2>. HIDE DEF t
  <2>. QED BY <2>2, <2>3, UploadedStays DEF ScriptsGoOn
<1>2. ASSUME NEW s \in S, HeldBy(s, roller[s], releases)'
      PROVE  LookedOK(roller[s])'
  <2>. SUFFICES ASSUME roller[s].pc \in {"back", "repair", "finish"}, NEW t \in Ready' \ moved',
                       fleet'[t].row # releases'[roller[s].rel].version
                PROVE  /\ member'[roller[s].rel][t].state # "none"
                       /\ roller[s].pc # "back" => member'[roller[s].rel][t].state # "healthy"
    BY DEF LookedOK, OthersSee
  <2>1. roller'[s] = roller[s] /\ roller[s].pc \notin OffWork
    BY DEF OthersSee, OffWork
  <2>2. HeldBy(s, roller[s], releases) /\ member'[roller[s].rel] = member[roller[s].rel]
    BY <1>2, <2>1 DEF OthersSee, HeldBy
  <2>3. t \in Ready \ moved /\ fleet'[t].row = fleet[t].row
    BY <2>1, <2>2 DEF NothingToLookFor
  <2>4. roller[s].rel \in DOMAIN releases
    BY <2>1, ReleaseAtHand DEF OffWork, Rel
  <2>5. fleet[t].row # releases[roller[s].rel].version
    BY <2>3, <2>4 DEF VersionsStay
  <2>6. LookedOK(roller[s])
    BY <2>2 DEF ShipInv
  <2>. QED BY <2>2, <2>3, <2>5, <2>6 DEF LookedOK
<1>. QED BY <1>1, <1>2 DEF ShipInv

LEMMA FleetStays ==
    ASSUME ShipInv, VersionsStay, UNCHANGED <<fleet, unrecorded, moved>>
    PROVE  NothingToLookFor /\ ScriptsGoOn /\ \A t \in Fleet : ScriptSays(t)'
<1>1. NothingToLookFor /\ ScriptsGoOn
  BY DEF NothingToLookFor, ScriptsGoOn, Ready
<1>2. ASSUME NEW t \in Fleet
      PROVE  ScriptSays(t)'
  BY DEF ShipInv, ScriptSays, VersionsStay
<1>. QED BY <1>1, <1>2

\* A run's step, if what it leaves to its next one is in order.
LEMMA RunShips ==
    ASSUME CanaryInv, OrderInv, ShipInv, OrderInv', NEW r \in Rollers, RollerStep(r) \/ RunThrows(r),
           NothingToLookFor, ScriptsGoOn, \A t \in Fleet : ScriptSays(t)',
           RecordOK(roller'[r], fleet', releases'), HeldBy(r, roller[r], releases)' => LookedOK(roller[r])'
    PROVE  ShipInv'
<1>. DEFINE S == Rollers \ {r}
<1>1. UNCHANGED desk /\ VersionsStay /\ OthersSee(S) /\ FewerActive
  BY RunStepIsSeen
<1>2. OneActive'
  BY <1>1, StillOneActive
<1>3. /\ S \in SUBSET Rollers
      /\ \A s \in Rollers \ S : /\ RecordOK(roller'[s], fleet', releases')
                                /\ HeldBy(s, roller[s], releases)' => LookedOK(roller[s])'
  BY Zenon
<1>. HIDE DEF S
<1>. QED BY <1>1, <1>2, <1>3, Ships

LEMMA PlainRunShips ==
    ASSUME CanaryInv, OrderInv, ShipInv, OrderInv', NEW r \in Rollers, RollerStep(r) \/ RunThrows(r),
           UNCHANGED <<fleet, unrecorded, moved>>,
           roller'[r].pc \notin {"upload", "record", "back", "repair", "finish"}
    PROVE  ShipInv'
<1>1. VersionsStay
  BY RunStepIsSeen
<1>2. NothingToLookFor /\ ScriptsGoOn /\ \A t \in Fleet : ScriptSays(t)'
  BY <1>1, FleetStays
<1>3. RecordOK(roller'[r], fleet', releases') /\ LookedOK(roller[r])'
  BY DEF RecordOK, LookedOK
<1>. QED BY <1>2, <1>3, RunShips

LEMMA WhereItGoes ==
    ASSUME CanaryInv, NEW r \in Rollers, NEW pc, Moves(r, pc)
    PROVE  roller'[r].pc = pc /\ roller'[r].rel = roller[r].rel /\ roller'[r].tenant = roller[r].tenant
<1>1. roller \in [Rollers -> RollerRecords]
  BY DEF CanaryInv, StateOK
<1>2. roller' = [roller EXCEPT ![r] = [roller[r] EXCEPT !.pc = pc]]
  BY DEF Moves
<1>3. [roller[r] EXCEPT !.pc = pc].pc = pc /\ [roller[r] EXCEPT !.pc = pc].rel = roller[r].rel
      /\ [roller[r] EXCEPT !.pc = pc].tenant = roller[r].tenant
  BY <1>1 DEF RollerRecords
<1>. QED BY <1>1, <1>2, <1>3

LEMMA QuietRunsShip ==
    ASSUME CanaryInv, OrderInv, ShipInv, OrderInv', NEW r \in Rollers,
           \/ Begins(r) \/ Turn(r) \/ UploadFails(r) \/ MarksUploaded(r) \/ HealthAnswers(r) \/ WritesHealth(r)
           \/ CallsScheduler(r) \/ CanaryIsBusy(r) \/ PointsAtProven(r) \/ CanaryRan(r) \/ NotesBatch(r)
           \/ FinishesRelease(r) \/ EndsRun(r) \/ RunThrows(r)
    PROVE  ShipInv'
<1>1. RollerStep(r) \/ RunThrows(r)
  BY DEF RollerStep
<1>2. UNCHANGED <<fleet, unrecorded, moved>>
  BY DEF Begins, Turn, UploadFails, MarksUploaded, HealthAnswers, WritesHealth, CallsScheduler, CanaryIsBusy,
         PointsAtProven, CanaryRan, NotesBatch, FinishesRelease, EndsRun, RunThrows
<1>3. \/ \E pc \in {"turn", "end", "stop", "call", "choose", "health", "well", "ill", "point", "busy", "ran"} : Moves(r, pc)
      \/ Quits(r)
      \/ \E t : WorksOn(r, t)
  BY DEF Begins, Turn, UploadFails, MarksUploaded, HealthAnswers, WritesHealth, CallsScheduler, CanaryIsBusy,
         PointsAtProven, CanaryRan, NotesBatch, FinishesRelease, EndsRun, RunThrows, StepDone, CanaryTurn, RollingTurn
<1>4. roller'[r].pc \notin {"upload", "record", "back", "repair", "finish"}
  <2>1. ASSUME NEW pc \in {"turn", "end", "stop", "call", "choose", "health", "well", "ill", "point", "busy", "ran"}, Moves(r, pc)
        PROVE  roller'[r].pc \notin {"upload", "record", "back", "repair", "finish"}
    BY <2>1, WhereItGoes
  <2>2. roller \in [Rollers -> RollerRecords]
    BY DEF CanaryInv, StateOK
  <2>3. CASE Quits(r)
    <3>1. roller'[r] = Off
      BY <2>2, <2>3 DEF Quits
    <3>. QED BY <3>1 DEF Off
  <2>4. ASSUME NEW t, WorksOn(r, t)
        PROVE  roller'[r].pc = "look"
    <3>1. roller'[r] = [[roller[r] EXCEPT !.pc = "look"] EXCEPT !.tenant = t]
      BY <2>2, <2>4 DEF WorksOn
    <3>2. roller[r] \in RollerRecords
      BY <2>2
    <3>. QED BY <3>1, <3>2 DEF RollerRecords
  <2>. QED BY <1>3, <2>1, <2>3, <2>4
<1>. QED BY <1>1, <1>2, <1>4, PlainRunShips

LEMMA LookShips ==
    ASSUME CanaryInv, OrderInv, ShipInv, OrderInv', NEW r \in Rollers, LooksAtTenant(r)
    PROVE  ShipInv'
<1>1. RollerStep(r) /\ UNCHANGED <<fleet, unrecorded, moved, releases>>
  BY DEF RollerStep, LooksAtTenant
<1>2. CASE \E pc \in {"turn", "end", "health", "mark"} : Moves(r, pc)
  BY <1>1, <1>2, WhereItGoes, PlainRunShips
<1>3. CASE roller[r].tenant \in Ready /\ Moves(r, "upload")
  <2>1. roller'[r].pc = "upload" /\ roller'[r].tenant = roller[r].tenant
    BY <1>3, WhereItGoes
  <2>2. RecordOK(roller'[r], fleet', releases') /\ LookedOK(roller[r])'
    BY <1>1, <1>3, <2>1 DEF RecordOK, LookedOK, Ready
  <2>3. NothingToLookFor /\ ScriptsGoOn /\ \A t \in Fleet : ScriptSays(t)'
    BY <1>1, FleetStays, RunStepIsSeen
  <2>. QED BY <1>1, <2>2, <2>3, RunShips
<1>. QED BY <1>2, <1>3 DEF LooksAtTenant, StepDone

(* A run that found nobody who strayed looks no more.                       *)
LEMMA LookBackShips ==
    ASSUME CanaryInv, OrderInv, ShipInv, OrderInv', NEW r \in Rollers, LooksBack(r) \/ RepairsPointer(r)
    PROVE  ShipInv'
<1>1. RollerStep(r) /\ UNCHANGED <<fleet, unrecorded, moved, releases>>
  BY DEF RollerStep, LooksBack, RepairsPointer
<1>2. CASE \E pc \in {"turn", "end", "note"} : Moves(r, pc)
  BY <1>1, <1>2, WhereItGoes, PlainRunShips
<1>3. CASE /\ UNCHANGED member
           /\ \/ roller[r].pc = "back" /\ Stragglers(Rel(r)) = {} /\ Moves(r, "repair")
              \/ roller[r].pc = "repair" /\ Moves(r, "finish")
  <2>1. roller'[r].pc \in {"repair", "finish"} /\ roller'[r].rel = roller[r].rel
    BY <1>3, WhereItGoes
  <2>2. RecordOK(roller'[r], fleet', releases')
    BY <2>1 DEF RecordOK
  <2>3. NothingToLookFor /\ ScriptsGoOn /\ \A t \in Fleet : ScriptSays(t)'
    BY <1>1, FleetStays, RunStepIsSeen
  <2>4. ASSUME HeldBy(r, roller[r], releases)'
        PROVE  LookedOK(roller[r])'
    <3>1. LookedOK(roller[r])
      BY <1>1, <2>1, <2>4 DEF ShipInv, HeldBy
    <3>2. SUFFICES ASSUME NEW t \in Ready \ moved, fleet[t].row # releases[roller[r].rel].version
                   PROVE  /\ member[roller[r].rel][t].state # "none"
                          /\ member[roller[r].rel][t].state # "healthy"
      BY <1>1, <1>3, <2>1 DEF LookedOK, Ready
    <3>3. roller[r].pc \in {"back", "repair"}
      BY <1>3
    <3>4. roller[r].pc = "back" => member[roller[r].rel][t].state # "healthy"
      <4>1. t \in Needing(releases[roller[r].rel].version)
        BY <3>2 DEF Needing
      <4>. QED BY <1>3, <4>1 DEF Stragglers, Rel
    <3>. QED BY <3>1, <3>2, <3>3, <3>4 DEF LookedOK
  <2>. QED BY <1>1, <2>2, <2>3, <2>4, RunShips
<1>. QED BY <1>2, <1>3 DEF LooksBack, RepairsPointer, NotesIt, StepDone, RollerAt

-----------------------------------------------------------------------------
(* Shipping: uploads, records, and the last look.                           *)

(* One tenant's script or row is written.                                   *)
LEMMA TenantsScript ==
    ASSUME CanaryInv, NEW t \in Fleet, NEW v, fleet' = [fleet EXCEPT ![t].script = v] \/ fleet' = [fleet EXCEPT ![t].row = v]
    PROVE  /\ \A u \in Fleet \ {t} : fleet'[u] = fleet[u]
           /\ fleet'[t].stage = fleet[t].stage
           /\ fleet' = [fleet EXCEPT ![t].script = v] => fleet'[t].script = v /\ fleet'[t].row = fleet[t].row
           /\ fleet' = [fleet EXCEPT ![t].row = v] => fleet'[t].row = v /\ fleet'[t].script = fleet[t].script
<1>1. fleet \in [Fleet -> Deployments]
  BY DEF CanaryInv, StateOK
<1>2. CASE fleet' = [fleet EXCEPT ![t].script = v]
  <2>1. /\ fleet'[t] = [fleet[t] EXCEPT !.script = v] /\ fleet[t] \in Deployments
        /\ \A u \in Fleet \ {t} : fleet'[u] = fleet[u]
    BY <1>1, <1>2
  <2>2. fleet'[t].stage = fleet[t].stage /\ fleet'[t].script = v /\ fleet'[t].row = fleet[t].row
    BY <2>1 DEF Deployments
  <2>3. fleet' = [fleet EXCEPT ![t].row = v] => fleet'[t].row = v /\ fleet'[t].script = fleet[t].script
    <3>1. SUFFICES ASSUME fleet' = [fleet EXCEPT ![t].row = v]
                   PROVE  fleet'[t].row = v /\ fleet'[t].script = fleet[t].script
      OBVIOUS
    <3>2. fleet'[t] = [fleet[t] EXCEPT !.row = v]
      BY <1>1, <3>1
    <3>. QED BY <2>1, <3>2 DEF Deployments
  <2>. QED BY <2>1, <2>2, <2>3
<1>3. CASE fleet' = [fleet EXCEPT ![t].row = v]
  <2>1. /\ fleet'[t] = [fleet[t] EXCEPT !.row = v] /\ fleet[t] \in Deployments
        /\ \A u \in Fleet \ {t} : fleet'[u] = fleet[u]
    BY <1>1, <1>3
  <2>2. fleet'[t].stage = fleet[t].stage /\ fleet'[t].row = v /\ fleet'[t].script = fleet[t].script
    BY <2>1 DEF Deployments
  <2>3. fleet' = [fleet EXCEPT ![t].script = v] => fleet'[t].script = v /\ fleet'[t].row = fleet[t].row
    <3>1. SUFFICES ASSUME fleet' = [fleet EXCEPT ![t].script = v]
                   PROVE  fleet'[t].script = v /\ fleet'[t].row = fleet[t].row
      OBVIOUS
    <3>2. fleet'[t] = [fleet[t] EXCEPT !.script = v]
      BY <1>1, <3>1
    <3>. QED BY <2>1, <3>2 DEF Deployments
  <2>. QED BY <2>1, <2>2, <2>3
<1>. QED BY <1>2, <1>3

LEMMA UploadShips ==
    ASSUME CanaryInv, OrderInv, ShipInv, OrderInv', NEW r \in Rollers, Uploads(r)
    PROVE  ShipInv'
<1>. DEFINE t == roller[r].tenant
<1>1. RollerStep(r) /\ UNCHANGED <<moved, releases, member>> /\ roller[r].pc = "upload"
  BY DEF RollerStep, Uploads, RollerAt
<1>2. /\ t \in Fleet /\ fleet[t].stage \in {"ready", "gone"} /\ Rel(r) \in DOMAIN releases
  BY <1>1, WorkAtHand DEF ShipInv, RecordOK, TenantSteps
<1>3. CASE UNCHANGED <<fleet, unrecorded>> /\ Moves(r, "refused")
  BY <1>1, <1>3, WhereItGoes, PlainRunShips
<1>4. CASE /\ fleet' = [fleet EXCEPT ![t].script = Ver(r)] /\ unrecorded' = unrecorded \cup {<<Rel(r), t>>}
           /\ Moves(r, "record") \/ Moves(r, "refused")
  <2>1. /\ \A u \in Fleet \ {t} : fleet'[u] = fleet[u]
        /\ fleet'[t].stage = fleet[t].stage /\ fleet'[t].script = Ver(r) /\ fleet'[t].row = fleet[t].row
    BY <1>2, <1>4, TenantsScript
  <2>. HIDE DEF t
  <2>2. Uploaded(Ver(r), releases')
    BY <1>1, <1>2 DEF Uploaded, Ver
  <2>3. NothingToLookFor
    BY <1>1, <2>1 DEF NothingToLookFor, Ready
  <2>4. ScriptsGoOn
    BY <2>1, <2>2 DEF ScriptsGoOn
  <2>5. ASSUME NEW u \in Fleet
        PROVE  ScriptSays(u)'
    <3>1. CASE u = t
      BY <1>1, <1>2, <1>4, <2>1, <3>1 DEF ScriptSays, Ver
    <3>2. CASE u # t
      BY <1>1, <1>4, <2>1, <3>2 DEF ShipInv, ScriptSays
    <3>. QED BY <3>1, <3>2
  <2>6. roller'[r].pc \in {"record", "refused"} /\ roller'[r].tenant = t
    BY <1>4, WhereItGoes DEF t
  <2>7. RecordOK(roller'[r], fleet', releases') /\ LookedOK(roller[r])'
    BY <1>2, <2>1, <2>2, <2>6 DEF RecordOK, LookedOK
  <2>. QED BY <1>1, <2>3, <2>4, <2>5, <2>7, RunShips
<1>. QED BY <1>3, <1>4 DEF Uploads

LEMMA RecordShips ==
    ASSUME CanaryInv, OrderInv, ShipInv, OrderInv', NEW r \in Rollers, RecordsVersion(r)
    PROVE  ShipInv'
<1>. DEFINE t == roller[r].tenant
            since == {i \in DOMAIN releases : releases[i].version = Script(r) /\ Script(r) # Ver(r)}
<1>1. /\ RollerStep(r) /\ UNCHANGED <<releases, member>> /\ roller[r].pc = "record" /\ Moves(r, "mark")
      /\ moved' = moved \cup {t} /\ unrecorded' = (unrecorded \ {<<Rel(r), t>>}) \cup (since \X {t})
      /\ fleet' = IF t \in Ready THEN [fleet EXCEPT ![t].row = Ver(r)] ELSE fleet
  BY DEF RollerStep, RecordsVersion, RollerAt
<1>2. t \in Fleet /\ fleet[t].stage \in {"ready", "gone"} /\ Uploaded(fleet[t].script, releases)
  BY <1>1, WorkAtHand DEF ShipInv, RecordOK, TenantSteps
<1>3. /\ \A u \in Fleet \ {t} : fleet'[u] = fleet[u]
      /\ fleet'[t].stage = fleet[t].stage /\ fleet'[t].script = fleet[t].script
      /\ t \in Ready => fleet'[t].row = Ver(r)
  <2>1. CASE t \in Ready
    <3>1. fleet' = [fleet EXCEPT ![t].row = Ver(r)]
      BY <1>1, <2>1
    <3>. QED BY <1>2, <3>1, TenantsScript
  <2>2. CASE t \notin Ready
    BY <1>1, <2>2
  <2>. QED BY <2>1, <2>2
<1>4. Script(r) = fleet[t].script
  BY DEF Script
<1>. HIDE DEF t
<1>5. NothingToLookFor
  BY <1>1, <1>3 DEF NothingToLookFor, Ready
<1>6. ScriptsGoOn
  BY <1>3 DEF ScriptsGoOn
<1>7. ASSUME NEW u \in Fleet
      PROVE  ScriptSays(u)'
  <2>1. CASE u # t
    <3>1. \A i : <<i, u>> \in unrecorded => <<i, u>> \in unrecorded'
      BY <1>1, <2>1
    <3>. QED BY <1>1, <1>3, <2>1, <3>1 DEF ShipInv, ScriptSays
  <2>2. CASE u = t /\ t \notin Ready
    <3>1. fleet[t].stage = "gone"
      BY <1>2, <2>2 DEF Ready
    <3>. QED BY <1>3, <2>2, <3>1 DEF ScriptSays
  <2>3. CASE u = t /\ t \in Ready /\ fleet[t].script = Ver(r)
    BY <1>3, <2>3 DEF ScriptSays
  <2>4. CASE u = t /\ fleet[t].script # Ver(r)
    <3>1. PICK i \in DOMAIN releases : releases[i].version = fleet[t].script
      BY <1>2 DEF Uploaded
    <3>2. <<i, t>> \in unrecorded'
      BY <1>1, <1>4, <2>4, <3>1
    <3>. QED BY <1>1, <1>3, <2>4, <3>1, <3>2 DEF ScriptSays
  <2>. QED BY <2>1, <2>2, <2>3, <2>4
<1>8. roller'[r].pc = "mark"
  BY <1>1, WhereItGoes
<1>9. RecordOK(roller'[r], fleet', releases') /\ LookedOK(roller[r])'
  BY <1>8 DEF RecordOK, LookedOK
<1>. QED BY <1>1, <1>5, <1>6, <1>7, <1>9, RunShips

(* Nobody is left to choose: every ready tenant on another version is one of *)
(* the release.                                                             *)
LEMMA ChooseShips ==
    ASSUME CanaryInv, OrderInv, ShipInv, OrderInv', NEW r \in Rollers, ChoosesBatch(r)
    PROVE  ShipInv'
<1>. DEFINE left == IF releases[Rel(r)].lease = r THEN {t \in Needing(Ver(r)) : member[Rel(r)][t].state = "none"} ELSE {}
<1>1. /\ RollerStep(r) /\ UNCHANGED <<fleet, unrecorded, releases>> /\ roller[r].pc = "choose"
  BY DEF RollerStep, ChoosesBatch, RollerAt
<1>2. CASE left # {}
  <2>1. UNCHANGED moved /\ NotesIt(r)
    BY <1>2 DEF ChoosesBatch
  <2>2. \E pc \in {"turn", "end", "note"} : Moves(r, pc)
    BY <2>1 DEF NotesIt, StepDone
  <2>. QED BY <1>1, <2>1, <2>2, WhereItGoes, PlainRunShips
<1>3. CASE left = {}
  <2>1. Moves(r, "back") /\ moved' = (IF Has(r) THEN {} ELSE moved) /\ UNCHANGED member
    BY <1>3 DEF ChoosesBatch
  <2>2. roller'[r].pc = "back" /\ roller'[r].rel = roller[r].rel
    BY <2>1, WhereItGoes
  <2>3. /\ UNCHANGED desk /\ VersionsStay /\ OthersSee(Rollers \ {r}) /\ FewerActive
    BY <1>1, RunStepIsSeen
  <2>4. HeldBy(r, roller[r], releases)' <=> Has(r)
    BY <1>1, <2>2 DEF HeldBy, Has, Rel, Running
  <2>5. RecordOK(roller'[r], fleet', releases')
    BY <2>2 DEF RecordOK
  <2>6. ASSUME Has(r)
        PROVE  LookedOK(roller[r])'
    <3>1. SUFFICES ASSUME NEW t \in Ready, fleet[t].row # releases[roller[r].rel].version
                   PROVE  member[roller[r].rel][t].state # "none"
      BY <1>1, <2>1, <2>2 DEF LookedOK, Ready
    <3>2. t \in Needing(Ver(r))
      BY <3>1 DEF Needing, Ver, Rel
    <3>3. t \notin left /\ releases[Rel(r)].lease = r
      BY <1>3, <2>6 DEF Has
    <3>. QED BY <3>2, <3>3 DEF Rel
  <2>7. CASE ~Has(r)
    <3>1. UNCHANGED moved
      BY <2>1, <2>7
    <3>2. NothingToLookFor /\ ScriptsGoOn /\ \A t \in Fleet : ScriptSays(t)'
      BY <1>1, <2>3, <3>1, FleetStays
    <3>. QED BY <1>1, <2>4, <2>5, <2>7, <3>2, RunShips
  <2>8. CASE Has(r)
    <3>. DEFINE S == Rollers \ {r}
    <3>1. \A s \in S : ~HeldBy(s, roller[s], releases) \/ roller[s].pc \in OffWork
      <4>1. HeldBy(r, roller[r], releases)
        BY <2>8 DEF HeldBy, Has, Rel, Running
      <4>. QED BY <1>1, <4>1, OnlyOneHolds DEF OffWork
    <3>2. OneActive'
      BY <2>3, StillOneActive
    <3>3. ScriptsGoOn /\ \A t \in Fleet : ScriptSays(t)'
      <4>1. ScriptsGoOn
        BY <1>1 DEF ScriptsGoOn
      <4>2. ASSUME NEW t \in Fleet
            PROVE  ScriptSays(t)'
        BY <1>1 DEF ShipInv, ScriptSays
      <4>. QED BY <4>1, <4>2
    <3>4. /\ S \in SUBSET Rollers
          /\ \A s \in Rollers \ S : /\ RecordOK(roller'[s], fleet', releases')
                                    /\ HeldBy(s, roller[s], releases)' => LookedOK(roller[s])'
      BY <2>5, <2>6, <2>8, Zenon
    <3>5. OthersSee(S)
      BY <2>3
    <3>. HIDE DEF S
    <3>. QED BY <2>3, <3>1, <3>2, <3>3, <3>4, <3>5, Ships
  <2>. QED BY <2>7, <2>8
<1>. QED BY <1>2, <1>3

-----------------------------------------------------------------------------
(* Shipping: everything else that happens meanwhile.                        *)

LEMMA TakeShips ==
    ASSUME CanaryInv, OrderInv, ShipInv, OrderInv', NEW r \in Rollers, TakesRelease(r)
    PROVE  ShipInv'
<1>. DEFINE S == Rollers \ {r}
<1>1. VersionsStay /\ OthersSee(S) /\ FewerActive /\ roller'[r].pc = "begin"
  BY TakeIsSeen
<1>2. UNCHANGED <<fleet, unrecorded, moved, desk>>
  BY DEF TakesRelease
<1>3. NothingToLookFor /\ ScriptsGoOn /\ \A t \in Fleet : ScriptSays(t)'
  BY <1>1, <1>2, FleetStays
<1>4. OneActive'
  BY <1>1, <1>2, StillOneActive
<1>5. RecordOK(roller'[r], fleet', releases') /\ LookedOK(roller[r])'
  BY <1>1 DEF RecordOK, LookedOK
<1>6. /\ S \in SUBSET Rollers
      /\ \A s \in Rollers \ S : /\ RecordOK(roller'[s], fleet', releases')
                                /\ HeldBy(s, roller[s], releases)' => LookedOK(roller[s])'
  BY <1>5, Zenon
<1>. HIDE DEF S
<1>. QED BY <1>1, <1>3, <1>4, <1>6, Ships

(* A step that no run takes, and that leaves the tenants alone.             *)
LEMMA OthersShip ==
    ASSUME CanaryInv, OrderInv, ShipInv, OrderInv', VersionsStay, OthersSee(Rollers), OneActive',
           UNCHANGED <<fleet, unrecorded, moved>>
    PROVE  ShipInv'
<1>. DEFINE S == Rollers
<1>1. NothingToLookFor /\ ScriptsGoOn /\ \A t \in Fleet : ScriptSays(t)'
  BY FleetStays
<1>2. /\ S \in SUBSET Rollers /\ OthersSee(S)
      /\ \A s \in Rollers \ S : /\ RecordOK(roller'[s], fleet', releases')
                                /\ HeldBy(s, roller[s], releases)' => LookedOK(roller[s])'
  OBVIOUS
<1>. HIDE DEF S
<1>. QED BY <1>1, <1>2, Ships

LEMMA LeaseOutShips ==
    ASSUME CanaryInv, OrderInv, ShipInv, OrderInv', NEW i \in DOMAIN releases, LeaseRunsOut(i)
    PROVE  ShipInv'
<1>1. UNCHANGED <<fleet, unrecorded, moved, desk>>
  BY DEF LeaseRunsOut
<1>2. VersionsStay /\ OthersSee(Rollers) /\ FewerActive
  BY LeaseOutIsSeen
<1>3. OneActive'
  BY <1>1, <1>2, StillOneActive
<1>. QED BY <1>1, <1>2, <1>3, OthersShip

LEMMA RequestShips ==
    ASSUME CanaryInv, OrderInv, ShipInv, OrderInv', TakesRequest
    PROVE  ShipInv'
<1>1. UNCHANGED <<fleet, unrecorded, moved, releases, member>> /\ roller' = roller
  BY DEF TakesRequest
<1>2. VersionsStay /\ OthersSee(Rollers)
  <2>. DEFINE S == Rollers
  <2>1. \A s \in S : roller'[s] = roller[s]
    BY <1>1
  <2>. HIDE DEF S
  <2>2. VersionsStay /\ OthersSee(S)
    BY <1>1, <2>1, QuietlySeen
  <2>. QED BY <2>2 DEF S
<1>. QED BY <1>1, <1>2, RequestSeesActive, OthersShip

LEMMA AnswersShip ==
    ASSUME CanaryInv, OrderInv, ShipInv, OrderInv', PointsNew \/ RefusesRequest \/ HandlerDies
    PROVE  ShipInv'
<1>1. UNCHANGED <<fleet, unrecorded, moved, releases, member>> /\ roller' = roller /\ desk' = NoRequest
  BY DEF PointsNew, RefusesRequest, HandlerDies, Answered
<1>2. VersionsStay /\ OthersSee(Rollers) /\ FewerActive
  <2>. DEFINE S == Rollers
  <2>1. \A s \in S : roller'[s] = roller[s]
    BY <1>1
  <2>. HIDE DEF S
  <2>2. VersionsStay /\ OthersSee(S) /\ FewerActive
    BY <1>1, <2>1, QuietlySeen
  <2>. QED BY <2>2 DEF S
<1>3. OneActive'
  BY <1>1, <1>2, StillOneActive DEF NoRequest
<1>. QED BY <1>1, <1>2, <1>3, OthersShip

LEMMA ChangeShips ==
    ASSUME CanaryInv, OrderInv, ShipInv, OrderInv', ChangesActive
    PROVE  ShipInv'
<1>1. UNCHANGED <<fleet, unrecorded, moved>> /\ desk' = NoRequest
  BY DEF ChangesActive, Answered
<1>2. VersionsStay /\ OthersSee(Rollers) /\ FewerActive
  BY ChangeIsSeen
<1>3. OneActive'
  BY <1>1, <1>2, StillOneActive DEF NoRequest
<1>. QED BY <1>1, <1>2, <1>3, OthersShip

(* What a rollout or a rollback inserts.                                    *)
LEMMA RolloutsRecord ==
    ASSUME CanaryInv, StartsRollout
    PROVE  \E R \in Records : Inserts(R)
<1>1. PICK v, c, R :
        /\ v \in Versions /\ c \in Ready \cup {NoTenant}
        /\ R = [kind |-> "rollout", version |-> v, from |-> desk.live, canary |-> c, ran |-> FALSE,
                state |-> IF c = NoTenant THEN "rolling" ELSE "canary",
                batch |-> IF c = NoTenant THEN 1 ELSE 0, lease |-> NoRoller, over |-> FALSE]
        /\ Inserts(R)
  BY DEF StartsRollout
<1>2. desk \in DeskRecords
  BY DEF CanaryInv, StateOK
<1>. QED BY <1>1, <1>2 DEF Records, DeskRecords, AllVersions, Active, Ready

LEMMA RollbacksRecord ==
    ASSUME CanaryInv, OrderInv, StartsRollback
    PROVE  \E R \in Records : Inserts(R)
<1>1. desk \in DeskRecords /\ DeskOK(desk, releases, proven)
  BY DEF CanaryInv, StateOK
<1>2. Target \in AllVersions
  BY <1>1, TargetIsGood DEF DeskOK, StartsRollback
<1>3. PICK R : /\ R = [kind |-> "rollback", version |-> Target,
                       from |-> IF ReplacesRollout THEN releases[desk.rel].version ELSE desk.live,
                       canary |-> NoTenant, ran |-> FALSE, state |-> "rolling", batch |-> 1,
                       lease |-> NoRoller, over |-> FALSE]
               /\ Inserts(R)
  BY DEF StartsRollback
<1>4. (IF ReplacesRollout THEN releases[desk.rel].version ELSE desk.live) \in AllVersions
  <2>1. CASE ReplacesRollout
    <3>1. desk.rel \in DOMAIN releases
      BY <1>1, <2>1 DEF DeskOK, ReplacesRollout
    <3>2. releases[desk.rel] \in Records
      BY <3>1, RowsAreReleases
    <3>. QED BY <2>1, <3>2 DEF Records
  <2>2. CASE ~ReplacesRollout
    BY <1>1, <2>2 DEF DeskRecords
  <2>. QED BY <2>1, <2>2
<1>5. R \in Records
  BY <1>2, <1>3, <1>4 DEF Records, Active
<1>. QED BY <1>3, <1>5

LEMMA RolloutShips ==
    ASSUME CanaryInv, OrderInv, ShipInv, OrderInv', StartsRollout
    PROVE  ShipInv'
<1>1. PICK R \in Records : Inserts(R)
  BY RolloutsRecord
<1>2. roller' = roller /\ desk.pc = "rollout" /\ UNCHANGED <<fleet, unrecorded, moved>> /\ desk \in DeskRecords
  BY DEF StartsRollout, CanaryInv, StateOK
<1>3. /\ member' = member \/ \E c, rec : member' = [member EXCEPT ![Len(releases')][c] = rec]
      /\ desk' = NoRequest \/ ThenPoints(Len(releases'))
  BY DEF StartsRollout, Answered
<1>4. \A i \in DOMAIN releases : member'[i] = member[i]
  <2>1. Len(releases') \notin DOMAIN releases
    <3>1. Len(releases') = Len(releases) + 1
      BY <1>1, InsertsOne
    <3>2. Len(releases) \in Nat /\ DOMAIN releases = 1 .. Len(releases)
      BY RowsAreReleases, LenProperties
    <3>. QED BY <3>1, <3>2
  <2>2. member \in [ReleaseIds -> [Fleet -> MemberRecords]] /\ DOMAIN releases \subseteq ReleaseIds
    BY RowsAreReleases
  <2>3. ASSUME NEW c, NEW rec, member' = [member EXCEPT ![Len(releases')][c] = rec]
        PROVE  member' = [member EXCEPT ![Len(releases')] = [member[Len(releases')] EXCEPT ![c] = rec]]
    BY <2>3, Zenon
  <2>. QED BY <1>3, <2>1, <2>2, <2>3
<1>5. /\ VersionsStay /\ OthersSee(Rollers)
      /\ ActiveIds' \subseteq (ActiveIds \ {desk.rel}) \cup {Len(releases')}
  BY <1>1, <1>2, <1>4, InsertIsSeen
<1>6. desk'.pc \notin {"rollout", "rollback"}
  <2>1. ThenPoints(Len(releases')) => desk'.pc = "point"
    BY <1>2 DEF ThenPoints, DeskRecords
  <2>. QED BY <1>3, <2>1 DEF NoRequest
<1>7. OneActive'
  BY <1>2, <1>5, <1>6, InsertedIsActive
<1>. QED BY <1>2, <1>5, <1>7, OthersShip

LEMMA RollbackShips ==
    ASSUME CanaryInv, OrderInv, ShipInv, OrderInv', StartsRollback
    PROVE  ShipInv'
<1>1. /\ UNCHANGED <<member, fleet, unrecorded, moved>> /\ roller' = roller /\ desk.pc = "rollback"
      /\ desk \in DeskRecords /\ ThenPoints(Len(releases'))
  BY DEF StartsRollback, CanaryInv, StateOK
<1>2. PICK R \in Records : Inserts(R)
  BY RollbacksRecord
<1>3. /\ VersionsStay /\ OthersSee(Rollers)
      /\ ActiveIds' \subseteq (ActiveIds \ {desk.rel}) \cup {Len(releases')}
  BY <1>1, <1>2, InsertIsSeen
<1>4. desk'.pc \notin {"rollout", "rollback"}
  BY <1>1 DEF ThenPoints, DeskRecords
<1>5. OneActive'
  BY <1>1, <1>3, <1>4, InsertedIsActive
<1>. QED BY <1>1, <1>3, <1>5, OthersShip

(* A tenant that gets ready with a release under way is one whose row changed. *)
LEMMA FleetShips ==
    ASSUME CanaryInv, OrderInv, ShipInv, OrderInv', NEW t \in Fleet, SignsUp(t) \/ GetsReady(t) \/ IsRemoved(t)
    PROVE  ShipInv'
<1>1. UNCHANGED <<releases, member, desk, unrecorded>> /\ roller' = roller /\ fleet \in [Fleet -> Deployments]
  BY DEF SignsUp, GetsReady, IsRemoved, CanaryInv, StateOK
<1>2. \A u \in Fleet \ {t} : fleet'[u] = fleet[u]
  BY <1>1 DEF SignsUp, GetsReady, IsRemoved
<1>3. \/ fleet[t].stage = "new" /\ fleet'[t].stage = "made" /\ fleet'[t].script = fleet'[t].row /\ moved' = moved
      \/ /\ fleet[t].stage = "made" /\ fleet'[t].stage = "ready" /\ moved' = moved \cup {t}
         /\ fleet'[t].row = fleet[t].row /\ fleet'[t].script = fleet[t].script
      \/ /\ fleet[t].stage = "ready" /\ fleet'[t].stage = "gone" /\ moved' = moved
         /\ fleet'[t].row = fleet[t].row /\ fleet'[t].script = fleet[t].script
  <2>1. CASE SignsUp(t)
    <3>1. fleet'[t] = [stage |-> "made", row |-> current, script |-> current]
      BY <1>1, <2>1 DEF SignsUp
    <3>. QED BY <2>1, <3>1 DEF SignsUp
  <2>2. CASE GetsReady(t)
    <3>1. fleet'[t] = [fleet[t] EXCEPT !.stage = "ready"] /\ fleet[t] \in Deployments
      BY <1>1, <2>2 DEF GetsReady
    <3>. QED BY <2>2, <3>1 DEF GetsReady, Deployments
  <2>3. CASE IsRemoved(t)
    <3>1. fleet'[t] = [fleet[t] EXCEPT !.stage = "gone"] /\ fleet[t] \in Deployments
      BY <1>1, <2>3 DEF IsRemoved
    <3>. QED BY <2>3, <3>1 DEF IsRemoved, Deployments
  <2>. QED BY <2>1, <2>2, <2>3
<1>. DEFINE S == Rollers
<1>4. /\ S \in SUBSET Rollers
      /\ \A s \in S : roller'[s] = roller[s]
      /\ \A s \in Rollers \ S : /\ RecordOK(roller'[s], fleet', releases')
                                /\ HeldBy(s, roller[s], releases)' => LookedOK(roller[s])'
  BY <1>1
<1>. HIDE DEF S
<1>5. VersionsStay /\ OthersSee(S) /\ FewerActive
  BY <1>1, <1>4, QuietlySeen
<1>6. OneActive'
  BY <1>1, <1>5, StillOneActive
<1>7. NothingToLookFor
  BY <1>2, <1>3 DEF NothingToLookFor, Ready
<1>8. ScriptsGoOn
  <2>. SUFFICES ASSUME NEW u \in Fleet, fleet[u].stage \in {"ready", "gone"}
                PROVE  fleet'[u].stage \in {"ready", "gone"} /\ fleet'[u].script = fleet[u].script
    BY DEF ScriptsGoOn
  <2>. QED BY <1>2, <1>3
<1>9. ASSUME NEW u \in Fleet
      PROVE  ScriptSays(u)'
  <2>1. ScriptSays(u)
    BY DEF ShipInv
  <2>. QED BY <1>1, <1>2, <1>3, <2>1 DEF ScriptSays
<1>. QED BY <1>4, <1>5, <1>6, <1>7, <1>8, <1>9, Ships

LEMMA ShippingAtStart ==
    ASSUME ReleaseInit
    PROVE  ShipInv
<1>1. ActiveIds = {} /\ (\A r \in Rollers : roller[r].pc = "idle")
  BY DEF ReleaseInit, ActiveIds, Off
<1>2. \A t \in Fleet : fleet[t].script = fleet[t].row
  <2>. SUFFICES ASSUME NEW t \in Fleet PROVE fleet[t].script = fleet[t].row
    OBVIOUS
  <2>1. fleet[t] \in {[stage |-> "ready", row |-> First, script |-> First], [stage |-> "new", row |-> 0, script |-> 0]}
    BY DEF ReleaseInit
  <2>. QED BY <2>1
<1>3. OneActive
  BY <1>1 DEF OneActive
<1>4. \A r \in Rollers : RecordOK(roller[r], fleet, releases) /\ LookedOK(roller[r])
  BY <1>1 DEF RecordOK, LookedOK
<1>. QED BY <1>2, <1>3, <1>4 DEF ShipInv, ScriptSays

LEMMA StepKeepsShipping ==
    ASSUME CanaryInv, OrderInv, ShipInv, [ReleaseNext]_releaseVars
    PROVE  ShipInv'
<1>0. OrderInv'
  BY StepKeepsBatches
<1>1. CASE UNCHANGED releaseVars
  <2>1. OneActive' /\ \A t \in Fleet : ScriptSays(t)'
    BY <1>1 DEF releaseVars, ShipInv, OneActive, ActiveIds, ScriptSays
  <2>2. \A r \in Rollers : RecordOK(roller[r], fleet, releases)' /\ (HeldBy(r, roller[r], releases)' => LookedOK(roller[r])')
    BY <1>1 DEF releaseVars, ShipInv, RecordOK, Uploaded, HeldBy, LookedOK, Ready
  <2>. QED BY <2>1, <2>2 DEF ShipInv
<1>2. ASSUME NEW r \in Rollers, TakesRelease(r) \/ RollerStep(r) \/ RunThrows(r)
      PROVE  ShipInv'
  <2>1. CASE TakesRelease(r)
    BY <1>0, <2>1, TakeShips
  <2>2. CASE \/ Begins(r) \/ Turn(r) \/ UploadFails(r) \/ MarksUploaded(r) \/ HealthAnswers(r) \/ WritesHealth(r)
             \/ CallsScheduler(r) \/ CanaryIsBusy(r) \/ PointsAtProven(r) \/ CanaryRan(r) \/ NotesBatch(r)
             \/ FinishesRelease(r) \/ EndsRun(r) \/ RunThrows(r)
    BY <1>0, <2>2, QuietRunsShip
  <2>3. CASE LooksAtTenant(r)
    BY <1>0, <2>3, LookShips
  <2>4. CASE Uploads(r)
    BY <1>0, <2>4, UploadShips
  <2>5. CASE RecordsVersion(r)
    BY <1>0, <2>5, RecordShips
  <2>6. CASE ChoosesBatch(r)
    BY <1>0, <2>6, ChooseShips
  <2>7. CASE LooksBack(r) \/ RepairsPointer(r)
    BY <1>0, <2>7, LookBackShips
  <2>. QED BY <1>2, <2>1, <2>2, <2>3, <2>4, <2>5, <2>6, <2>7 DEF RollerStep
<1>3. CASE \E i \in DOMAIN releases : LeaseRunsOut(i)
  BY <1>0, <1>3, LeaseOutShips
<1>4. CASE TakesRequest
  BY <1>0, <1>4, RequestShips
<1>5. CASE DeskStep
  BY <1>0, <1>5, RolloutShips, RollbackShips, ChangeShips, AnswersShip DEF DeskStep
<1>6. CASE FleetStep
  BY <1>0, <1>6, FleetShips DEF FleetStep
<1>. QED BY <1>1, <1>2, <1>3, <1>4, <1>5, <1>6 DEF ReleaseNext

(* In every state one release at most is active; what a tenant runs and its *)
(* row does not say came from an upload whose record failed or came late;   *)
(* and once a run that holds its release found nobody to update, a ready    *)
(* tenant that is not on its version is one of the release.                 *)
THEOREM ShipInvariant == ReleaseSpec => []ShipInv
<1>1. CanaryInv /\ OrderInv /\ ShipInv /\ [ReleaseNext]_releaseVars => ShipInv'
  BY StepKeepsShipping
<1>2. ReleaseInit => ShipInv
  BY ShippingAtStart
<1>. QED BY <1>1, <1>2, CanaryInvariant, OrderInvariant, PTL DEF ReleaseSpec

-----------------------------------------------------------------------------
(* Shipping: what is done.                                                  *)

\* No step but the last one of a run writes that a release is done.
NotDoneBy(i) == releases'[i].state = "done" => releases[i].state = "done"

LEMMA WrittenNotDone ==
    ASSUME CanaryInv, OrderInv, NEW i \in DOMAIN releases, NEW k \in DOMAIN releases, NEW Q,
           releases' = [releases EXCEPT ![k] = Q], Q.state = "done" => releases[k].state = "done"
    PROVE  NotDoneBy(i)
<1>1. releases \in Seq(Records)
  BY RowsAreReleases
<1>. QED BY <1>1 DEF NotDoneBy

LEMMA RunsNotDone ==
    ASSUME CanaryInv, OrderInv, NEW i \in DOMAIN releases, NEW r \in Rollers,
           TakesRelease(r) \/ RollerStep(r) \/ RunThrows(r), ~FinishesRelease(r)
    PROVE  NotDoneBy(i)
<1>1. CASE UNCHANGED releases
  BY <1>1 DEF NotDoneBy
<1>2. CASE TakesRelease(r)
  <2>1. PICK k \in RunningId : releases' = [releases EXCEPT ![k].lease = r, ![k].over = FALSE]
    BY <1>2 DEF TakesRelease
  <2>2. k \in DOMAIN releases /\ releases[k] \in Records
    BY RowsAreReleases DEF RunningId, ActiveIds
  <2>3. PICK Q : Q = [releases[k] EXCEPT !.lease = r, !.over = FALSE]
    OBVIOUS
  <2>4. Q.state = releases[k].state
    BY <2>2, <2>3 DEF Records
  <2>5. releases \in Seq(Records)
    BY RowsAreReleases
  <2>6. releases' = [releases EXCEPT ![k] = Q]
    BY <2>1, <2>2, <2>3, <2>5
  <2>. QED BY <2>2, <2>4, <2>6, WrittenNotDone
<1>3. CASE Turn(r) \/ EndsRun(r) \/ CanaryRan(r) \/ NotesBatch(r)
  <2>1. Rel(r) \in DOMAIN releases /\ releases[Rel(r)] \in Records
    <3>1. roller[r].pc # "idle"
      BY <1>3 DEF Turn, EndsRun, CanaryRan, NotesBatch, RollerAt
    <3>. QED BY <3>1, WorkAtHand, RowsAreReleases
  <2>2. PICK Q : /\ releases' = releases \/ releases' = [releases EXCEPT ![Rel(r)] = Q]
                 /\ \/ Q = [releases[Rel(r)] EXCEPT !.over = FALSE]
                    \/ Q = [releases[Rel(r)] EXCEPT !.lease = NoRoller]
                    \/ Q = [releases[Rel(r)] EXCEPT !.state = "rolling", !.ran = TRUE, !.batch = 1]
                    \/ Q = [releases[Rel(r)] EXCEPT !.batch = @ + 1]
    <3>1. CASE Turn(r)
      BY <3>1 DEF Turn, Renews
    <3>2. CASE EndsRun(r)
      BY <3>2 DEF EndsRun
    <3>3. CASE CanaryRan(r)
      BY <3>3 DEF CanaryRan, SetsRelease
    <3>4. CASE NotesBatch(r)
      BY <3>4 DEF NotesBatch, SetsRelease
    <3>. QED BY <1>3, <3>1, <3>2, <3>3, <3>4
  <2>3. Q.state = releases[Rel(r)].state \/ Q.state = "rolling"
    BY <2>1, <2>2 DEF Records
  <2>. QED BY <1>1, <2>1, <2>2, <2>3, WrittenNotDone
<1>4. CASE ~(TakesRelease(r) \/ Turn(r) \/ EndsRun(r) \/ CanaryRan(r) \/ NotesBatch(r))
  <2>1. UNCHANGED releases
    BY <1>4 DEF RollerStep, Begins, LooksAtTenant, Uploads, UploadFails, RecordsVersion, MarksUploaded, HealthAnswers,
           WritesHealth, CallsScheduler, CanaryIsBusy, PointsAtProven, ChoosesBatch, LooksBack, RepairsPointer, RunThrows
  <2>. QED BY <1>1, <2>1
<1>. QED BY <1>2, <1>3, <1>4

LEMMA InsertsNotDone ==
    ASSUME CanaryInv, OrderInv, NEW i \in DOMAIN releases, NEW R \in Records, Inserts(R)
    PROVE  NotDoneBy(i)
<1>. DEFINE n == Len(releases)
<1>1. /\ DOMAIN releases = 1 .. n
      /\ \A j \in 1 .. n : releases'[j] = releases[j] \/ releases'[j].state = "cancelled"
  BY RowsInserted
<1>. HIDE DEF n
<1>. QED BY <1>1 DEF NotDoneBy

LEMMA DeskNotDone ==
    ASSUME CanaryInv, OrderInv, NEW i \in DOMAIN releases, TakesRequest \/ DeskStep
    PROVE  NotDoneBy(i)
<1>1. CASE UNCHANGED releases
  BY <1>1 DEF NotDoneBy
<1>2. CASE StartsRollout
  <2>1. PICK R \in Records : Inserts(R)
    BY <1>2, RolloutsRecord
  <2>. QED BY <2>1, InsertsNotDone
<1>3. CASE StartsRollback
  <2>1. PICK R \in Records : Inserts(R)
    BY <1>3, RollbacksRecord
  <2>. QED BY <2>1, InsertsNotDone
<1>4. CASE ChangesActive
  <2>. DEFINE k == desk.rel
  <2>1. k \in DOMAIN releases /\ releases[k] \in Records
    <3>1. k \in DOMAIN releases
      BY <1>4 DEF ChangesActive, CanaryInv, DeskOK
    <3>. QED BY <3>1, RowsAreReleases
  <2>2. PICK state \in {"paused", "cancelled", "canary", "rolling"} : ChangesTo(k, state)
    BY <1>4 DEF ChangesActive, ResumeState
  <2>3. \E Q : releases' = [releases EXCEPT ![k] = Q] /\ Q.state \in {releases[k].state, state}
    <3>1. releases \in Seq(Records)
      BY RowsAreReleases
    <3>2. CASE releases' = releases
      BY <2>1, <3>1, <3>2
    <3>3. CASE releases' = [releases EXCEPT ![k].state = state]
      <4>1. PICK Q : Q = [releases[k] EXCEPT !.state = state]
        OBVIOUS
      <4>2. Q.state = state
        BY <2>1, <4>1 DEF Records
      <4>. QED BY <3>3, <4>1, <4>2
    <3>4. CASE releases' = [releases EXCEPT ![k].state = state, ![k].lease = NoRoller, ![k].over = FALSE]
      <4>1. PICK Q : Q = [releases[k] EXCEPT !.state = state, !.lease = NoRoller, !.over = FALSE]
        OBVIOUS
      <4>2. Q.state = state
        BY <2>1, <4>1 DEF Records
      <4>3. releases' = [releases EXCEPT ![k] = Q]
        BY <2>1, <3>1, <3>4, <4>1
      <4>. QED BY <4>2, <4>3
    <3>. HIDE DEF k
    <3>. QED BY <2>2, <3>2, <3>3, <3>4 DEF ChangesTo
  <2>4. PICK Q : releases' = [releases EXCEPT ![k] = Q] /\ Q.state \in {releases[k].state, state}
    BY <2>3
  <2>. HIDE DEF k
  <2>. QED BY <2>1, <2>2, <2>4, WrittenNotDone
<1>5. CASE ~(StartsRollout \/ StartsRollback \/ ChangesActive)
  <2>1. UNCHANGED releases
    BY <1>5 DEF DeskStep, TakesRequest, PointsNew, RefusesRequest, HandlerDies
  <2>. QED BY <1>1, <2>1
<1>. QED BY <1>2, <1>3, <1>4, <1>5

LEMMA OnlyTheLastStep ==
    ASSUME CanaryInv, OrderInv, [ReleaseNext]_releaseVars, NEW i \in DOMAIN releases,
           releases'[i].state = "done", releases[i].state # "done"
    PROVE  \E r \in Rollers : roller[r].pc = "finish" /\ Has(r) /\ Rel(r) = i
<1>1. ~NotDoneBy(i)
  BY DEF NotDoneBy
<1>2. ~UNCHANGED releases
  OBVIOUS
<1>3. ~\E k \in DOMAIN releases : LeaseRunsOut(k)
  <2>. SUFFICES ASSUME NEW k \in DOMAIN releases, LeaseRunsOut(k) PROVE FALSE
    OBVIOUS
  <2>1. releases[k] \in Records
    BY RowsAreReleases
  <2>2. PICK Q : Q = [releases[k] EXCEPT !.over = TRUE]
    OBVIOUS
  <2>3. releases' = [releases EXCEPT ![k] = Q] /\ Q.state = releases[k].state
    BY <2>1, <2>2 DEF LeaseRunsOut, Records
  <2>. QED BY <1>1, <2>3, WrittenNotDone
<1>4. ~FleetStep
  BY <1>2 DEF FleetStep, SignsUp, GetsReady, IsRemoved
<1>5. PICK r \in Rollers : FinishesRelease(r)
  BY <1>1, <1>2, <1>3, <1>4, RunsNotDone, DeskNotDone DEF ReleaseNext, releaseVars
<1>6. roller[r].pc # "idle" /\ Has(r)
  BY <1>2, <1>5 DEF FinishesRelease, RollerAt, SetsRelease
<1>7. Rel(r) \in DOMAIN releases /\ releases[Rel(r)] \in Records /\ releases \in Seq(Records)
  BY <1>6, WorkAtHand, RowsAreReleases
<1>8. PICK state, Q : /\ state = "done" => roller[r].pc = "finish"
                      /\ state \in {"done", "paused"}
                      /\ Q = [releases[Rel(r)] EXCEPT !.state = state] /\ releases' = [releases EXCEPT ![Rel(r)] = Q]
  BY <1>5, <1>6 DEF FinishesRelease, RollerAt, SetsRelease
<1>9. Q.state = state
  BY <1>7, <1>8 DEF Records
<1>10. Rel(r) = i /\ state = "done"
  BY <1>7, <1>8, <1>9
<1>. QED BY <1>6, <1>8, <1>10

(* A release that is done left no ready tenant on another version, by its   *)
(* row or in fact, but for the tenants the property names.                  *)
THEOREM WhatIsDoneIsShipped == ReleaseSpec => DoneIsShipped
<1>. DEFINE Left(i, t) ==
              \/ member[i][t].state \in {"failed", "skipped"} \/ Unnoted(i, t) \/ Forgotten(i, t)
              \/ /\ fleet[t].row = releases[i].version
                 /\ fleet[t].script = releases[i].version \/ TornByOther(i, t)
            Ends == \A i \in DOMAIN releases : releases'[i].state = "done" /\ releases[i].state # "done" =>
                      \A t \in Ready \ moved : Left(i, t)
<1>1. ASSUME CanaryInv, OrderInv, ShipInv, [ReleaseNext]_releaseVars
      PROVE  Ends
  <2>. SUFFICES ASSUME NEW i \in DOMAIN releases, releases'[i].state = "done", releases[i].state # "done",
                       NEW t \in Ready \ moved,
                       member[i][t].state \notin {"failed", "skipped"}, ~Unnoted(i, t), ~Forgotten(i, t)
                PROVE  /\ fleet[t].row = releases[i].version
                       /\ fleet[t].script = releases[i].version \/ TornByOther(i, t)
    BY <1>1
  <2>1. PICK r \in Rollers : roller[r].pc = "finish" /\ Has(r) /\ Rel(r) = i
    BY <1>1, OnlyTheLastStep
  <2>2. /\ i \in ReleaseIds /\ releases[i] \in Records /\ member[i][t] \in MemberRecords /\ t \in Fleet
        /\ MembersOK(releases[i], member[i]) /\ DOMAIN releases \subseteq ReleaseIds
    <3>1. t \in Fleet
      BY DEF Ready
    <3>. QED BY <1>1, <3>1, RowsAreReleases DEF OrderInv
  <2>3. Shown(releases[i]) /\ BatchIsOver(releases[i], member[i])
    <3>1. HoldOK(r, roller[r], releases, member)
      BY <1>1 DEF OrderInv
    <3>2. WorkOK(roller[r], releases[i], member[i])
      BY <2>1, <3>1 DEF HoldOK, Has, Rel, OffWork
    <3>. QED BY <2>1, <3>2 DEF WorkOK
  <2>4. member[i][t].state \notin Open
    <3>. SUFFICES ASSUME member[i][t].state \in Open PROVE FALSE
      OBVIOUS
    <3>1. /\ member[i][t].batch \in Nat /\ releases[i].batch \in Nat
          /\ member[i][t].batch # releases[i].batch /\ ~(member[i][t].batch > releases[i].batch)
      BY <2>2, <2>3 DEF BatchIsOver, MemberRecords, Records, Unnoted
    <3>2. member[i][t].batch < releases[i].batch
      BY <3>1
    <3>3. releases[i].kind # "rollback" /\ member[i][t].requeues # MaxRequeues
      BY <3>2 DEF Forgotten
    <3>4. releases[i].kind = "rollout"
      BY <2>2, <3>3 DEF Records
    <3>. QED BY <2>2, <3>2, <3>3, <3>4 DEF MembersOK
  <2>5. fleet[t].row = releases[i].version
    <3>1. LookedOK(roller[r])
      BY <1>1, <2>1 DEF ShipInv, HeldBy, Has, Rel, Running
    <3>2. member[i][t].state \in {"none", "healthy"}
      BY <2>2, <2>4 DEF MemberRecords
    <3>. QED BY <2>1, <3>1, <3>2 DEF LookedOK, Rel
  <2>6. fleet[t].script = fleet[t].row \/ \E j \in DOMAIN releases : releases[j].version = fleet[t].script /\ <<j, t>> \in unrecorded
    BY <1>1, <2>2 DEF ShipInv, ScriptSays, Ready
  <2>. QED BY <2>2, <2>5, <2>6 DEF TornByOther
<1>2. DoneIsShipped <=> [][Ends]_releaseVars
  BY DEF DoneIsShipped
<1>. QED BY <1>1, <1>2, CanaryInvariant, OrderInvariant, ShipInvariant, PTL DEF ReleaseSpec

-----------------------------------------------------------------------------
(* What is left of the type: notes, counts, and runs that are off.          *)

NotesOK ==
    /\ unrecorded \subseteq ReleaseIds \X Fleet /\ moved \subseteq Fleet
    /\ asks \in 0 .. MaxAsks /\ mishaps \in 0 .. MaxMishaps
    /\ \A r \in Rollers : roller[r].pc = "idle" => roller[r].rel = 0

\* A run goes off with no release at hand.
RunGoes(r) == roller'[r].pc = "idle" => roller'[r].rel = 0
OthersRest(r) == \A s \in Rollers \ {r} : roller'[s] = roller[s]

LEMMA RunsGoOff ==
    ASSUME CanaryInv, NEW r \in Rollers, TakesRelease(r) \/ RollerStep(r) \/ RunThrows(r)
    PROVE  RunGoes(r) /\ OthersRest(r)
<1>1. roller \in [Rollers -> RollerRecords]
  BY DEF CanaryInv, StateOK
<1>2. \/ \E pc : pc # "idle" /\ Moves(r, pc)
      \/ Quits(r)
      \/ \E t : WorksOn(r, t)
      \/ \E i : roller' = [roller EXCEPT ![r] = [pc |-> "begin", rel |-> i, tenant |-> NoTenant]]
  BY DEF TakesRelease, RollerStep, Begins, Turn, LooksAtTenant, Uploads, UploadFails, RecordsVersion, MarksUploaded,
         HealthAnswers, WritesHealth, CallsScheduler, CanaryIsBusy, PointsAtProven, CanaryRan, ChoosesBatch, NotesBatch,
         LooksBack, RepairsPointer, FinishesRelease, EndsRun, RunThrows, StepDone, NotesIt, CanaryTurn, RollingTurn
<1>3. ASSUME NEW pc, pc # "idle", Moves(r, pc)
      PROVE  RunGoes(r) /\ OthersRest(r)
  BY <1>1, <1>3, WhereItGoes DEF RunGoes, OthersRest, Moves
<1>4. CASE Quits(r)
  BY <1>1, <1>4 DEF Quits, Off, RunGoes, OthersRest
<1>5. ASSUME NEW t, WorksOn(r, t)
      PROVE  RunGoes(r) /\ OthersRest(r)
  <2>1. roller'[r] = [[roller[r] EXCEPT !.pc = "look"] EXCEPT !.tenant = t] /\ roller[r] \in RollerRecords
    BY <1>1, <1>5 DEF WorksOn
  <2>2. roller'[r].pc = "look"
    BY <2>1 DEF RollerRecords
  <2>. QED BY <1>1, <1>5, <2>2 DEF WorksOn, RunGoes, OthersRest
<1>6. ASSUME NEW i, roller' = [roller EXCEPT ![r] = [pc |-> "begin", rel |-> i, tenant |-> NoTenant]]
      PROVE  RunGoes(r) /\ OthersRest(r)
  BY <1>1, <1>6 DEF RunGoes, OthersRest
<1>. QED BY <1>2, <1>3, <1>4, <1>5, <1>6

LEMMA StepKeepsNotes ==
    ASSUME CanaryInv, OrderInv, NotesOK, [ReleaseNext]_releaseVars
    PROVE  NotesOK'
<1>1. asks' \in 0 .. MaxAsks
  <2>1. UNCHANGED asks \/ TakesRequest
    BY DEF ReleaseNext, releaseVars, TakesRelease, RollerStep, Begins, Turn, LooksAtTenant, Uploads, UploadFails, RecordsVersion,
           MarksUploaded, HealthAnswers, WritesHealth, CallsScheduler, CanaryIsBusy, PointsAtProven, CanaryRan, ChoosesBatch,
           NotesBatch, LooksBack, RepairsPointer, FinishesRelease, EndsRun, RunThrows, LeaseRunsOut, DeskStep, StartsRollout,
           StartsRollback, PointsNew, ChangesActive, RefusesRequest, HandlerDies, FleetStep, SignsUp, GetsReady, IsRemoved
  <2>2. MaxAsks \in Nat
    BY ReleasesAssumption
  <2>. QED BY <2>1, <2>2 DEF TakesRequest, NotesOK
<1>2. mishaps' \in 0 .. MaxMishaps
  <2>1. UNCHANGED mishaps \/ Mishap
    BY DEF ReleaseNext, releaseVars, TakesRelease, RollerStep, Begins, Turn, LooksAtTenant, Uploads, UploadFails, RecordsVersion,
           MarksUploaded, HealthAnswers, WritesHealth, CallsScheduler, CanaryIsBusy, PointsAtProven, CanaryRan, ChoosesBatch,
           NotesBatch, LooksBack, RepairsPointer, FinishesRelease, EndsRun, RunThrows, LeaseRunsOut, DeskStep, StartsRollout,
           StartsRollback, PointsNew, ChangesActive, RefusesRequest, HandlerDies, FleetStep, SignsUp, GetsReady, IsRemoved,
           TakesRequest
  <2>2. MaxMishaps \in Nat
    BY ReleasesAssumption
  <2>. QED BY <2>1, <2>2 DEF Mishap, NotesOK
<1>3. unrecorded' \subseteq ReleaseIds \X Fleet /\ moved' \subseteq Fleet
  <2>1. CASE UNCHANGED <<unrecorded, moved>>
    BY <2>1 DEF NotesOK
  <2>2. CASE \E t \in Fleet : GetsReady(t)
    BY <2>2 DEF GetsReady, NotesOK
  <2>3. ASSUME NEW r \in Rollers, Uploads(r) \/ RecordsVersion(r)
        PROVE  unrecorded' \subseteq ReleaseIds \X Fleet /\ moved' \subseteq Fleet
    <3>1. Rel(r) \in DOMAIN releases /\ DOMAIN releases \subseteq ReleaseIds /\ roller[r].tenant \in Fleet
      BY <2>3, WorkAtHand, RowsAreReleases DEF Uploads, RecordsVersion, RollerAt, TenantSteps
    <3>2. CASE Uploads(r)
      BY <3>1, <3>2 DEF Uploads, NotesOK
    <3>3. CASE RecordsVersion(r)
      <4>. DEFINE since == {i \in DOMAIN releases : releases[i].version = Script(r) /\ Script(r) # Ver(r)}
      <4>1. /\ unrecorded' = (unrecorded \ {<<Rel(r), roller[r].tenant>>}) \cup (since \X {roller[r].tenant})
            /\ moved' = moved \cup {roller[r].tenant}
        BY <3>3 DEF RecordsVersion
      <4>2. since \subseteq ReleaseIds
        BY <3>1
      <4>. HIDE DEF since
      <4>. QED BY <3>1, <4>1, <4>2 DEF NotesOK
    <3>. QED BY <2>3, <3>2, <3>3
  <2>4. ASSUME NEW r \in Rollers, ChoosesBatch(r)
        PROVE  unrecorded' \subseteq ReleaseIds \X Fleet /\ moved' \subseteq Fleet
    <3>1. UNCHANGED unrecorded /\ (moved' = {} \/ moved' = moved)
      BY <2>4 DEF ChoosesBatch
    <3>. QED BY <3>1 DEF NotesOK
  <2>5. \/ UNCHANGED <<unrecorded, moved>>
        \/ \E t \in Fleet : GetsReady(t)
        \/ \E r \in Rollers : Uploads(r) \/ RecordsVersion(r) \/ ChoosesBatch(r)
    BY DEF ReleaseNext, releaseVars, TakesRelease, RollerStep, Begins, Turn, LooksAtTenant, UploadFails,
           MarksUploaded, HealthAnswers, WritesHealth, CallsScheduler, CanaryIsBusy, PointsAtProven, CanaryRan,
           NotesBatch, LooksBack, RepairsPointer, FinishesRelease, EndsRun, RunThrows, LeaseRunsOut, DeskStep, StartsRollout,
           StartsRollback, PointsNew, ChangesActive, RefusesRequest, HandlerDies, FleetStep, SignsUp, IsRemoved, TakesRequest
  <2>. QED BY <2>1, <2>2, <2>3, <2>4, <2>5
<1>4. \A s \in Rollers : roller'[s].pc = "idle" => roller'[s].rel = 0
  <2>1. CASE UNCHANGED roller
    BY <2>1 DEF NotesOK
  <2>2. CASE \E r \in Rollers : TakesRelease(r) \/ RollerStep(r) \/ RunThrows(r)
    <3>1. PICK r \in Rollers : RunGoes(r) /\ OthersRest(r)
      BY <2>2, RunsGoOff
    <3>. QED BY <3>1 DEF RunGoes, OthersRest, NotesOK
  <2>3. UNCHANGED roller \/ \E r \in Rollers : TakesRelease(r) \/ RollerStep(r) \/ RunThrows(r)
    BY DEF ReleaseNext, releaseVars, LeaseRunsOut, TakesRequest, DeskStep, StartsRollout, StartsRollback, PointsNew,
           ChangesActive, RefusesRequest, HandlerDies, FleetStep, SignsUp, GetsReady, IsRemoved
  <2>. QED BY <2>1, <2>2, <2>3
<1>. QED BY <1>1, <1>2, <1>3, <1>4 DEF NotesOK

(* Releases keep their type, whatever the fleet, the runs and the bounds.   *)
THEOREM ReleaseTypeCorrect == ReleaseSpec => []ReleaseTypeOK
<1>1. CanaryInv /\ OrderInv /\ NotesOK /\ [ReleaseNext]_releaseVars => NotesOK'
  BY StepKeepsNotes
<1>2. ReleaseInit => NotesOK
  <2>1. {MaxAsks, MaxMishaps} \subseteq Nat
    BY ReleasesAssumption
  <2>. QED BY <2>1 DEF ReleaseInit, NotesOK, Off
<1>3. CanaryInv /\ OrderInv /\ NotesOK => ReleaseTypeOK
  <2>. SUFFICES ASSUME CanaryInv, OrderInv, NotesOK PROVE ReleaseTypeOK
    OBVIOUS
  <2>1. /\ releases \in Seq(Records) /\ fleet \in [Fleet -> Deployments] /\ roller \in [Rollers -> RollerRecords]
        /\ current \in AllVersions /\ proven \subseteq AllVersions
        /\ Len(releases) <= MaxReleases /\ member \in [ReleaseIds -> [Fleet -> MemberRecords]]
    BY DEF CanaryInv, StateOK, OrderInv
  <2>2. Len(releases) \in Nat /\ DOMAIN releases = 1 .. Len(releases)
    BY <2>1, LenProperties
  <2>3. ASSUME NEW r \in Rollers
        PROVE  roller[r].rel \in 0 .. Len(releases) /\ roller[r].tenant \in Fleet \cup {NoTenant}
    <3>1. roller[r].rel = 0 \/ roller[r].rel \in DOMAIN releases
      BY DEF CanaryInv, RollerOK, NotesOK
    <3>2. roller[r] \in RollerRecords
      BY <2>1
    <3>. QED BY <2>2, <3>1, <3>2 DEF RollerRecords
  <2>4. desk.rel \in 0 .. Len(releases)
    BY <2>2 DEF CanaryInv, DeskOK
  <2>. QED BY <2>1, <2>3, <2>4 DEF ReleaseTypeOK, Records, Deployments, MemberRecords, NotesOK
<1>. QED BY <1>1, <1>2, <1>3, CanaryInvariant, OrderInvariant, PTL DEF ReleaseSpec

================================================================================
