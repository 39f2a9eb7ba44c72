------------------------------- MODULE Releases -------------------------------
(***************************************************************************)
(* Shipping a version to every tenant (releases/runner.ts).  The owner asks *)
(* for a rollout, a rollback or a change of the one in progress; the runner *)
(* takes the release under a lease: the canary first, then batch after      *)
(* batch, each tenant uploaded and its health checked, and a last look for  *)
(* tenants found on another version.  A run may die, fail, or stall past    *)
(* its lease anywhere, and an upload that is under way is not called back.  *)
(*                                                                         *)
(* Health checks that wait (HEALTH_RETRY_MS) are due whenever a run looks.  *)
(***************************************************************************)
EXTENDS Integers, Sequences, FiniteSets, FiniteSetsExt

CONSTANTS
    Fleet, NoTenant,
    Rollers, NoRoller,      \* runs of advanceRelease, of the cron and of the console
    First, Versions,        \* what tenants run at the start; what rollouts are asked for
    BatchSize,
    MaxChecks,              \* HEALTH_MAX_ATTEMPTS, UPLOAD_MAX_ATTEMPTS and CANARY_BUSY_MAX
    MaxRequeues,
    MaxReleases, MaxAsks, MaxMishaps    \* bounds

ASSUME ReleasesAssumption ==
    /\ NoTenant \notin Fleet /\ NoRoller \notin Rollers
    /\ First \in Nat \ {0} /\ Versions \subseteq Nat \ {0}
    /\ {BatchSize, MaxChecks} \subseteq Nat \ {0}
    /\ {MaxRequeues, MaxReleases, MaxAsks, MaxMishaps} \subseteq Nat

VARIABLES
    releases,   \* the rows of releases that were not refused, oldest first
    member,     \* release_tenants, by release and tenant
    fleet,      \* each tenant: its stage, the version in its row and in its script
    current,    \* releases/current, what new tenants get
    roller,     \* each run: where it is, with which release and tenant
    desk,       \* the handler of requests: what it read
    proven,     \* versions a canary ran clean on, or that went out without a tenant
    unrecorded, \* uploads that landed and are not, or no more, in a tenant's row: the release and the tenant
    moved,      \* tenants whose row got a version since the release last looked for ones to update
    asks, mishaps

releaseVars == <<releases, member, fleet, current, roller, desk, proven, unrecorded, moved, asks, mishaps>>

ReleaseIds == 1 .. MaxReleases
Active == {"canary", "rolling", "paused"}
Open == {"pending", "uploaded"}
Absent == [state |-> "none", batch |-> 0, tries |-> 0, requeues |-> 0]
Off == [pc |-> "idle", rel |-> 0, tenant |-> NoTenant]
NoRequest == [pc |-> "idle", rel |-> 0, state |-> "none", live |-> First]

AllVersions == Versions \cup {First}
ReleaseTypeOK ==
    /\ releases \in Seq([kind : {"rollout", "rollback"}, version : AllVersions, from : AllVersions,
                         state : Active \cup {"done", "cancelled"}, canary : Fleet \cup {NoTenant}, ran : BOOLEAN,
                         batch : Nat, lease : Rollers \cup {NoRoller}, over : BOOLEAN])
    /\ Len(releases) <= MaxReleases
    /\ member \in [ReleaseIds -> [Fleet -> [state : Open \cup {"none", "healthy", "failed", "skipped"}, batch : Nat,
                                            tries : 0 .. MaxChecks, requeues : 0 .. MaxRequeues]]]
    /\ fleet \in [Fleet -> [stage : {"new", "made", "ready", "gone"}, row : AllVersions \cup {0}, script : AllVersions \cup {0}]]
    /\ current \in AllVersions /\ proven \subseteq AllVersions /\ moved \subseteq Fleet /\ unrecorded \subseteq ReleaseIds \X Fleet
    /\ \A r \in Rollers : roller[r].rel \in 0 .. Len(releases) /\ roller[r].tenant \in Fleet \cup {NoTenant}
    /\ desk.rel \in 0 .. Len(releases)
    /\ asks \in 0 .. MaxAsks /\ mishaps \in 0 .. MaxMishaps

ReleaseInit ==
    /\ releases = <<>> /\ member = [i \in ReleaseIds |-> [t \in Fleet |-> Absent]]
    /\ fleet \in [Fleet -> {[stage |-> "ready", row |-> First, script |-> First], [stage |-> "new", row |-> 0, script |-> 0]}]
    /\ current = First
    /\ roller = [r \in Rollers |-> Off] /\ desk = NoRequest
    /\ proven = {} /\ unrecorded = {} /\ moved = {}
    /\ asks = 0 /\ mishaps = 0

-----------------------------------------------------------------------------
(* The release in progress.  idx_releases_active allows one.                *)

ActiveIds == {i \in DOMAIN releases : releases[i].state \in Active}
ActiveId == IF ActiveIds = {} THEN 0 ELSE Max(ActiveIds)
RunningId == {i \in ActiveIds : releases[i].state # "paused"}

Ready == {t \in Fleet : fleet[t].stage = "ready"}
\* Ready tenants that are not on version v, by their rows.
Needing(v) == {t \in Ready : fleet[t].row # v}
Members(i, b) == {t \in Fleet : member[i][t].state # "none" /\ member[i][t].batch = b}

RollerAt(r, pc) == roller[r].pc = pc
Rel(r) == roller[r].rel
Ver(r) == releases[Rel(r)].version
Moves(r, pc) == roller' = [roller EXCEPT ![r].pc = pc]
Quits(r) == roller' = [roller EXCEPT ![r] = Off]
\* A step is done: the next one, or the run has used up its budget.
StepDone(r) == Moves(r, "turn") \/ Moves(r, "end")

\* This run holds the release and it is running: leaving an active state takes
\* the lease, and a run that holds it is the only one to change its state.
Has(r) == releases[Rel(r)].lease = r /\ releases[Rel(r)].state \in {"canary", "rolling"}

SetsRelease(r, rec) ==
    releases' = IF Has(r) THEN [releases EXCEPT ![Rel(r)] = rec] ELSE releases
SetsMember(r, t, rec) ==
    member' = IF Has(r) THEN [member EXCEPT ![Rel(r)][t] = rec] ELSE member

-----------------------------------------------------------------------------
(* A run: its lease and its turns.                                          *)

LeaseNeverPasses(i) == releases[i].lease = NoRoller
LeaseFree(i) == releases[i].lease = NoRoller \/ releases[i].over

TakesRelease(r) ==
    /\ RollerAt(r, "idle")
    /\ \E i \in RunningId :
         /\ LeaseFree(i)
         /\ releases' = [releases EXCEPT ![i].lease = r, ![i].over = FALSE]
         /\ roller' = [roller EXCEPT ![r] = [pc |-> "begin", rel |-> i, tenant |-> NoTenant]]
    /\ UNCHANGED <<member, fleet, current, desk, proven, unrecorded, moved, asks, mishaps>>

\* The bundle is read, or the release stops; a rollback that died before it
\* pointed releases/current back does so now.
Begins(r) ==
    /\ RollerAt(r, "begin")
    /\ \/ Moves(r, "turn") /\ current' = IF releases[Rel(r)].kind = "rollback" THEN Ver(r) ELSE current
       \/ Moves(r, "stop") /\ UNCHANGED current
    /\ UNCHANGED <<releases, member, fleet, desk, proven, unrecorded, moved, asks, mishaps>>

\* renewLease, and the release and members read after it.
Renews(r) ==
    releases' = IF releases[Rel(r)].lease = r THEN [releases EXCEPT ![Rel(r)].over = FALSE] ELSE releases

WorksOn(r, t) == roller' = [roller EXCEPT ![r].pc = "look", ![r].tenant = t]

CanaryTurn(r) ==
    LET i == Rel(r)  c == releases[i].canary IN
    /\ releases[i].state = "canary"
    /\ CASE member[i][c].state \in Open -> WorksOn(r, c)
         [] member[i][c].state = "healthy" -> Moves(r, "call")
         [] OTHER -> Moves(r, "stop")

NeverStops(rows, i) == FALSE
StopsAt(rows, i) == releases[i].kind = "rollout" /\ \E t \in rows : member[i][t].state = "failed"

RollingTurn(r) ==
    LET i == Rel(r)
        rows == IF releases[i].batch = 0 THEN {} ELSE Members(i, releases[i].batch)
        open == {t \in rows : member[i][t].state \in Open}
        fresh == {t \in open : member[i][t].state = "pending"}
    IN
    /\ releases[i].state = "rolling"
    /\ \/ StopsAt(rows, i) /\ Moves(r, "stop")
       \/ ~StopsAt(rows, i) /\ \E t \in IF fresh # {} THEN fresh ELSE open : WorksOn(r, t)
       \/ ~StopsAt(rows, i) /\ open = {} /\ Moves(r, "choose")

Turn(r) ==
    /\ RollerAt(r, "turn") /\ Renews(r)
    /\ \/ Has(r) /\ (CanaryTurn(r) \/ RollingTurn(r))
       \/ ~Has(r) /\ Moves(r, "end")
    /\ UNCHANGED <<member, fleet, current, desk, proven, unrecorded, moved, asks, mishaps>>
-----------------------------------------------------------------------------
(* One tenant.                                                              *)

Member(r) == member[Rel(r)][roller[r].tenant]
Script(r) == fleet[roller[r].tenant].script

\* loadTenant; before an upload, whether the release is still held.
LooksAtTenant(r) ==
    LET t == roller[r].tenant IN
    /\ RollerAt(r, "look")
    /\ IF t \notin Ready
       THEN SetsMember(r, t, [Member(r) EXCEPT !.state = "skipped"]) /\ StepDone(r)
       ELSE /\ UNCHANGED member
            /\ \/ Member(r).state # "pending" /\ Moves(r, "health")
               \/ Member(r).state = "pending" /\ fleet[t].row = Ver(r) /\ Moves(r, "mark")
               \/ Member(r).state = "pending" /\ fleet[t].row # Ver(r) /\ (IF Has(r) THEN Moves(r, "upload") ELSE StepDone(r))
    /\ UNCHANGED <<releases, fleet, current, desk, proven, unrecorded, moved, asks, mishaps>>

\* The script is replaced at once, for everybody.  The answer may be lost.
Uploads(r) ==
    /\ RollerAt(r, "upload")
    /\ \/ /\ fleet' = [fleet EXCEPT ![roller[r].tenant].script = Ver(r)]
          /\ unrecorded' = unrecorded \cup {<<Rel(r), roller[r].tenant>>}
          /\ Moves(r, "record") \/ Moves(r, "refused")
       \/ UNCHANGED <<fleet, unrecorded>> /\ Moves(r, "refused")
    /\ UNCHANGED <<releases, member, current, desk, proven, moved, asks, mishaps>>

\* A refusal that is not worth a retry fails at once.
UploadFails(r) ==
    /\ RollerAt(r, "refused")
    /\ \E retryable \in BOOLEAN :
         LET failed == ~retryable \/ Member(r).tries + 1 >= MaxChecks IN
         SetsMember(r, roller[r].tenant, [Member(r) EXCEPT !.state = IF failed THEN "failed" ELSE "pending",
                                                           !.tries = IF @ < MaxChecks THEN @ + 1 ELSE @])
    /\ StepDone(r)
    /\ UNCHANGED <<releases, fleet, current, desk, proven, unrecorded, moved, asks, mishaps>>

\* tenants.version, whoever holds the release by now, and whatever was uploaded since.
RecordsVersion(r) ==
    LET t == roller[r].tenant
        since == {i \in DOMAIN releases : releases[i].version = Script(r) /\ Script(r) # Ver(r)}
    IN
    /\ RollerAt(r, "record") /\ Moves(r, "mark")
    /\ fleet' = IF t \in Ready THEN [fleet EXCEPT ![t].row = Ver(r)] ELSE fleet
    /\ moved' = moved \cup {t} /\ unrecorded' = (unrecorded \ {<<Rel(r), t>>}) \cup (since \X {t})
    /\ UNCHANGED <<releases, member, current, desk, proven, asks, mishaps>>

MarksUploaded(r) ==
    /\ RollerAt(r, "mark") /\ Moves(r, "health")
    /\ SetsMember(r, roller[r].tenant, [Member(r) EXCEPT !.state = "uploaded", !.tries = 0])
    /\ UNCHANGED <<releases, fleet, current, desk, proven, unrecorded, moved, asks, mishaps>>

\* checkHealth: well only on this version, and perhaps not even then.
HealthAnswers(r) ==
    /\ RollerAt(r, "health")
    /\ (Script(r) = Ver(r) /\ Moves(r, "well")) \/ Moves(r, "ill")
    /\ UNCHANGED <<releases, member, fleet, current, desk, proven, unrecorded, moved, asks, mishaps>>

WritesHealth(r) ==
    LET failed == Member(r).tries + 1 >= MaxChecks IN
    /\ \/ /\ RollerAt(r, "well") /\ StepDone(r)
          /\ SetsMember(r, roller[r].tenant, [Member(r) EXCEPT !.state = "healthy"])
       \/ /\ RollerAt(r, "ill") /\ StepDone(r)
          /\ SetsMember(r, roller[r].tenant, [Member(r) EXCEPT !.state = IF failed THEN "failed" ELSE "uploaded",
                                                               !.tries = IF @ < MaxChecks THEN @ + 1 ELSE @])
    /\ UNCHANGED <<releases, fleet, current, desk, proven, unrecorded, moved, asks, mishaps>>

-----------------------------------------------------------------------------
(* The canary's scheduled run.                                              *)

CallsScheduler(r) ==
    LET c == releases[Rel(r)].canary IN
    /\ RollerAt(r, "call")
    /\ \/ fleet[c].script = Ver(r) /\ Moves(r, "point") /\ proven' = proven \cup {Ver(r)}
       \/ (Moves(r, "stop") \/ Moves(r, "busy")) /\ UNCHANGED proven
    /\ UNCHANGED <<releases, member, fleet, current, desk, unrecorded, moved, asks, mishaps>>

\* Another run held its lease.
CanaryIsBusy(r) ==
    LET c == releases[Rel(r)].canary  tries == member[Rel(r)][c].tries IN
    /\ RollerAt(r, "busy")
    /\ IF tries + 1 >= MaxChecks
       THEN Moves(r, "stop") /\ UNCHANGED member
       ELSE Moves(r, "end") /\ SetsMember(r, c, [member[Rel(r)][c] EXCEPT !.tries = tries + 1])
    /\ UNCHANGED <<releases, fleet, current, desk, proven, unrecorded, moved, asks, mishaps>>

\* The pointer first.
PointsAtProven(r) ==
    /\ RollerAt(r, "point") /\ current' = Ver(r) /\ Moves(r, "ran")
    /\ UNCHANGED <<releases, member, fleet, desk, proven, unrecorded, moved, asks, mishaps>>

CanaryRan(r) ==
    /\ RollerAt(r, "ran") /\ StepDone(r)
    /\ SetsRelease(r, [releases[Rel(r)] EXCEPT !.state = "rolling", !.ran = TRUE, !.batch = 1])
    /\ UNCHANGED <<member, fleet, current, desk, proven, unrecorded, moved, asks, mishaps>>

-----------------------------------------------------------------------------
(* Batches, and the end.                                                    *)

NextBatch(i) ==
    LET b == releases[i].batch IN
    IF Members(i, b) = {} \/ b = 0 THEN Max({1, b}) ELSE b + 1

\* A batch that is not the one the row says is noted next.
NotesIt(r) == IF NextBatch(Rel(r)) = releases[Rel(r)].batch THEN StepDone(r) ELSE Moves(r, "note")

ChoosesBatch(r) ==
    LET i == Rel(r)
        left == IF releases[i].lease = r THEN {t \in Needing(Ver(r)) : member[i][t].state = "none"} ELSE {}
    IN
    /\ RollerAt(r, "choose")
    /\ IF left = {}
       THEN Moves(r, "back") /\ moved' = (IF Has(r) THEN {} ELSE moved) /\ UNCHANGED member
       ELSE /\ UNCHANGED moved
            /\ \E chosen \in kSubset(Min({BatchSize, Cardinality(left)}), left) :
                 member' = [member EXCEPT ![i] = [t \in Fleet |->
                     IF t \in chosen THEN [Absent EXCEPT !.state = "pending", !.batch = NextBatch(i)] ELSE @[t]]]
            /\ NotesIt(r)
    /\ UNCHANGED <<releases, fleet, current, desk, proven, unrecorded, asks, mishaps>>

NotesBatch(r) ==
    /\ RollerAt(r, "note") /\ StepDone(r)
    /\ SetsRelease(r, [releases[Rel(r)] EXCEPT !.batch = @ + 1])
    /\ UNCHANGED <<member, fleet, current, desk, proven, unrecorded, moved, asks, mishaps>>

\* Healthy once, and now on another version.
NoStragglers(i) == {}
Stragglers(i) == {t \in Needing(releases[i].version) : member[i][t].state = "healthy"}

Requeued(i, m) ==
    IF m.requeues >= MaxRequeues
    THEN [m EXCEPT !.state = "failed"]
    ELSE [m EXCEPT !.state = "pending", !.tries = 0, !.batch = NextBatch(i), !.requeues = @ + 1]

LooksBack(r) ==
    LET i == Rel(r) IN
    /\ RollerAt(r, "back")
    /\ IF Stragglers(i) = {}
       THEN Moves(r, "repair") /\ UNCHANGED member
       ELSE /\ NotesIt(r)
            /\ member' = IF Has(r)
                         THEN [member EXCEPT ![i] = [t \in Fleet |-> IF t \in Stragglers(i) THEN Requeued(i, @[t]) ELSE @[t]]]
                         ELSE member
    /\ UNCHANGED <<releases, fleet, current, desk, proven, unrecorded, moved, asks, mishaps>>

RepairsPointer(r) ==
    /\ RollerAt(r, "repair") /\ current' = Ver(r) /\ Moves(r, "finish")
    /\ UNCHANGED <<releases, member, fleet, desk, proven, unrecorded, moved, asks, mishaps>>

FinishesRelease(r) ==
    /\ \/ RollerAt(r, "finish") /\ SetsRelease(r, [releases[Rel(r)] EXCEPT !.state = "done"])
       \/ RollerAt(r, "stop") /\ SetsRelease(r, [releases[Rel(r)] EXCEPT !.state = "paused"])
    /\ Moves(r, "end")
    /\ UNCHANGED <<member, fleet, current, desk, proven, unrecorded, moved, asks, mishaps>>

\* releaseLease, whose write may fail.
EndsRun(r) ==
    /\ RollerAt(r, "end") /\ Quits(r)
    /\ releases' = IF releases[Rel(r)].lease = r THEN [releases EXCEPT ![Rel(r)].lease = NoRoller] ELSE releases
    /\ UNCHANGED <<member, fleet, current, desk, proven, unrecorded, moved, asks, mishaps>>

\* A read or write throws; or the Worker is gone.
Mishap == mishaps < MaxMishaps /\ mishaps' = mishaps + 1

RunThrows(r) ==
    /\ roller[r].pc \notin {"idle", "end"} /\ Mishap
    /\ (Moves(r, "end") \/ Quits(r))
    /\ UNCHANGED <<releases, member, fleet, current, desk, proven, unrecorded, moved, asks>>

\* lease_until passes: of a run that died, or of one that stalls.
LeaseRunsOut(i) ==
    /\ releases[i].lease # NoRoller /\ ~releases[i].over
    /\ releases' = [releases EXCEPT ![i].over = TRUE]
    /\ IF roller[releases[i].lease].pc = "idle" THEN UNCHANGED mishaps ELSE Mishap
    /\ UNCHANGED <<member, fleet, current, roller, desk, proven, unrecorded, moved, asks>>

-----------------------------------------------------------------------------
(* The owner's requests, one handler at a time.                             *)

Requests == {"rollout", "rollback", "pause", "resume", "skip_failed", "cancel"}

\* activeRelease and currentVersion, which every request reads first.
TakesRequest ==
    /\ desk.pc = "idle" /\ asks < MaxAsks /\ asks' = asks + 1
    /\ \E request \in Requests :
         desk' = [pc |-> request, rel |-> ActiveId, live |-> current,
                  state |-> IF ActiveId = 0 THEN "none" ELSE releases[ActiveId].state]
    /\ UNCHANGED <<releases, member, fleet, current, roller, proven, unrecorded, moved, mishaps>>

Answered == desk' = NoRequest
\* releases/current is moved after the row is in.
ThenPoints(i) == desk' = [desk EXCEPT !.pc = "point", !.rel = i]
Inserts(release) ==
    /\ Len(releases) < MaxReleases
    /\ LET ended == [i \in DOMAIN releases |->
                        IF i = desk.rel /\ releases[i].state \in Active
                        THEN [releases[i] EXCEPT !.state = "cancelled", !.lease = NoRoller, !.over = FALSE]
                        ELSE releases[i]]
       IN releases' = Append(ended, release)

\* chooseCanary: the one asked for, or one that needs the version; without one
\* the version is current at once.
StartsRollout ==
    /\ desk.pc = "rollout" /\ desk.rel = 0
    /\ \E v \in Versions, c \in Ready \cup {NoTenant} :
         LET new == [kind |-> "rollout", version |-> v, from |-> desk.live, canary |-> c, ran |-> FALSE,
                     state |-> IF c = NoTenant THEN "rolling" ELSE "canary",
                     batch |-> IF c = NoTenant THEN 1 ELSE 0, lease |-> NoRoller, over |-> FALSE]
         IN /\ c = NoTenant => Needing(v) = {}
            /\ Inserts(new)
            /\ IF c = NoTenant
               THEN ThenPoints(Len(releases')) /\ proven' = proven \cup {v} /\ UNCHANGED member
               ELSE /\ Answered /\ UNCHANGED proven
                    /\ member' = [member EXCEPT ![Len(releases')][c] = [Absent EXCEPT !.state = "pending"]]
    /\ UNCHANGED <<fleet, current, roller, unrecorded, moved, asks, mishaps>>

\* previousVersion: what the newest rollout to `live` replaced, else the newest
\* one from another version; 0 for none.
Rollouts == {i \in DOMAIN releases : releases[i].kind = "rollout"}
PreviousVersion(live) ==
    LET to == {i \in Rollouts : releases[i].version = live}
        others == {i \in Rollouts : releases[i].from # live}
    IN IF to # {} THEN releases[Max(to)].from ELSE IF others # {} THEN releases[Max(others)].from ELSE 0

ReplacesRollout == desk.rel # 0 /\ releases[desk.rel].kind = "rollout"
Target == IF ReplacesRollout THEN releases[desk.rel].from ELSE PreviousVersion(desk.live)

StartsRollback ==
    /\ desk.pc = "rollback" /\ Target # 0
    /\ desk.rel # 0 \/ desk.live # Target \/ Needing(Target) # {}
    /\ Inserts([kind |-> "rollback", version |-> Target,
                from |-> IF ReplacesRollout THEN releases[desk.rel].version ELSE desk.live,
                canary |-> NoTenant, ran |-> FALSE, state |-> "rolling", batch |-> 1,
                lease |-> NoRoller, over |-> FALSE])
    /\ ThenPoints(Len(releases'))
    /\ UNCHANGED <<member, fleet, current, roller, proven, unrecorded, moved, asks, mishaps>>

PointsNew ==
    /\ desk.pc = "point" /\ current' = releases[desk.rel].version /\ Answered
    /\ UNCHANGED <<releases, member, fleet, roller, proven, unrecorded, moved, asks, mishaps>>

AlwaysRolling(i) == "rolling"
ResumeState(i) ==
    IF releases[i].kind = "rollout" /\ ~releases[i].ran /\ releases[i].canary # NoTenant THEN "canary" ELSE "rolling"

\* The write is for the state that was read, and reports the change either way.
ChangesTo(i, state) ==
    releases' = IF releases[i].state # desk.state THEN releases
                ELSE IF state \in {"canary", "rolling"} THEN [releases EXCEPT ![i].state = state]
                ELSE [releases EXCEPT ![i].state = state, ![i].lease = NoRoller, ![i].over = FALSE]

\* The failed are tried again or skipped; the canary's busy runs count anew.
TriedAnew(m, state) ==
    IF m.state = "failed" THEN [m EXCEPT !.state = state, !.tries = IF state = "pending" THEN 0 ELSE @]
    ELSE IF m.state = "healthy" /\ m.batch = 0 THEN [m EXCEPT !.tries = 0] ELSE m
FailedBecome(i, state) == member' = [member EXCEPT ![i] = [t \in Fleet |-> TriedAnew(@[t], state)]]

ChangesActive ==
    LET i == desk.rel IN
    /\ i # 0
    /\ \/ desk.pc = "pause" /\ desk.state # "paused" /\ ChangesTo(i, "paused") /\ UNCHANGED member
       \/ desk.pc = "cancel" /\ ChangesTo(i, "cancelled") /\ UNCHANGED member
       \/ /\ desk.pc = "resume" /\ desk.state = "paused" /\ ChangesTo(i, ResumeState(i))
          /\ FailedBecome(i, "pending")
       \/ /\ desk.pc = "skip_failed" /\ desk.state = "paused" /\ releases[i].batch # 0 /\ ChangesTo(i, ResumeState(i))
          /\ FailedBecome(i, "skipped")
    /\ Answered
    /\ UNCHANGED <<fleet, current, roller, proven, unrecorded, moved, asks, mishaps>>

\* Refused, for one of the reasons above, or because it fails ./checks.ts or
\* its bundle does not load; or nothing to do; or the handler dies, at any step.
RefusesRequest ==
    /\ desk.pc \in Requests /\ Answered
    /\ UNCHANGED <<releases, member, fleet, current, roller, proven, unrecorded, moved, asks, mishaps>>
HandlerDies ==
    /\ desk.pc = "point" /\ Mishap /\ Answered
    /\ UNCHANGED <<releases, member, fleet, current, roller, proven, unrecorded, moved, asks>>
-----------------------------------------------------------------------------
(* Tenants come and go.                                                     *)

\* stepUpload, of the version that was current when it read the pointer; then
\* ready, from when on releases find it.
SignsUp(t) ==
    /\ fleet[t].stage = "new"
    /\ fleet' = [fleet EXCEPT ![t] = [stage |-> "made", row |-> current, script |-> current]]
    /\ UNCHANGED <<releases, member, current, roller, desk, proven, unrecorded, moved, asks, mishaps>>
GetsReady(t) ==
    /\ fleet[t].stage = "made" /\ fleet' = [fleet EXCEPT ![t].stage = "ready"] /\ moved' = moved \cup {t}
    /\ UNCHANGED <<releases, member, current, roller, desk, proven, unrecorded, asks, mishaps>>
IsRemoved(t) ==
    /\ fleet[t].stage = "ready" /\ fleet' = [fleet EXCEPT ![t].stage = "gone"]
    /\ UNCHANGED <<releases, member, current, roller, desk, proven, unrecorded, moved, asks, mishaps>>

RollerStep(r) ==
    \/ Begins(r) \/ Turn(r) \/ LooksAtTenant(r) \/ Uploads(r) \/ UploadFails(r) \/ RecordsVersion(r) \/ MarksUploaded(r)
    \/ HealthAnswers(r) \/ WritesHealth(r) \/ CallsScheduler(r) \/ CanaryIsBusy(r) \/ PointsAtProven(r) \/ CanaryRan(r)
    \/ ChoosesBatch(r) \/ NotesBatch(r) \/ LooksBack(r) \/ RepairsPointer(r) \/ FinishesRelease(r) \/ EndsRun(r)
DeskStep == StartsRollout \/ StartsRollback \/ PointsNew \/ ChangesActive \/ RefusesRequest \/ HandlerDies
FleetStep == \E t \in Fleet : SignsUp(t) \/ GetsReady(t) \/ IsRemoved(t)

ReleaseNext ==
    \/ \E r \in Rollers : TakesRelease(r) \/ RollerStep(r) \/ RunThrows(r)
    \/ \E i \in DOMAIN releases : LeaseRunsOut(i)
    \/ TakesRequest \/ DeskStep \/ FleetStep

ReleaseSpec == ReleaseInit /\ [][ReleaseNext]_releaseVars
-----------------------------------------------------------------------------

(* No tenant but a canary runs a new version, and no new tenant gets it,     *)
(* before a canary ran clean on it: whatever is paused, resumed, replaced or *)
(* dies meanwhile.                                                           *)
CanaryFirst ==
    /\ current \in proven \cup {First}
    /\ \A t \in Fleet :
         \/ fleet[t].script \in proven \cup {First, 0}
         \/ \E i \in DOMAIN releases : releases[i].version = fleet[t].script /\ releases[i].canary = t

(* "Each batch finished before the next starts": no tenant of a rollout is   *)
(* touched while one of a batch before it is open or failed; but for one     *)
(* that was found on another version once more than MAX_REQUEUES times,      *)
(* which stays in the batch it was in.                                       *)
BatchesInOrder ==
    \A i \in DOMAIN releases : releases[i].kind = "rollout" =>
        \A t, u \in Fleet :
            /\ member[i][u].state \in {"uploaded", "healthy"}
            /\ member[i][t].state \in Open \cup {"failed"} /\ member[i][t].batch < member[i][u].batch
            => member[i][t].requeues = MaxRequeues

(* A release that is done left no ready tenant on another version, by its    *)
(* row or in fact, unless the release says it failed or was skipped.  What   *)
(* that does not hold for: a tenant whose row changed after no more were     *)
(* found to update; one of a batch that was never noted; one of a batch that *)
(* is over which failed, for being found on another version once too often   *)
(* or in a rollback, and was then resumed; and, in fact but not by its row,  *)
(* one on which another release's upload landed and its record did not, or   *)
(* came before that of an older upload.                                      *)
Unnoted(i, t) == member[i][t].state \in Open /\ member[i][t].batch > releases[i].batch
Forgotten(i, t) ==
    /\ member[i][t].state \in Open /\ member[i][t].batch < releases[i].batch
    /\ releases[i].kind = "rollback" \/ member[i][t].requeues = MaxRequeues
TornByOther(i, t) == \E j \in ReleaseIds \ {i} : <<j, t>> \in unrecorded
DoneIsShipped ==
    [][\A i \in DOMAIN releases : releases'[i].state = "done" /\ releases[i].state # "done" =>
         \A t \in Ready \ moved :
            \/ member[i][t].state \in {"failed", "skipped"} \/ Unnoted(i, t) \/ Forgotten(i, t)
            \/ /\ fleet[t].row = releases[i].version
               /\ fleet[t].script = releases[i].version \/ TornByOther(i, t)]_releaseVars

(* A release that runs comes to an end, or stops for the owner, whatever     *)
(* dies or stalls, and however often tenants are found on another version.   *)
ReleaseEnds == RunningId # {} ~> RunningId = {}
===============================================================================
