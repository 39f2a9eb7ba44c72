----------------------------- MODULE Provisioning -----------------------------
(***************************************************************************)
(* A tenant's way to ready, and its removal (provisioning.ts).  A run takes *)
(* a lease on the tenant's row, then does step after step: it renews the    *)
(* lease, reads the row, makes the Cloudflare calls of the row's state and  *)
(* writes the next state, guarded by the state it read and by its lease.    *)
(* Runs come from sign-up, the queue (at least once), the cron and the      *)
(* admin; any may die, or stall until its lease passes to another run.      *)
(*                                                                         *)
(* Next attempts are taken to be due, or forced, at any time.               *)
(***************************************************************************)
EXTENDS Integers

CONSTANTS
    Runs, Nobody,
    MaxAttempts,    \* PROVISION_MAX_ATTEMPTS
    MaxDeaths,      \* bound: runs that die, and releases that fail
    MaxStalls       \* bound: leases that pass while their run is still working

ASSUME ProvisioningAssumption ==
    Nobody \notin Runs /\ MaxAttempts \in Nat \ {0} /\ MaxDeaths \in Nat /\ MaxStalls \in Nat

VARIABLES
    tenant,     \* the tenant's row
    holder,     \* whose provision_lease_token the row has
    lapsed,     \* provision_lease_until has passed
    prun,       \* each run: where it is, and the row it read
    cloud,      \* the tenant's database (by id, 0 for none), its schema, its script
    slugHeld,   \* the slug is in slug_holds
    deaths, stalls

provVars == <<tenant, holder, lapsed, prun, cloud, slugHeld, deaths, stalls>>

ProvisionStates == {"requested", "db_created", "uploaded", "migrated", "ready", "deleting"}
Steps == {"find", "create", "refind", "clear", "upload", "migrate", "verify",
          "unscript", "undb", "hold", "remove", "advance"}
Asleep == [pc |-> "idle", seen |-> "requested", tries |-> 0, db |-> 0, served |-> FALSE]

ProvisionTypeOK ==
    /\ tenant \in [state : ProvisionStates \cup {"gone"}, tries : 0 .. MaxAttempts,
                   paused : BOOLEAN, db : Nat, served : BOOLEAN]
    /\ holder \in Runs \cup {Nobody} /\ lapsed \in BOOLEAN
    /\ prun \in [Runs -> [pc : Steps \cup {"idle", "turn", "load", "record", "release"},
                          seen : ProvisionStates, tries : 0 .. MaxAttempts, db : Nat, served : BOOLEAN]]
    /\ cloud \in [db : Nat, made : Nat, schema : BOOLEAN, script : BOOLEAN]
    /\ slugHeld \in BOOLEAN
    /\ deaths \in 0 .. MaxDeaths /\ stalls \in 0 .. MaxStalls

\* requestTenant.
ProvisionInit ==
    /\ tenant = [state |-> "requested", tries |-> 0, paused |-> FALSE, db |-> 0, served |-> FALSE]
    /\ holder = Nobody /\ lapsed = FALSE
    /\ prun = [r \in Runs |-> Asleep]
    /\ cloud = [db |-> 0, made |-> 0, schema |-> FALSE, script |-> FALSE]
    /\ slugHeld = FALSE
    /\ deaths = 0 /\ stalls = 0

GoesTo(r, pc) == prun' = [prun EXCEPT ![r].pc = pc]
Forgets(r, pc) == prun' = [prun EXCEPT ![r] = [Asleep EXCEPT !.pc = pc]]
At(r, pc) == prun[r].pc = pc
Here == tenant.state # "gone"

-----------------------------------------------------------------------------
(* The lease.                                                               *)

LeaseAnyway == TRUE
LeaseOpen == holder = Nobody \/ lapsed

Acquire(r) ==
    /\ At(r, "idle") /\ tenant.state \notin {"ready", "gone"} /\ ~tenant.paused /\ LeaseOpen
    /\ holder' = r /\ lapsed' = FALSE
    /\ Forgets(r, "turn")
    /\ UNCHANGED <<tenant, cloud, slugHeld, deaths, stalls>>

\* renewLease before every step; the run ends when it lost the lease, or when
\* the write throws.
Renew(r) ==
    /\ At(r, "turn")
    /\ \/ holder = r /\ lapsed' = FALSE /\ GoesTo(r, "load")
       \/ UNCHANGED lapsed /\ Forgets(r, "release")
    /\ UNCHANGED <<tenant, holder, cloud, slugHeld, deaths, stalls>>

FirstCall == [requested |-> "find", db_created |-> "clear", uploaded |-> "migrate",
              migrated |-> "verify", deleting |-> "unscript"]

Load(r) ==
    /\ At(r, "load")
    /\ IF tenant.state \in DOMAIN FirstCall
       THEN prun' = [prun EXCEPT ![r] = [pc |-> FirstCall[tenant.state], seen |-> tenant.state,
                                         tries |-> tenant.tries, db |-> tenant.db, served |-> tenant.served]]
       ELSE Forgets(r, "release")
    /\ UNCHANGED <<tenant, holder, lapsed, cloud, slugHeld, deaths, stalls>>

Release(r) ==
    /\ At(r, "release") /\ Forgets(r, "idle")
    /\ \/ holder' = (IF holder = r THEN Nobody ELSE holder) /\ UNCHANGED deaths
       \/ deaths < MaxDeaths /\ deaths' = deaths + 1 /\ UNCHANGED holder
    /\ UNCHANGED <<tenant, lapsed, cloud, slugHeld, stalls>>
-----------------------------------------------------------------------------
(* The steps.                                                               *)

Remote(field, value) == cloud' = [cloud EXCEPT ![field] = value]
DatabaseMade == cloud.db = 0 /\ cloud' = [cloud EXCEPT !.db = cloud.made + 1, !.made = @ + 1]

RecordedDatabase(r) == prun[r].db
\* By its recorded id, else by its name: the answer of its creation may be lost.
DatabaseOf(r) == IF prun[r].db # 0 THEN prun[r].db ELSE cloud.db
DatabaseDeleted(r) ==
    IF DatabaseOf(r) = cloud.db THEN cloud' = [cloud EXCEPT !.db = 0, !.schema = FALSE] ELSE UNCHANGED cloud

\* What a call does at Cloudflare, or to the platform's other tables.  The
\* escrowed key of "find" and "clear" needs the row; deleting what is not there
\* succeeds.
Effect(r) ==
    \/ /\ \/ At(r, "clear") /\ Here /\ Remote("script", FALSE)
          \/ At(r, "upload") /\ cloud.db = prun[r].db /\ Remote("script", TRUE)
          \/ At(r, "migrate") /\ cloud.script /\ cloud.db # 0 /\ Remote("schema", TRUE)
          \/ At(r, "verify") /\ cloud.script /\ cloud.schema /\ UNCHANGED cloud
          \/ At(r, "unscript") /\ Remote("script", FALSE)
          \/ At(r, "undb") /\ DatabaseDeleted(r)
       /\ UNCHANGED slugHeld
    \/ At(r, "hold") /\ slugHeld' = (slugHeld \/ prun[r].served) /\ UNCHANGED cloud

NextCall == [clear |-> "upload", upload |-> "advance", migrate |-> "advance", verify |-> "advance",
             unscript |-> "undb", undb |-> "hold", hold |-> "remove"]

Call(r) ==
    /\ Effect(r) /\ GoesTo(r, NextCall[prun[r].pc])
    /\ UNCHANGED <<tenant, holder, lapsed, deaths, stalls>>

\* The database, looked up by its name before it is created and, when the
\* creation fails, after.  Names are unique in the account.
FindDatabase(r) ==
    /\ At(r, "find") /\ Here
    /\ GoesTo(r, IF cloud.db = 0 THEN "create" ELSE "advance")
    /\ UNCHANGED <<tenant, holder, lapsed, cloud, slugHeld, deaths, stalls>>

CreateDatabase(r) ==
    /\ At(r, "create")
    /\ \/ DatabaseMade /\ GoesTo(r, "advance")
       \/ (DatabaseMade \/ UNCHANGED cloud) /\ GoesTo(r, "refind")
    /\ UNCHANGED <<tenant, holder, lapsed, slugHeld, deaths, stalls>>

FindAgain(r) ==
    /\ At(r, "refind") /\ cloud.db # 0 /\ GoesTo(r, "advance")
    /\ UNCHANGED <<tenant, holder, lapsed, cloud, slugHeld, deaths, stalls>>

AdvancesByLease(r) == holder = r
Advances(r) == tenant.state = prun[r].seen /\ holder = r

NextState == [requested |-> "db_created", db_created |-> "uploaded", uploaded |-> "migrated", migrated |-> "ready"]

AdvanceLands(r) ==
    IF Advances(r)
    THEN tenant' = [tenant EXCEPT !.state = NextState[prun[r].seen], !.tries = 0,
                                  !.db = IF prun[r].seen = "requested" THEN cloud.db ELSE @,
                                  !.served = @ \/ prun[r].seen = "migrated"]
    ELSE UNCHANGED tenant

Advance(r) ==
    /\ At(r, "advance") /\ AdvanceLands(r) /\ Forgets(r, "turn")
    /\ UNCHANGED <<holder, lapsed, cloud, slugHeld, deaths, stalls>>

\* The rows go in one batch, guarded by the run's lease.
RowsGo(r) ==
    IF holder = r THEN tenant' = [tenant EXCEPT !.state = "gone"] /\ holder' = Nobody
    ELSE UNCHANGED <<tenant, holder>>

\* A removed tenant's run does not release.
Remove(r) ==
    /\ At(r, "remove") /\ RowsGo(r) /\ Forgets(r, "idle")
    /\ UNCHANGED <<lapsed, cloud, slugHeld, deaths, stalls>>

\* A call or write throws, after it took effect or before.
StepFails(r) ==
    /\ prun[r].pc \in Steps \ {"create"} /\ GoesTo(r, "record")
    /\ \/ Effect(r) /\ UNCHANGED <<tenant, holder>>
       \/ At(r, "advance") /\ AdvanceLands(r) /\ UNCHANGED <<holder, cloud, slugHeld>>
       \/ At(r, "remove") /\ RowsGo(r) /\ UNCHANGED <<cloud, slugHeld>>
       \/ UNCHANGED <<tenant, holder, cloud, slugHeld>>
    /\ UNCHANGED <<lapsed, deaths, stalls>>

-----------------------------------------------------------------------------
(* Failures, the owner, and what goes wrong.                                *)

PausesAnyState(r, permanent) == permanent \/ prun[r].tries + 1 >= MaxAttempts
\* A teardown keeps retrying.
Pauses(r, permanent) == prun[r].seen # "deleting" /\ (permanent \/ prun[r].tries + 1 >= MaxAttempts)

\* recordFailure, whose write may throw.
RecordFailure(r) ==
    /\ At(r, "record") /\ Forgets(r, "release")
    /\ \/ /\ Advances(r)
          /\ \E permanent \in BOOLEAN :
               tenant' = [tenant EXCEPT !.tries = IF prun[r].tries < MaxAttempts THEN prun[r].tries + 1 ELSE @,
                                        !.paused = Pauses(r, permanent)]
       \/ UNCHANGED tenant
    /\ UNCHANGED <<holder, lapsed, cloud, slugHeld, deaths, stalls>>

\* markForRemoval, and its copies in lifecycle/jobs.ts and account-deletion.ts.
MarkForRemoval ==
    /\ Here /\ tenant' = [tenant EXCEPT !.state = "deleting", !.tries = 0, !.paused = FALSE]
    /\ UNCHANGED <<holder, lapsed, prun, cloud, slugHeld, deaths, stalls>>

Unpause ==
    /\ Here /\ tenant.paused /\ tenant' = [tenant EXCEPT !.paused = FALSE, !.tries = 0]
    /\ UNCHANGED <<holder, lapsed, prun, cloud, slugHeld, deaths, stalls>>

Dies(r) ==
    /\ ~At(r, "idle") /\ deaths < MaxDeaths
    /\ Forgets(r, "idle") /\ deaths' = deaths + 1
    /\ UNCHANGED <<tenant, holder, lapsed, cloud, slugHeld, stalls>>

\* provision_lease_until passes: of a run that died, or of one that stalls.
LeasePasses ==
    /\ holder \in Runs /\ ~lapsed /\ At(holder, "idle") /\ lapsed' = TRUE
    /\ UNCHANGED <<tenant, holder, prun, cloud, slugHeld, deaths, stalls>>

Stalls ==
    /\ holder \in Runs /\ ~lapsed /\ ~At(holder, "idle") /\ lapsed' = TRUE
    /\ stalls < MaxStalls /\ stalls' = stalls + 1
    /\ UNCHANGED <<tenant, holder, prun, cloud, slugHeld, deaths>>

RunStep(r) ==
    \/ Renew(r) \/ Load(r) \/ Call(r) \/ FindDatabase(r) \/ CreateDatabase(r) \/ FindAgain(r)
    \/ Advance(r) \/ Remove(r) \/ StepFails(r) \/ RecordFailure(r) \/ Release(r)

ProvisionNext ==
    \/ \E r \in Runs : Acquire(r) \/ RunStep(r) \/ Dies(r)
    \/ MarkForRemoval \/ Unpause \/ LeasePasses \/ Stalls

ProvisionSpec == ProvisionInit /\ [][ProvisionNext]_provVars

-----------------------------------------------------------------------------

(* Only one run works on a tenant at a time, until one stalls for longer     *)
(* than its lease; deaths, lost answers and repeated messages do not break   *)
(* it.  (The calls to Cloudflare are not checked against the lease.)         *)
OneRunWorks ==
    stalls = 0 => \A r, s \in Runs : ~At(r, "idle") /\ ~At(s, "idle") => r = s

(* A tenant that is dispatched to has its script, and its own database with  *)
(* the schema in it.                                                         *)
ReadyIsWhole ==
    stalls = 0 /\ tenant.state = "ready" => cloud.script /\ cloud.schema /\ cloud.db = tenant.db

(* A removed tenant leaves no database and no script behind, wherever its    *)
(* provisioning had come to, and the slug of one that served is held back.   *)
NothingLeftBehind ==
    tenant.state = "gone" => /\ stalls = 0 => cloud.db = 0 /\ ~cloud.script
                             /\ tenant.served => slugHeld

(* A removal stands: no step or failure of a run that was under way puts the *)
(* tenant back, or pauses it, also one that lost its lease.                  *)
RemovalStands ==
    [][tenant.state = "deleting" => tenant'.state \in {"deleting", "gone"} /\ ~tenant'.paused]_provVars

(* A tenant becomes ready, or waits for the owner, or is removed, unless the *)
(* calls or writes of its runs fail for ever.                                *)
Unsettled == tenant.state \notin {"ready", "gone"} /\ (tenant.paused => tenant.state = "deleting")
Failing ==
    \E r \in Runs : \/ StepFails(r)
                    \/ At(r, "create") /\ prun'[r].pc = "refind"
                    \/ At(r, "turn") /\ prun'[r].pc = "release"
TenantSettles == (Unsettled ~> ~Unsettled) \/ []<><<Failing>>_provVars
===============================================================================
