------------------------------ MODULE MCPlatform ------------------------------
(***************************************************************************)
(* Small instances of what the platform does to a tenant: its provisioning  *)
(* and removal, its billing, the jobs that end it, and its releases.  They  *)
(* share no state here (each takes what the others do to the tenant as      *)
(* given), so a behaviour studies one scene while the others rest.          *)
(***************************************************************************)
EXTENDS Provisioning, Billing, Lifecycle, Releases

VARIABLE scene
vars == <<scene, provVars, billVars, lifeVars, releaseVars>>
billScenes == {"two plans", "an end"}
lifeScenes == {"lapses", "overruns"}
releaseScenes == {"batches", "ship", "overlap", "retry"}

\* The one that acts where one is enough, and the one that starts when all of
\* its kind are at rest (they do the same, so it stands for each of them).
CONSTANTS OnlySub, OnlyTenant, OtherTenant, FirstRun, FirstTick, FirstRoller
StartsFirst(first, idle) == first \in idle => idle \ {first} \subseteq idle'

Init ==
    /\ scene \in {"tenant"} \cup billScenes \cup lifeScenes \cup releaseScenes
    /\ ProvisionInit /\ BillInit /\ LifeInit
    /\ ReleaseInit /\ fleet[OnlyTenant].stage = "ready"
    /\ scene \notin releaseScenes \ {"batches"} => \A t \in Fleet : fleet[t].stage = "ready"

TenantBounds == StartsFirst(FirstRun, {r \in Runs : At(r, "idle")})

\* Two subscriptions of an account that stays, where one change and one slow
\* delivery meet; one subscription of an account that is deleted, with either.
BillBounds ==
    IF scene = "two plans"
    THEN account' = "open" /\ standing' # "gone" /\ trouble'.faults = 0 /\ trouble'.turns < 2 /\ trouble'.late < 2
    ELSE pages' \subseteq {OnlySub} /\ trouble'.turns + trouble'.faults + trouble'.late < 2

\* Two suspensions under one run at a time; two runs at once in one suspension.
\* A tenant to be deleted is the scene "tenant"'s.
LifeBounds ==
    /\ ~customer.deleting
    /\ IF scene = "lapses" THEN tickLock'.holder \in {FirstTick, NoTick} ELSE customer'.cycle < 2
    /\ StartsFirst(FirstTick, {t \in Ticks : TickAt(t, "idle")})

\* One rollout to three tenants; one run at a time on two tenants, of which one
\* may sign up; two runs at once on one tenant; and one run at a time of one
\* tenant, with all that may fail short of a run's death.  In the first two,
\* requests come between the runs and what may be tried again fails at once; in
\* the third, budgets do not end a run and a tenant answers well when it runs
\* what they shipped.
OneAtATime ==
    /\ \A r \in Rollers : roller'[r].pc # "idle" =>
           r = FirstRoller /\ roller'[r].pc \notin {"ill", "busy"} /\ desk'.pc \notin Requests
    /\ \A i \in ReleaseIds, t \in Fleet : member'[i][t].tries > 0 => member'[i][t].state = "failed"

ReleaseBounds ==
    CASE scene = "batches" ->
           /\ OneAtATime /\ Len(releases') < 2 /\ \A i \in DOMAIN releases' : releases'[i].canary = OnlyTenant
           /\ \A t \in Fleet : fleet'[t].stage = "ready"
      [] scene = "ship" ->
           /\ OneAtATime /\ fleet'[OnlyTenant].stage = "ready"
           /\ \A t \in Fleet : fleet'[t].stage # "gone" /\ (t \notin {OnlyTenant, OtherTenant} => fleet'[t].stage = "new")
      [] scene = "overlap" ->
           /\ \A t \in Fleet : fleet'[t].stage = IF t = OnlyTenant THEN "ready" ELSE "new"
           /\ \A r \in Rollers : roller'[r].pc = "end" => roller[r].pc \in {"turn", "finish", "stop", "end"}
           /\ StartsFirst(FirstRoller, {r \in Rollers : RollerAt(r, "idle")})
           /\ mishaps' # mishaps => \E i \in DOMAIN releases : LeaseRunsOut(i)
           /\ \A r \in Rollers : roller'[r].pc \notin {"refused", "busy"} /\ (roller'[r].pc = "ill" => Script(r)' # Ver(r)')
      [] scene = "retry" ->
           /\ mishaps' = 0 /\ \A t \in Fleet \ {OnlyTenant} : fleet'[t].stage = "new"
           /\ \A r \in Rollers \ {FirstRoller} : roller'[r].pc = "idle"

InTenant(A) == scene = "tenant" /\ A /\ TenantBounds /\ UNCHANGED <<scene, billVars, lifeVars, releaseVars>>
InBilling(A) == scene \in billScenes /\ A /\ BillBounds /\ UNCHANGED <<scene, provVars, lifeVars, releaseVars>>
InLifecycle(A) == scene \in lifeScenes /\ A /\ LifeBounds /\ UNCHANGED <<scene, provVars, billVars, releaseVars>>
InRelease(A) == scene \in releaseScenes /\ A /\ ReleaseBounds /\ UNCHANGED <<scene, provVars, billVars, lifeVars>>

Next == InTenant(ProvisionNext) \/ InBilling(BillNext) \/ InLifecycle(LifeNext) \/ InRelease(ReleaseNext)

\* A behaviour stays in its scene, so each fairness is the one of whatever scene
\* that is.  A run, a delivery or a roller goes on; Stripe delivers until it is
\* answered, the cron starts the runs again and again, and a handler answers;
\* what was leased by one that died, or is slow, is free in the end.
Numbered(S) == CHOOSE f \in [{1, 2} -> S] : f[1] # f[2]
RunNo == Numbered(Runs)
DeliveryNo == Numbered(Deliveries)
RollerNo == Numbered(Rollers)
Fairness ==
    /\ \A n \in {1, 2} : WF_vars(\/ InTenant(RunStep(RunNo[n])) \/ InBilling(DeliveryStep(DeliveryNo[n]))
                              \/ InRelease(RollerStep(RollerNo[n])))
    /\ WF_vars(InTenant(\E r \in Runs : Acquire(r)) \/ InBilling(Delivered) \/ InRelease(\E r \in Rollers : TakesRelease(r)))
    /\ WF_vars(InBilling(CloserStep) \/ InRelease(DeskStep))
    /\ WF_vars(InTenant(LeasePasses) \/ InBilling(LockPasses))
    /\ WF_vars(InBilling(account = "closing" /\ TenantGoes))
    /\ \A e \in 1 .. 6 : WF_vars(\/ InBilling(e <= Len(events) /\ ClaimPasses(e))
                               \/ InRelease(e \in DOMAIN releases /\ LeaseRunsOut(e)))

Spec == Init /\ [][Next]_vars /\ Fairness

(* The states of the four modules are of their types.                       *)
TypeOK == ProvisionTypeOK /\ BillTypeOK /\ LifeTypeOK /\ ReleaseTypeOK

(* A tenant becomes ready, or waits for the owner, or is removed, unless the *)
(* calls or writes of its runs fail for ever (where tenants are studied).    *)
TenantComesToRest == scene = "tenant" => TenantSettles
=============================================================================
