-------------------------- MODULE ProvisioningProofs --------------------------
(***************************************************************************)
(* Proofs about Provisioning, for any number of runs, attempts, deaths and  *)
(* stalls: a removal stands and holds the slug back whatever stale runs do, *)
(* and while no run stalls past its lease a tenant is provisioned and torn  *)
(* down by one run at a time, which leaves it whole or leaves nothing.      *)
(***************************************************************************)
EXTENDS Provisioning, TLAPS

Tenants == [state : ProvisionStates \cup {"gone"}, tries : 0 .. MaxAttempts,
            paused : BOOLEAN, db : Nat, served : BOOLEAN]
Clouds == [db : Nat, made : Nat, schema : BOOLEAN, script : BOOLEAN]
RunRecords == [pc : Steps \cup {"idle", "turn", "load", "record", "release"},
               seen : ProvisionStates, tries : 0 .. MaxAttempts, db : Nat, served : BOOLEAN]
Teardown == {"unscript", "undb", "hold", "remove"}

\* The state a run read, by the step it is at.
SeenOK(p) ==
    /\ p.pc \in {"find", "create", "refind"} => p.seen = "requested"
    /\ p.pc \in {"clear", "upload"} => p.seen = "db_created"
    /\ p.pc = "migrate" => p.seen = "uploaded"
    /\ p.pc = "verify" => p.seen = "migrated"
    /\ p.pc = "advance" => p.seen \in {"requested", "db_created", "uploaded", "migrated"}
    /\ p.pc \in Teardown => p.seen = "deleting"

\* What a run that tears down read stays true, and before the rows go the slug is held.
TornOK(p, t, held) ==
    p.pc \in Teardown =>
        /\ t.state \in {"deleting", "gone"} /\ p.served = t.served
        /\ p.pc = "remove" /\ p.served => held

RestOK(t) == t.state = "deleting" => ~t.paused
GoneOK(t, held) == t.state = "gone" /\ t.served => held

\* What the tenant's state says of the cloud, while nobody stalled.
ChainOK(t, c) ==
    /\ t.state = "requested" => t.db = 0
    /\ t.state \in {"db_created", "uploaded", "migrated", "ready"} => t.db = c.db /\ t.db # 0
    /\ t.state \in {"uploaded", "migrated", "ready"} => c.script
    /\ t.state \in {"migrated", "ready"} => c.schema
    /\ t.state = "deleting" => t.db = 0 \/ c.db \in {0, t.db}
    /\ t.state = "gone" => c.db = 0 /\ ~c.script

\* What the one run at work knows, while nobody stalled.
LoneOK(p, t, c) ==
    /\ t.state = "gone" => p.pc \in {"record", "release"}
    /\ t.state # "gone" /\ p.pc \in Steps =>
         /\ t.state \in {p.seen, "deleting"} /\ p.db = t.db
         /\ p.seen = "requested" => p.db = 0
         /\ p.seen \in {"db_created", "uploaded", "migrated"} => p.db # 0 /\ p.db = c.db
    /\ p.pc = "advance" =>
         /\ p.seen = "requested" => c.db # 0
         /\ p.seen = "db_created" => c.script
         /\ p.seen = "uploaded" => c.schema
    /\ p.pc = "undb" => ~c.script
    /\ p.pc \in {"hold", "remove"} => ~c.script /\ c.db = 0

Alone ==
    /\ \A r, s \in Runs : ~At(r, "idle") /\ ~At(s, "idle") => r = s
    /\ tenant.state # "gone" => \A r \in Runs : ~At(r, "idle") => holder = r /\ ~lapsed
    /\ \A r \in Runs : At(r, "idle") \/ LoneOK(prun[r], tenant, cloud)
    /\ ChainOK(tenant, cloud)

ProvInv ==
    /\ ProvisionTypeOK /\ RestOK(tenant) /\ GoneOK(tenant, slugHeld)
    /\ \A r \in Runs : SeenOK(prun[r]) /\ TornOK(prun[r], tenant, slugHeld)
    /\ stalls = 0 => Alone

LEMMA ProvParts ==
    ASSUME ProvInv
    PROVE  /\ tenant \in Tenants /\ cloud \in Clouds /\ prun \in [Runs -> RunRecords]
           /\ holder \in Runs \cup {Nobody} /\ lapsed \in BOOLEAN /\ slugHeld \in BOOLEAN
           /\ deaths \in 0 .. MaxDeaths /\ stalls \in 0 .. MaxStalls
BY DEF ProvInv, ProvisionTypeOK, Tenants, Clouds, RunRecords

LEMMA AsleepOK ==
    /\ Asleep \in RunRecords /\ Asleep.pc = "idle"
    /\ \A pc \in Steps \cup {"idle", "turn", "load", "record", "release"} :
         [Asleep EXCEPT !.pc = pc] \in RunRecords /\ [Asleep EXCEPT !.pc = pc].pc = pc
<1>1. "requested" \in ProvisionStates /\ 0 \in 0 .. MaxAttempts /\ 0 \in Nat
  BY ProvisioningAssumption DEF ProvisionStates
<1>2. Asleep \in RunRecords
  BY <1>1, Zenon DEF Asleep, RunRecords
<1>3. Asleep.pc = "idle"
  BY DEF Asleep
<1>. QED BY <1>2, <1>3 DEF RunRecords

LEMMA ProvInitOK == ProvisionInit => ProvInv
<1>. SUFFICES ASSUME ProvisionInit PROVE ProvInv
  OBVIOUS
<1>1. \A r \in Runs : prun[r] = Asleep /\ At(r, "idle")
  BY DEF ProvisionInit, Asleep, At
<1>2. "requested" \in ProvisionStates /\ 0 \in 0 .. MaxAttempts /\ 0 \in Nat
  BY ProvisioningAssumption DEF ProvisionStates
<1>3. tenant \in Tenants /\ cloud \in Clouds
  BY <1>2, Zenon DEF ProvisionInit, Tenants, Clouds
<1>a. prun \in [Runs -> RunRecords]
  BY AsleepOK DEF ProvisionInit
<1>b. holder \in Runs \cup {Nobody} /\ lapsed \in BOOLEAN /\ slugHeld \in BOOLEAN
  BY DEF ProvisionInit
<1>c. deaths \in 0 .. MaxDeaths /\ stalls \in 0 .. MaxStalls
  BY ProvisioningAssumption DEF ProvisionInit
<1>4. ProvisionTypeOK
  BY <1>3, <1>a, <1>b, <1>c DEF ProvisionTypeOK, Tenants, Clouds, RunRecords
<1>5. RestOK(tenant) /\ GoneOK(tenant, slugHeld) /\ ChainOK(tenant, cloud)
  BY DEF ProvisionInit, RestOK, GoneOK, ChainOK
<1>6. \A r \in Runs : SeenOK(prun[r]) /\ TornOK(prun[r], tenant, slugHeld)
  BY <1>1, AsleepOK DEF SeenOK, TornOK, Teardown
<1>7. Alone
  BY <1>1, <1>5 DEF Alone
<1>. QED BY <1>4, <1>5, <1>6, <1>7 DEF ProvInv

\* What holds of a run that is at work.
LEMMA AtWork ==
    ASSUME ProvInv, NEW r \in Runs, ~At(r, "idle")
    PROVE  /\ prun[r] \in RunRecords /\ SeenOK(prun[r]) /\ TornOK(prun[r], tenant, slugHeld)
           /\ stalls = 0 => /\ LoneOK(prun[r], tenant, cloud) /\ ChainOK(tenant, cloud)
                            /\ tenant.state # "gone" => holder = r /\ ~lapsed
BY ProvParts DEF ProvInv, Alone

\* A run that goes on, and what it must bring along.
LEMMA RunTakes ==
    ASSUME ProvInv, NEW r \in Runs, ~At(r, "idle"), UNCHANGED stalls,
           holder' \in Runs \cup {Nobody}, lapsed' \in BOOLEAN, deaths' \in 0 .. MaxDeaths,
           \E p \in RunRecords, t \in Tenants, c \in Clouds, held \in BOOLEAN :
             /\ prun' = [prun EXCEPT ![r] = p] /\ tenant' = t /\ cloud' = c /\ slugHeld' = held
             /\ SeenOK(p) /\ TornOK(p, t, held) /\ RestOK(t) /\ GoneOK(t, held)
             /\ slugHeld => held
             /\ tenant.state \in {"deleting", "gone"} =>
                  t.state \in {"deleting", "gone"} /\ t.served = tenant.served
             /\ stalls = 0 => /\ ChainOK(t, c)
                              /\ p.pc = "idle" \/ LoneOK(p, t, c)
                              /\ t.state # "gone" /\ p.pc # "idle" => holder' = r /\ ~lapsed'
    PROVE  ProvInv'
<1>0. PICK p \in RunRecords, t \in Tenants, c \in Clouds, held \in BOOLEAN :
             /\ prun' = [prun EXCEPT ![r] = p] /\ tenant' = t /\ cloud' = c /\ slugHeld' = held
             /\ SeenOK(p) /\ TornOK(p, t, held) /\ RestOK(t) /\ GoneOK(t, held)
             /\ slugHeld => held
             /\ tenant.state \in {"deleting", "gone"} =>
                  t.state \in {"deleting", "gone"} /\ t.served = tenant.served
             /\ stalls = 0 => /\ ChainOK(t, c)
                              /\ p.pc = "idle" \/ LoneOK(p, t, c)
                              /\ t.state # "gone" /\ p.pc # "idle" => holder' = r /\ ~lapsed'
  OBVIOUS
<1>1. prun' \in [Runs -> RunRecords] /\ prun'[r] = p /\ \A s \in Runs \ {r} : prun'[s] = prun[s]
  BY <1>0, ProvParts
<1>2. ProvisionTypeOK'
  BY <1>0, <1>1, ProvParts DEF ProvisionTypeOK, Tenants, Clouds, RunRecords
<1>3. RestOK(tenant)' /\ GoneOK(tenant, slugHeld)'
  BY <1>0 DEF RestOK, GoneOK
<1>4. \A s \in Runs : SeenOK(prun'[s]) /\ TornOK(prun'[s], tenant', slugHeld')
  <2>1. \A s \in Runs \ {r} : SeenOK(prun[s]) /\ TornOK(prun[s], tenant, slugHeld)
    BY DEF ProvInv
  <2>2. \A s \in Runs \ {r} : TornOK(prun[s], t, held)
    BY <1>0, <2>1 DEF TornOK
  <2>. QED BY <1>0, <1>1, <2>1, <2>2
<1>5. (\A s \in Runs : SeenOK(prun[s]) /\ TornOK(prun[s], tenant, slugHeld))'
  BY <1>4 DEF SeenOK, TornOK
<1>6. stalls' = 0 => Alone'
  <2>. SUFFICES ASSUME stalls = 0 PROVE Alone'
    OBVIOUS
  <2>1. \A s \in Runs \ {r} : prun'[s].pc = "idle"
    BY <1>1 DEF ProvInv, Alone, At
  <2>2. \A s \in Runs : prun'[s].pc # "idle" => s = r
    BY <2>1
  <2>3. ChainOK(tenant, cloud)'
    BY <1>0 DEF ChainOK
  <2>4. prun'[r].pc = "idle" \/ LoneOK(prun[r], tenant, cloud)'
    BY <1>0, <1>1 DEF LoneOK
  <2>5. prun'[r].pc # "idle" /\ tenant'.state # "gone" => holder' = r /\ ~lapsed'
    BY <1>0, <1>1
  <2>. QED BY <2>1, <2>2, <2>3, <2>4, <2>5 DEF Alone, At
<1>. QED BY <1>2, <1>3, <1>5, <1>6 DEF ProvInv

-----------------------------------------------------------------------------
(* Where a run may be.                                                      *)

Plain == {"idle", "turn", "load", "record", "release"}

LEMMA GoesOK ==
    ASSUME ProvInv, NEW r \in Runs, NEW pc \in Steps \cup Plain, GoesTo(r, pc)
    PROVE  \E p \in RunRecords :
             /\ prun' = [prun EXCEPT ![r] = p] /\ p.pc = pc
             /\ p.seen = prun[r].seen /\ p.db = prun[r].db /\ p.served = prun[r].served
<1>. DEFINE p == [prun[r] EXCEPT !.pc = pc]
<1>1. prun \in [Runs -> RunRecords] /\ prun[r] \in RunRecords
  BY ProvParts
<1>2. p \in RunRecords /\ p.pc = pc /\ p.seen = prun[r].seen /\ p.db = prun[r].db /\ p.served = prun[r].served
  BY <1>1 DEF RunRecords, Plain
<1>3. prun' = [prun EXCEPT ![r] = p]
  BY <1>1 DEF GoesTo, RunRecords
<1>. QED BY <1>2, <1>3

LEMMA ForgetsOK ==
    ASSUME ProvInv, NEW r \in Runs, NEW pc \in Plain, Forgets(r, pc)
    PROVE  \E p \in RunRecords : prun' = [prun EXCEPT ![r] = p] /\ p.pc = pc
BY AsleepOK DEF Forgets, Plain

\* Between steps nothing is relied on.
LEMMA PlainOK ==
    ASSUME NEW p, p.pc \in Plain, NEW t, NEW c, NEW held
    PROVE  /\ SeenOK(p) /\ TornOK(p, t, held)
           /\ t.state # "gone" \/ p.pc \in {"record", "release"} => LoneOK(p, t, c)
BY DEF Plain, SeenOK, TornOK, LoneOK, Steps, Teardown

LEMMA NowOK == ProvInv => RestOK(tenant) /\ GoneOK(tenant, slugHeld)
  BY DEF ProvInv

\* A run is not between steps of a tenant that is gone.
LEMMA StillHere ==
    ASSUME ProvInv, NEW r \in Runs, prun[r].pc \notin {"idle", "record", "release"}, stalls = 0
    PROVE  tenant.state # "gone"
BY AtWork DEF At, LoneOK

LEMMA LeaseSteps ==
    ASSUME ProvInv, NEW r \in Runs, Renew(r) \/ Release(r) \/ Dies(r)
    PROVE  ProvInv'
<1>1. ~At(r, "idle") /\ UNCHANGED <<tenant, cloud, slugHeld, stalls>>
  BY DEF Renew, Release, Dies, At
<1>2. holder' \in Runs \cup {Nobody} /\ lapsed' \in BOOLEAN
  BY ProvParts DEF Renew, Release, Dies
<1>3. deaths' \in 0 .. MaxDeaths
  <2>1. deaths \in 0 .. MaxDeaths
    BY ProvParts
  <2>2. deaths' = deaths \/ (deaths < MaxDeaths /\ deaths' = deaths + 1)
    BY DEF Renew, Release, Dies
  <2>. QED BY <2>1, <2>2, ProvisioningAssumption
<1>4. \E pc \in {"idle", "load", "release"}, p \in RunRecords :
        /\ prun' = [prun EXCEPT ![r] = p] /\ p.pc = pc
        /\ pc # "idle" => prun[r].pc = "turn" /\ holder' = holder
        /\ pc = "load" => lapsed' = FALSE
        /\ pc = "release" => lapsed' = lapsed
  <2>1. CASE Renew(r)
    <3>1. prun[r].pc = "turn" /\ holder' = holder
      BY <2>1 DEF Renew, At
    <3>2. CASE GoesTo(r, "load") /\ lapsed' = FALSE
      BY <3>1, <3>2, GoesOK DEF Plain
    <3>3. CASE Forgets(r, "release") /\ UNCHANGED lapsed
      BY <3>1, <3>3, ForgetsOK DEF Plain
    <3>. QED BY <2>1, <3>2, <3>3 DEF Renew
  <2>2. CASE Forgets(r, "idle")
    BY <2>2, ForgetsOK DEF Plain
  <2>. QED BY <2>1, <2>2 DEF Release, Dies
<1>5. PICK pc \in {"idle", "load", "release"}, p \in RunRecords :
        /\ prun' = [prun EXCEPT ![r] = p] /\ p.pc = pc
        /\ pc # "idle" => prun[r].pc = "turn" /\ holder' = holder
        /\ pc = "load" => lapsed' = FALSE
        /\ pc = "release" => lapsed' = lapsed
  BY <1>4
<1>6. SeenOK(p) /\ TornOK(p, tenant, slugHeld) /\ (tenant.state # "gone" => LoneOK(p, tenant, cloud))
  BY <1>5, PlainOK DEF Plain
<1>7. pc # "idle" /\ stalls = 0 => tenant.state # "gone"
  BY <1>5, StillHere
<1>8. stalls = 0 => /\ ChainOK(tenant, cloud) /\ (p.pc = "idle" \/ LoneOK(p, tenant, cloud))
                    /\ tenant.state # "gone" /\ p.pc # "idle" => holder' = r /\ ~lapsed'
  BY <1>1, <1>5, <1>6, <1>7, AtWork
<1>9. tenant \in Tenants /\ cloud \in Clouds /\ slugHeld \in BOOLEAN
  BY ProvParts
<1>. QED BY <1>1, <1>2, <1>3, <1>5, <1>6, <1>8, <1>9, NowOK, RunTakes

LEMMA LoadStep ==
    ASSUME ProvInv, NEW r \in Runs, Load(r)
    PROVE  ProvInv'
<1>1. prun[r].pc = "load" /\ ~At(r, "idle") /\ UNCHANGED <<tenant, holder, lapsed, cloud, slugHeld, deaths, stalls>>
  BY DEF Load, At
<1>2. tenant \in Tenants /\ cloud \in Clouds /\ slugHeld \in BOOLEAN /\ prun \in [Runs -> RunRecords]
  BY ProvParts
<1>3. stalls = 0 => ChainOK(tenant, cloud) /\ tenant.state # "gone" /\ holder = r /\ ~lapsed
  BY <1>1, AtWork, StillHere
<1>4. CASE tenant.state \in DOMAIN FirstCall
  <2>. DEFINE first == FirstCall[tenant.state]
             p == [pc |-> first, seen |-> tenant.state, tries |-> tenant.tries, db |-> tenant.db, served |-> tenant.served]
  <2>1. tenant.state \in {"requested", "db_created", "uploaded", "migrated", "deleting"}
    BY <1>4 DEF FirstCall
  <2>2. /\ tenant.state = "requested" => first = "find"
        /\ tenant.state = "db_created" => first = "clear"
        /\ tenant.state = "uploaded" => first = "migrate"
        /\ tenant.state = "migrated" => first = "verify"
        /\ tenant.state = "deleting" => first = "unscript"
    BY DEF FirstCall
  <2>3. first \in Steps
    BY <2>1, <2>2 DEF Steps
  <2>. HIDE DEF first
  <2>a. tenant.state \in ProvisionStates /\ first \in Steps \cup {"idle", "turn", "load", "record", "release"}
    BY <2>1, <2>3 DEF ProvisionStates
  <2>4. p \in RunRecords
    BY <1>2, <2>a, Zenon DEF RunRecords, Tenants
  <2>5. p.pc = first /\ p.seen = tenant.state /\ p.db = tenant.db /\ p.served = tenant.served
    OBVIOUS
  <2>6. prun' = [prun EXCEPT ![r] = p]
    BY <1>4 DEF Load, first
  <2>. HIDE DEF p
  <2>7. SeenOK(p) /\ TornOK(p, tenant, slugHeld)
    BY <2>1, <2>2, <2>5 DEF SeenOK, TornOK, Teardown
  <2>8. stalls = 0 => LoneOK(p, tenant, cloud)
    BY <1>3, <2>1, <2>2, <2>3, <2>5 DEF LoneOK, ChainOK
  <2>. QED BY <1>1, <1>2, <1>3, <2>4, <2>6, <2>7, <2>8, ProvParts, NowOK, RunTakes
<1>5. CASE tenant.state \notin DOMAIN FirstCall
  <2>1. PICK p \in RunRecords : prun' = [prun EXCEPT ![r] = p] /\ p.pc = "release"
    BY <1>5, ForgetsOK DEF Load, Plain
  <2>2. SeenOK(p) /\ TornOK(p, tenant, slugHeld) /\ LoneOK(p, tenant, cloud)
    BY <2>1, PlainOK DEF Plain
  <2>. QED BY <1>1, <1>2, <1>3, <2>1, <2>2, ProvParts, NowOK, RunTakes
<1>. QED BY <1>4, <1>5

-----------------------------------------------------------------------------
(* What the calls and writes of a step do.                                  *)

LEMMA EffectOK ==
    ASSUME ProvInv, NEW r \in Runs, Effect(r)
    PROVE  /\ cloud' \in Clouds /\ slugHeld' \in BOOLEAN /\ (slugHeld => slugHeld')
           /\ prun[r].pc \in {"clear", "upload", "migrate", "verify", "unscript", "undb", "hold"}
           /\ prun[r].pc = "hold" /\ prun[r].served => slugHeld'
           /\ stalls = 0 =>
                /\ ChainOK(tenant, cloud')
                /\ prun[r].pc = "upload" => cloud'.script
                /\ prun[r].pc = "migrate" => cloud'.schema
                /\ prun[r].pc = "unscript" => ~cloud'.script
                /\ prun[r].pc \in {"undb", "hold"} => ~cloud'.script /\ cloud'.db = 0
                /\ prun[r].pc # "undb" => cloud'.db = cloud.db
<1>. DEFINE me == prun[r]
<1>1. cloud \in Clouds /\ slugHeld \in BOOLEAN /\ tenant \in Tenants /\ me \in RunRecords
  BY ProvParts
<1>2. me.pc \in {"clear", "upload", "migrate", "verify", "unscript", "undb", "hold"} /\ ~At(r, "idle")
  BY DEF Effect, At
<1>3. cloud' \in Clouds /\ slugHeld' \in BOOLEAN /\ (slugHeld => slugHeld') /\ (me.pc = "hold" /\ me.served => slugHeld')
  <2>1. \/ cloud' \in {[cloud EXCEPT !.script = FALSE], [cloud EXCEPT !.script = TRUE], [cloud EXCEPT !.schema = TRUE]}
        \/ cloud' = [cloud EXCEPT !.db = 0, !.schema = FALSE] \/ cloud' = cloud
    BY DEF Effect, Remote, DatabaseDeleted
  <2>2. cloud' \in Clouds
    <3>1. [cloud EXCEPT !.script = FALSE] \in Clouds /\ [cloud EXCEPT !.script = TRUE] \in Clouds
      BY <1>1 DEF Clouds
    <3>2. [cloud EXCEPT !.schema = TRUE] \in Clouds
      BY <1>1 DEF Clouds
    <3>3. [cloud EXCEPT !.db = 0, !.schema = FALSE] \in Clouds
      BY <1>1 DEF Clouds
    <3>. QED BY <1>1, <2>1, <3>1, <3>2, <3>3
  <2>3. (slugHeld' = slugHeld /\ me.pc # "hold") \/ (slugHeld' = (slugHeld \/ me.served) /\ me.served \in BOOLEAN)
    BY <1>1 DEF Effect, At, RunRecords
  <2>. QED BY <1>1, <2>2, <2>3
<1>4. ASSUME stalls = 0
      PROVE  /\ ChainOK(tenant, cloud')
             /\ me.pc = "upload" => cloud'.script
             /\ me.pc = "migrate" => cloud'.schema
             /\ me.pc = "unscript" => ~cloud'.script
             /\ me.pc \in {"undb", "hold"} => ~cloud'.script /\ cloud'.db = 0
             /\ me.pc # "undb" => cloud'.db = cloud.db
  <2>1. SeenOK(me) /\ LoneOK(me, tenant, cloud) /\ ChainOK(tenant, cloud)
    BY <1>2, <1>4, AtWork
  <2>2. tenant.state # "gone" /\ me.pc \in Steps
    BY <1>2, <1>4, StillHere DEF Steps
  <2>3. tenant.state \in {me.seen, "deleting"} /\ me.db = tenant.db
    BY <2>1, <2>2 DEF LoneOK
  <2>4. CASE me.pc \in {"clear", "unscript"}
    <3>1. /\ cloud'.script = FALSE /\ cloud'.db = cloud.db /\ cloud'.schema = cloud.schema
          /\ tenant.state \in {"db_created", "deleting"}
      BY <1>1, <2>1, <2>3, <2>4 DEF Effect, Remote, Clouds, At, SeenOK, Teardown
    <3>. QED BY <2>1, <2>4, <3>1 DEF ChainOK
  <2>5. CASE me.pc = "upload"
    <3>1. cloud'.script /\ cloud'.db = cloud.db /\ cloud'.schema = cloud.schema
      BY <1>1, <2>5 DEF Effect, Remote, Clouds, At
    <3>. QED BY <2>1, <2>2, <2>5, <3>1 DEF ChainOK
  <2>6. CASE me.pc = "migrate"
    <3>1. cloud'.schema /\ cloud'.db = cloud.db /\ cloud'.script = cloud.script
      BY <1>1, <2>6 DEF Effect, Remote, Clouds, At
    <3>. QED BY <2>1, <2>2, <2>6, <3>1 DEF ChainOK
  <2>7. CASE me.pc = "undb"
    <3>1. tenant.state = "deleting" /\ ~cloud.script
      BY <2>1, <2>3, <2>7 DEF SeenOK, Teardown, LoneOK
    <3>2. tenant.db = 0 \/ cloud.db \in {0, tenant.db}
      BY <2>1, <3>1 DEF ChainOK
    <3>3. DatabaseOf(r) = cloud.db \/ cloud.db = 0
      BY <2>3, <3>2 DEF DatabaseOf
    <3>4. cloud'.db = 0 /\ cloud'.script = cloud.script
      BY <1>1, <2>7, <3>3 DEF Effect, DatabaseDeleted, Clouds, At
    <3>. QED BY <2>7, <3>1, <3>4 DEF ChainOK
  <2>8. CASE me.pc \in {"verify", "hold"}
    <3>1. cloud' = cloud
      BY <2>8 DEF Effect, At
    <3>. QED BY <2>1, <2>8, <3>1 DEF LoneOK
  <2>. QED BY <1>2, <2>4, <2>5, <2>6, <2>7, <2>8
<1>. QED BY <1>2, <1>3, <1>4

LEMMA AdvanceOK ==
    ASSUME ProvInv, NEW r \in Runs, At(r, "advance"), AdvanceLands(r)
    PROVE  /\ tenant' \in Tenants /\ RestOK(tenant)' /\ GoneOK(tenant', slugHeld)
           /\ tenant.state \in {"deleting", "gone"} => tenant' = tenant
           /\ stalls = 0 => ChainOK(tenant', cloud) /\ tenant'.state # "gone"
<1>. DEFINE me == prun[r]
<1>1. cloud \in Clouds /\ tenant \in Tenants /\ me \in RunRecords /\ RestOK(tenant) /\ GoneOK(tenant, slugHeld)
  BY ProvParts, NowOK
<1>2. me.pc = "advance" /\ ~At(r, "idle") /\ me.seen \in {"requested", "db_created", "uploaded", "migrated"}
  BY AtWork DEF At, SeenOK
<1>3. stalls = 0 => LoneOK(me, tenant, cloud) /\ ChainOK(tenant, cloud) /\ tenant.state # "gone"
  BY <1>2, AtWork, StillHere
<1>4. CASE ~Advances(r)
  BY <1>1, <1>3, <1>4 DEF AdvanceLands, RestOK
<1>5. CASE Advances(r)
  <2>. DEFINE next == NextState[me.seen]
              db == IF me.seen = "requested" THEN cloud.db ELSE tenant.db
              served == tenant.served \/ me.seen = "migrated"
  <2>1. /\ me.seen = "requested" => next = "db_created"
        /\ me.seen = "db_created" => next = "uploaded"
        /\ me.seen = "uploaded" => next = "migrated"
        /\ me.seen = "migrated" => next = "ready"
    BY DEF NextState
  <2>2. next \in {"db_created", "uploaded", "migrated", "ready"} /\ next \in ProvisionStates
    BY <1>2, <2>1 DEF ProvisionStates
  <2>. HIDE DEF next
  <2>3. tenant.state = me.seen /\ tenant' = [tenant EXCEPT !.state = next, !.tries = 0, !.db = db, !.served = served]
    BY <1>5 DEF AdvanceLands, Advances, next
  <2>4. db \in Nat /\ served \in BOOLEAN /\ 0 \in 0 .. MaxAttempts
    BY <1>1, ProvisioningAssumption DEF Clouds, Tenants
  <2>. HIDE DEF db, served
  <2>5. tenant' \in Tenants /\ tenant'.state = next /\ tenant'.db = db
    BY <1>1, <2>2, <2>3, <2>4 DEF Tenants
  <2>6. ASSUME stalls = 0 PROVE ChainOK(tenant', cloud)
    <3>1. LoneOK(me, tenant, cloud) /\ ChainOK(tenant, cloud)
      BY <1>3, <2>6
    <3>2. CASE me.seen = "requested"
      <4>1. db = cloud.db /\ cloud.db # 0 /\ next = "db_created"
        BY <1>2, <2>1, <3>1, <3>2 DEF LoneOK, db
      <4>. QED BY <2>5, <4>1 DEF ChainOK
    <3>3. CASE me.seen = "db_created"
      <4>1. db = tenant.db /\ cloud.script /\ next = "uploaded"
        BY <1>2, <2>1, <3>1, <3>3 DEF LoneOK, db
      <4>. QED BY <2>3, <2>5, <3>1, <3>3, <4>1 DEF ChainOK
    <3>4. CASE me.seen = "uploaded"
      <4>1. db = tenant.db /\ cloud.schema /\ next = "migrated"
        BY <1>2, <2>1, <3>1, <3>4 DEF LoneOK, db
      <4>. QED BY <2>3, <2>5, <3>1, <3>4, <4>1 DEF ChainOK
    <3>5. CASE me.seen = "migrated"
      <4>1. db = tenant.db /\ next = "ready"
        BY <2>1, <3>5 DEF db
      <4>. QED BY <2>3, <2>5, <3>1, <3>5, <4>1 DEF ChainOK
    <3>. QED BY <1>2, <3>2, <3>3, <3>4, <3>5
  <2>7. RestOK(tenant)' /\ GoneOK(tenant', slugHeld)
    BY <2>2, <2>5 DEF RestOK, GoneOK
  <2>. QED BY <1>2, <2>2, <2>3, <2>5, <2>6, <2>7
<1>. QED BY <1>4, <1>5

LEMMA RowsGoOK ==
    ASSUME ProvInv, NEW r \in Runs, At(r, "remove"), RowsGo(r)
    PROVE  /\ tenant' \in Tenants /\ holder' \in Runs \cup {Nobody}
           /\ RestOK(tenant)' /\ GoneOK(tenant', slugHeld)
           /\ tenant.state \in {"deleting", "gone"} => tenant'.state \in {"deleting", "gone"}
           /\ tenant'.served = tenant.served
           /\ stalls = 0 => ChainOK(tenant', cloud) /\ tenant'.state = "gone"
<1>. DEFINE me == prun[r]
<1>1. tenant \in Tenants /\ holder \in Runs \cup {Nobody} /\ RestOK(tenant) /\ GoneOK(tenant, slugHeld)
  BY ProvParts, NowOK
<1>2. me.pc = "remove" /\ ~At(r, "idle")
  BY DEF At
<1>3. TornOK(me, tenant, slugHeld)
  BY <1>2, AtWork
<1>4. stalls = 0 => LoneOK(me, tenant, cloud) /\ holder = r
  BY <1>2, AtWork, StillHere
<1>5. CASE holder = r
  <2>1. tenant' \in Tenants /\ tenant'.state = "gone" /\ tenant'.served = tenant.served /\ holder' = Nobody
    BY <1>1, <1>5 DEF RowsGo, Tenants
  <2>2. GoneOK(tenant', slugHeld)
    BY <1>2, <1>3, <2>1 DEF GoneOK, TornOK, Teardown
  <2>3. stalls = 0 => ChainOK(tenant', cloud)
    BY <1>2, <1>4, <2>1 DEF LoneOK, ChainOK
  <2>. QED BY <2>1, <2>2, <2>3 DEF RestOK
<1>6. CASE holder # r
  BY <1>1, <1>4, <1>6 DEF RowsGo, RestOK
<1>. QED BY <1>5, <1>6

-----------------------------------------------------------------------------
(* The steps.                                                               *)

LEMMA CallStep ==
    ASSUME ProvInv, NEW r \in Runs, Call(r)
    PROVE  ProvInv'
<1>. DEFINE me == prun[r]
<1>1. UNCHANGED <<tenant, holder, lapsed, deaths, stalls>> /\ Effect(r) /\ GoesTo(r, NextCall[me.pc])
  BY DEF Call
<1>2. /\ cloud' \in Clouds /\ slugHeld' \in BOOLEAN /\ (slugHeld => slugHeld')
      /\ me.pc \in {"clear", "upload", "migrate", "verify", "unscript", "undb", "hold"}
      /\ me.pc = "hold" /\ me.served => slugHeld'
      /\ stalls = 0 =>
           /\ ChainOK(tenant, cloud')
           /\ me.pc = "upload" => cloud'.script
           /\ me.pc = "migrate" => cloud'.schema
           /\ me.pc = "unscript" => ~cloud'.script
           /\ me.pc \in {"undb", "hold"} => ~cloud'.script /\ cloud'.db = 0
           /\ me.pc # "undb" => cloud'.db = cloud.db
  BY <1>1, EffectOK
<1>3. ~At(r, "idle") /\ me.pc \in Steps
  BY <1>2 DEF At, Steps
<1>4. /\ me.pc = "clear" => NextCall[me.pc] = "upload"
      /\ me.pc \in {"upload", "migrate", "verify"} => NextCall[me.pc] = "advance"
      /\ me.pc = "unscript" => NextCall[me.pc] = "undb"
      /\ me.pc = "undb" => NextCall[me.pc] = "hold"
      /\ me.pc = "hold" => NextCall[me.pc] = "remove"
  BY DEF NextCall
<1>5. NextCall[me.pc] \in Steps
  BY <1>2, <1>4 DEF Steps
<1>6. PICK p \in RunRecords :
             /\ prun' = [prun EXCEPT ![r] = p] /\ p.pc = NextCall[me.pc]
             /\ p.seen = me.seen /\ p.db = me.db /\ p.served = me.served
  BY <1>1, <1>5, GoesOK
<1>7. SeenOK(me) /\ TornOK(me, tenant, slugHeld)
  BY <1>3, AtWork
<1>8. SeenOK(p)
  BY <1>2, <1>4, <1>6, <1>7 DEF SeenOK, Teardown
<1>9. TornOK(p, tenant, slugHeld')
  BY <1>2, <1>4, <1>6, <1>7 DEF TornOK, Teardown
<1>10. ASSUME stalls = 0 PROVE LoneOK(p, tenant, cloud') /\ holder = r /\ ~lapsed
  <2>1. LoneOK(me, tenant, cloud) /\ ChainOK(tenant, cloud) /\ tenant.state # "gone" /\ holder = r /\ ~lapsed
    BY <1>2, <1>3, <1>10, AtWork, StillHere
  <2>2. tenant.state \in {me.seen, "deleting"} /\ me.db = tenant.db /\ (me.seen = "requested" => me.db = 0)
    BY <1>3, <2>1 DEF LoneOK
  <2>3. me.seen \in {"db_created", "uploaded", "migrated"} => me.db # 0 /\ me.db = cloud.db /\ me.pc # "undb"
    BY <1>3, <1>7, <2>1 DEF LoneOK, SeenOK, Teardown
  <2>4. p.pc = "advance" =>
          /\ p.seen # "requested"
          /\ p.seen = "db_created" => cloud'.script
          /\ p.seen = "uploaded" => cloud'.schema
    BY <1>2, <1>4, <1>6, <1>7, <1>10 DEF SeenOK
  <2>5. (p.pc = "undb" => ~cloud'.script) /\ (p.pc \in {"hold", "remove"} => ~cloud'.script /\ cloud'.db = 0)
    BY <1>2, <1>4, <1>6, <1>10
  <2>6. me.pc # "undb" => cloud'.db = cloud.db
    BY <1>2, <1>10
  <2>7. tenant.state \in {p.seen, "deleting"} /\ p.db = tenant.db /\ (p.seen = "requested" => p.db = 0)
    BY <1>6, <2>2
  <2>8. p.seen \in {"db_created", "uploaded", "migrated"} => p.db # 0 /\ p.db = cloud'.db
    BY <1>6, <2>3, <2>6
  <2>. HIDE DEF me
  <2>. QED BY <2>1, <2>4, <2>5, <2>7, <2>8 DEF LoneOK
<1>11. GoneOK(tenant, slugHeld') /\ RestOK(tenant)
  BY <1>2, NowOK DEF GoneOK
<1>12. stalls = 0 => ChainOK(tenant, cloud')
  BY <1>2
<1>. QED BY <1>1, <1>2, <1>3, <1>6, <1>8, <1>9, <1>10, <1>11, <1>12, ProvParts, RunTakes

\* The database is made, looked up, and looked up again.
LEMMA FindSteps ==
    ASSUME ProvInv, NEW r \in Runs, FindDatabase(r) \/ CreateDatabase(r) \/ FindAgain(r)
    PROVE  ProvInv'
<1>. DEFINE me == prun[r]
<1>1. /\ me.pc \in {"find", "create", "refind"} /\ ~At(r, "idle") /\ me.pc \in Steps
      /\ UNCHANGED <<tenant, holder, lapsed, slugHeld, deaths, stalls>>
  BY DEF FindDatabase, CreateDatabase, FindAgain, At, Steps
<1>2. cloud \in Clouds /\ tenant \in Tenants /\ me \in RunRecords
  BY ProvParts
<1>3. /\ cloud' = cloud \/ DatabaseMade
      /\ DatabaseMade => cloud'.db # 0 /\ cloud' \in Clouds /\ cloud'.script = cloud.script /\ cloud'.schema = cloud.schema
  <2>1. cloud' = cloud \/ DatabaseMade
    BY DEF FindDatabase, CreateDatabase, FindAgain
  <2>2. cloud.made + 1 \in Nat /\ cloud.made + 1 # 0
    BY <1>2 DEF Clouds
  <2>3. DatabaseMade => cloud' = [cloud EXCEPT !.db = cloud.made + 1, !.made = cloud.made + 1]
    BY <1>2 DEF DatabaseMade, Clouds
  <2>. QED BY <1>2, <2>1, <2>2, <2>3 DEF Clouds
<1>4. PICK pc \in {"create", "refind", "advance"} : GoesTo(r, pc) /\ (pc = "advance" => cloud'.db # 0)
  <2>1. CASE FindDatabase(r)
    BY <2>1 DEF FindDatabase
  <2>2. CASE CreateDatabase(r)
    BY <1>3, <2>2 DEF CreateDatabase
  <2>3. CASE FindAgain(r)
    BY <2>3 DEF FindAgain
  <2>. QED BY <2>1, <2>2, <2>3
<1>5. pc \in Steps
  BY DEF Steps
<1>6. PICK p \in RunRecords :
             /\ prun' = [prun EXCEPT ![r] = p] /\ p.pc = pc
             /\ p.seen = me.seen /\ p.db = me.db /\ p.served = me.served
  BY <1>4, <1>5, GoesOK
<1>7. me.seen = "requested" /\ p.seen = "requested"
  BY <1>1, <1>6, AtWork DEF SeenOK
<1>8. SeenOK(p) /\ TornOK(p, tenant, slugHeld)
  BY <1>6, <1>7 DEF SeenOK, TornOK, Teardown
<1>9. ASSUME stalls = 0 PROVE ChainOK(tenant, cloud') /\ LoneOK(p, tenant, cloud') /\ holder = r /\ ~lapsed
  <2>1. LoneOK(me, tenant, cloud) /\ ChainOK(tenant, cloud) /\ tenant.state # "gone" /\ holder = r /\ ~lapsed
    BY <1>1, <1>9, AtWork, StillHere
  <2>2. tenant.state \in {"requested", "deleting"} /\ me.db = tenant.db /\ me.db = 0
    BY <1>1, <1>7, <2>1 DEF LoneOK
  <2>3. ChainOK(tenant, cloud')
    BY <2>2 DEF ChainOK
  <2>4. LoneOK(p, tenant, cloud')
    BY <1>4, <1>6, <1>7, <2>1, <2>2 DEF LoneOK
  <2>. QED BY <2>1, <2>3, <2>4
<1>10. cloud' \in Clouds /\ slugHeld \in BOOLEAN
  BY <1>2, <1>3, ProvParts
<1>. QED BY <1>1, <1>2, <1>6, <1>8, <1>9, <1>10, NowOK, ProvParts, RunTakes

LEMMA AdvanceStep ==
    ASSUME ProvInv, NEW r \in Runs, Advance(r)
    PROVE  ProvInv'
<1>1. /\ At(r, "advance") /\ ~At(r, "idle") /\ AdvanceLands(r) /\ Forgets(r, "turn")
      /\ UNCHANGED <<holder, lapsed, cloud, slugHeld, deaths, stalls>>
  BY DEF Advance, At
<1>2. /\ tenant' \in Tenants /\ RestOK(tenant)' /\ GoneOK(tenant', slugHeld)
      /\ tenant.state \in {"deleting", "gone"} => tenant' = tenant
      /\ stalls = 0 => ChainOK(tenant', cloud) /\ tenant'.state # "gone"
  BY <1>1, AdvanceOK
<1>3. PICK p \in RunRecords : prun' = [prun EXCEPT ![r] = p] /\ p.pc = "turn"
  BY <1>1, ForgetsOK DEF Plain
<1>4. PICK t \in Tenants : tenant' = t
  BY <1>2
<1>5. SeenOK(p) /\ TornOK(p, t, slugHeld) /\ (t.state # "gone" => LoneOK(p, t, cloud))
  BY <1>3, PlainOK DEF Plain
<1>6. stalls = 0 => tenant.state # "gone" /\ holder = r /\ ~lapsed
  BY <1>1, AtWork, StillHere DEF At
<1>7. RestOK(t) /\ GoneOK(t, slugHeld) /\ (stalls = 0 => ChainOK(t, cloud) /\ t.state # "gone")
  BY <1>2, <1>4 DEF RestOK
<1>8. cloud \in Clouds /\ slugHeld \in BOOLEAN /\ holder \in Runs \cup {Nobody} /\ lapsed \in BOOLEAN /\ deaths \in 0 .. MaxDeaths
  BY ProvParts
<1>. QED BY <1>1, <1>2, <1>3, <1>4, <1>5, <1>6, <1>7, <1>8, RunTakes

LEMMA RemoveStep ==
    ASSUME ProvInv, NEW r \in Runs, Remove(r)
    PROVE  ProvInv'
<1>1. /\ At(r, "remove") /\ ~At(r, "idle") /\ RowsGo(r) /\ Forgets(r, "idle")
      /\ UNCHANGED <<lapsed, cloud, slugHeld, deaths, stalls>>
  BY DEF Remove, At
<1>2. /\ tenant' \in Tenants /\ holder' \in Runs \cup {Nobody}
      /\ RestOK(tenant)' /\ GoneOK(tenant', slugHeld)
      /\ tenant.state \in {"deleting", "gone"} => tenant'.state \in {"deleting", "gone"}
      /\ tenant'.served = tenant.served
      /\ stalls = 0 => ChainOK(tenant', cloud) /\ tenant'.state = "gone"
  BY <1>1, RowsGoOK
<1>3. PICK p \in RunRecords : prun' = [prun EXCEPT ![r] = p] /\ p.pc = "idle"
  BY <1>1, ForgetsOK DEF Plain
<1>4. PICK t \in Tenants : tenant' = t
  BY <1>2
<1>5. SeenOK(p) /\ TornOK(p, t, slugHeld)
  BY <1>3, PlainOK DEF Plain
<1>6. RestOK(t) /\ GoneOK(t, slugHeld) /\ (stalls = 0 => ChainOK(t, cloud))
  BY <1>2, <1>4 DEF RestOK
<1>7. cloud \in Clouds /\ slugHeld \in BOOLEAN /\ lapsed \in BOOLEAN /\ deaths \in 0 .. MaxDeaths
  BY ProvParts
<1>. QED BY <1>1, <1>2, <1>3, <1>4, <1>5, <1>6, <1>7, RunTakes

LEMMA StepFailsStep ==
    ASSUME ProvInv, NEW r \in Runs, StepFails(r)
    PROVE  ProvInv'
<1>1. prun[r].pc \in Steps /\ ~At(r, "idle") /\ GoesTo(r, "record") /\ UNCHANGED <<lapsed, deaths, stalls>>
  BY DEF StepFails, Steps, At
<1>2. PICK p \in RunRecords : prun' = [prun EXCEPT ![r] = p] /\ p.pc = "record"
  BY <1>1, GoesOK DEF Plain
<1>3. \A t \in Tenants, c \in Clouds, held \in BOOLEAN : SeenOK(p) /\ TornOK(p, t, held) /\ LoneOK(p, t, c)
  BY <1>2, PlainOK DEF Plain
<1>4. stalls = 0 => tenant.state # "gone" /\ holder = r /\ ~lapsed /\ ChainOK(tenant, cloud)
  BY <1>1, AtWork, StillHere DEF Steps
<1>5. /\ tenant \in Tenants /\ cloud \in Clouds /\ slugHeld \in BOOLEAN /\ holder \in Runs \cup {Nobody}
      /\ lapsed \in BOOLEAN /\ deaths \in 0 .. MaxDeaths /\ RestOK(tenant) /\ GoneOK(tenant, slugHeld)
  BY ProvParts, NowOK
<1>6. CASE Effect(r) /\ UNCHANGED <<tenant, holder>>
  <2>1. /\ cloud' \in Clouds /\ slugHeld' \in BOOLEAN /\ (slugHeld => slugHeld')
        /\ stalls = 0 => ChainOK(tenant, cloud')
    BY <1>6, EffectOK
  <2>2. GoneOK(tenant, slugHeld')
    BY <1>5, <2>1 DEF GoneOK
  <2>. QED BY <1>1, <1>2, <1>3, <1>4, <1>5, <1>6, <2>1, <2>2, RunTakes
<1>7. CASE At(r, "advance") /\ AdvanceLands(r) /\ UNCHANGED <<holder, cloud, slugHeld>>
  <2>1. /\ tenant' \in Tenants /\ RestOK(tenant)' /\ GoneOK(tenant', slugHeld)
        /\ tenant.state \in {"deleting", "gone"} => tenant' = tenant
        /\ stalls = 0 => ChainOK(tenant', cloud)
    BY <1>7, AdvanceOK
  <2>2. PICK t \in Tenants : tenant' = t
    BY <2>1
  <2>3. RestOK(t) /\ GoneOK(t, slugHeld) /\ (stalls = 0 => ChainOK(t, cloud))
    BY <2>1, <2>2 DEF RestOK
  <2>. QED BY <1>1, <1>2, <1>3, <1>4, <1>5, <1>7, <2>1, <2>2, <2>3, RunTakes
<1>8. CASE At(r, "remove") /\ RowsGo(r) /\ UNCHANGED <<cloud, slugHeld>>
  <2>1. /\ tenant' \in Tenants /\ holder' \in Runs \cup {Nobody}
        /\ RestOK(tenant)' /\ GoneOK(tenant', slugHeld)
        /\ tenant.state \in {"deleting", "gone"} => tenant'.state \in {"deleting", "gone"}
        /\ tenant'.served = tenant.served
        /\ stalls = 0 => ChainOK(tenant', cloud) /\ tenant'.state = "gone"
    BY <1>8, RowsGoOK
  <2>2. PICK t \in Tenants : tenant' = t
    BY <2>1
  <2>3. RestOK(t) /\ GoneOK(t, slugHeld) /\ (stalls = 0 => ChainOK(t, cloud) /\ t.state = "gone")
    BY <2>1, <2>2 DEF RestOK
  <2>. QED BY <1>1, <1>2, <1>3, <1>5, <1>8, <2>1, <2>2, <2>3, RunTakes
<1>9. CASE UNCHANGED <<tenant, holder, cloud, slugHeld>>
  BY <1>1, <1>2, <1>3, <1>4, <1>5, <1>9, RunTakes
<1>. QED BY <1>6, <1>7, <1>8, <1>9 DEF StepFails

LEMMA RecordStep ==
    ASSUME ProvInv, NEW r \in Runs, RecordFailure(r)
    PROVE  ProvInv'
<1>. DEFINE me == prun[r]
<1>1. me.pc = "record" /\ ~At(r, "idle") /\ Forgets(r, "release") /\ UNCHANGED <<holder, lapsed, cloud, slugHeld, deaths, stalls>>
  BY DEF RecordFailure, At
<1>2. PICK p \in RunRecords : prun' = [prun EXCEPT ![r] = p] /\ p.pc = "release"
  BY <1>1, ForgetsOK DEF Plain
<1>3. \A t \in Tenants : SeenOK(p) /\ TornOK(p, t, slugHeld) /\ LoneOK(p, t, cloud)
  BY <1>2, PlainOK DEF Plain
<1>4. /\ tenant \in Tenants /\ cloud \in Clouds /\ slugHeld \in BOOLEAN /\ holder \in Runs \cup {Nobody} /\ me \in RunRecords
      /\ lapsed \in BOOLEAN /\ deaths \in 0 .. MaxDeaths /\ RestOK(tenant) /\ GoneOK(tenant, slugHeld)
  BY ProvParts, NowOK
<1>5. stalls = 0 => ChainOK(tenant, cloud) /\ (tenant.state # "gone" => holder = r /\ ~lapsed)
  BY <1>1, AtWork
<1>6. CASE UNCHANGED tenant
  BY <1>1, <1>2, <1>3, <1>4, <1>5, <1>6, RunTakes
<1>7. CASE /\ Advances(r)
           /\ \E permanent \in BOOLEAN :
                tenant' = [tenant EXCEPT !.tries = IF me.tries < MaxAttempts THEN me.tries + 1 ELSE @,
                                         !.paused = Pauses(r, permanent)]
  <2>1. PICK permanent \in BOOLEAN :
          tenant' = [tenant EXCEPT !.tries = IF me.tries < MaxAttempts THEN me.tries + 1 ELSE @,
                                   !.paused = Pauses(r, permanent)]
    BY <1>7
  <2>. DEFINE tries == IF me.tries < MaxAttempts THEN me.tries + 1 ELSE tenant.tries
              paused == Pauses(r, permanent)
  <2>2. tries \in 0 .. MaxAttempts
    <3>1. me.tries \in 0 .. MaxAttempts /\ tenant.tries \in 0 .. MaxAttempts
      BY <1>4 DEF RunRecords, Tenants
    <3>. QED BY <3>1, ProvisioningAssumption
  <2>3. paused \in BOOLEAN /\ (tenant.state = "deleting" => ~paused)
    BY <1>7 DEF Pauses, Advances
  <2>4. tenant' = [tenant EXCEPT !.tries = tries, !.paused = paused]
    BY <1>4, <2>1 DEF Tenants
  <2>. HIDE DEF tries, paused
  <2>5. PICK t \in Tenants : /\ tenant' = t /\ t.state = tenant.state /\ t.db = tenant.db
                             /\ t.served = tenant.served /\ t.paused = paused
    <3>1. tenant \in Tenants /\ paused \in BOOLEAN
      BY <1>4, <2>3
    <3>2. tenant' \in Tenants
      BY <2>2, <2>4, <3>1 DEF Tenants
    <3>3. tenant'.state = tenant.state /\ tenant'.db = tenant.db /\ tenant'.served = tenant.served
      BY <2>4, <3>1 DEF Tenants
    <3>4. tenant'.paused = paused
      BY <2>4, <3>1 DEF Tenants
    <3>. QED BY <3>2, <3>3, <3>4, Zenon
  <2>6. RestOK(t) /\ GoneOK(t, slugHeld) /\ (ChainOK(tenant, cloud) => ChainOK(t, cloud))
    BY <1>4, <2>3, <2>5 DEF RestOK, GoneOK, ChainOK
  <2>. QED BY <1>1, <1>2, <1>3, <1>4, <1>5, <2>5, <2>6, RunTakes
<1>. QED BY <1>6, <1>7 DEF RecordFailure

\* A run that begins is alone, if nobody stalled.
LEMMA AcquireStep ==
    ASSUME ProvInv, NEW r \in Runs, Acquire(r)
    PROVE  ProvInv'
<1>1. /\ At(r, "idle") /\ tenant.state # "gone" /\ LeaseOpen /\ holder' = r /\ lapsed' = FALSE /\ Forgets(r, "turn")
      /\ UNCHANGED <<tenant, cloud, slugHeld, deaths, stalls>>
  BY DEF Acquire
<1>2. PICK p \in RunRecords : prun' = [prun EXCEPT ![r] = p] /\ p.pc = "turn"
  BY <1>1, ForgetsOK DEF Plain
<1>3. prun' \in [Runs -> RunRecords] /\ prun'[r] = p /\ \A s \in Runs \ {r} : prun'[s] = prun[s]
  BY <1>2, ProvParts
<1>4. SeenOK(p) /\ TornOK(p, tenant, slugHeld) /\ LoneOK(p, tenant, cloud)
  BY <1>1, <1>2, PlainOK DEF Plain
<1>5. ProvisionTypeOK'
  BY <1>1, <1>3, ProvParts DEF ProvisionTypeOK, Tenants, Clouds, RunRecords
<1>6. \A s \in Runs : SeenOK(prun'[s]) /\ TornOK(prun'[s], tenant', slugHeld')
  BY <1>1, <1>3, <1>4 DEF ProvInv
<1>7. ASSUME stalls = 0 PROVE Alone'
  <2>1. Alone
    BY <1>7 DEF ProvInv
  <2>2. \A s \in Runs : At(s, "idle")
    <3>. SUFFICES ASSUME NEW s \in Runs, ~At(s, "idle") PROVE FALSE
      OBVIOUS
    <3>1. holder = s /\ ~lapsed
      BY <1>1, <2>1 DEF Alone
    <3>. QED BY <1>1, <3>1, ProvisioningAssumption DEF LeaseOpen
  <2>3. \A s \in Runs : prun'[s].pc # "idle" => s = r
    BY <1>3, <2>2 DEF At
  <2>4. ChainOK(tenant, cloud)' /\ LoneOK(prun[r], tenant, cloud)'
    BY <1>1, <1>3, <1>4, <2>1 DEF Alone, ChainOK, LoneOK
  <2>. QED BY <1>1, <2>3, <2>4 DEF Alone, At
<1>8. RestOK(tenant)' /\ GoneOK(tenant, slugHeld)'
  BY <1>1, NowOK DEF RestOK, GoneOK
<1>9. (\A s \in Runs : SeenOK(prun[s]) /\ TornOK(prun[s], tenant, slugHeld))'
  BY <1>6 DEF SeenOK, TornOK
<1>. QED BY <1>1, <1>5, <1>7, <1>8, <1>9 DEF ProvInv

\* The owner asks for the removal, or tries again.
LEMMA OwnerSteps ==
    ASSUME ProvInv, MarkForRemoval \/ Unpause
    PROVE  ProvInv'
<1>1. tenant.state # "gone" /\ UNCHANGED <<holder, lapsed, prun, cloud, slugHeld, deaths, stalls>>
  BY DEF MarkForRemoval, Unpause, Here
<1>2. /\ tenant' \in Tenants /\ tenant'.state \in {tenant.state, "deleting"} /\ ~tenant'.paused
      /\ tenant'.db = tenant.db /\ tenant'.served = tenant.served
  <2>1. tenant \in Tenants /\ 0 \in 0 .. MaxAttempts /\ "deleting" \in ProvisionStates
    BY ProvParts, ProvisioningAssumption DEF ProvisionStates
  <2>2. \/ tenant' = [tenant EXCEPT !.state = "deleting", !.tries = 0, !.paused = FALSE]
        \/ tenant' = [tenant EXCEPT !.paused = FALSE, !.tries = 0]
    BY DEF MarkForRemoval, Unpause
  <2>. QED BY <2>1, <2>2 DEF Tenants
<1>3. ProvisionTypeOK'
  BY <1>1, <1>2, ProvParts DEF ProvisionTypeOK, Tenants, Clouds, RunRecords
<1>4. RestOK(tenant)' /\ GoneOK(tenant, slugHeld)'
  BY <1>1, <1>2 DEF RestOK, GoneOK
<1>5. \A s \in Runs : SeenOK(prun[s]) /\ TornOK(prun[s], tenant', slugHeld)
  BY <1>1, <1>2 DEF ProvInv, TornOK
<1>6. (\A s \in Runs : SeenOK(prun[s]) /\ TornOK(prun[s], tenant, slugHeld))'
  BY <1>1, <1>5 DEF SeenOK, TornOK
<1>7. ASSUME stalls = 0 PROVE Alone'
  <2>1. Alone
    BY <1>7 DEF ProvInv
  <2>a. ChainOK(tenant, cloud) /\ tenant.state \in ProvisionStates
    BY <1>1, <2>1, ProvParts DEF Alone, Tenants
  <2>b. tenant.db = 0 \/ cloud.db \in {0, tenant.db}
    BY <2>a DEF ChainOK, ProvisionStates
  <2>c. tenant'.state = "deleting" => ChainOK(tenant', cloud)
    BY <1>1, <1>2, <2>b DEF ChainOK
  <2>d. tenant'.state = tenant.state => ChainOK(tenant', cloud)
    BY <1>2, <2>a DEF ChainOK
  <2>2. ChainOK(tenant, cloud)'
    BY <1>1, <1>2, <2>c, <2>d DEF ChainOK
  <2>3. \A s \in Runs : At(s, "idle") \/ LoneOK(prun[s], tenant', cloud)
    BY <1>1, <1>2, <2>1 DEF Alone, LoneOK
  <2>4. \A s \in Runs : (At(s, "idle") \/ LoneOK(prun[s], tenant, cloud))'
    BY <1>1, <2>3 DEF LoneOK, At
  <2>. QED BY <1>1, <2>1, <2>2, <2>4 DEF Alone, At
<1>. QED BY <1>1, <1>3, <1>4, <1>6, <1>7 DEF ProvInv

LEMMA LapseSteps ==
    ASSUME ProvInv, LeasePasses \/ Stalls
    PROVE  ProvInv'
<1>1. /\ lapsed' = TRUE /\ UNCHANGED <<tenant, holder, prun, cloud, slugHeld, deaths>>
      /\ (stalls' = stalls /\ At(holder, "idle")) \/ stalls' = stalls + 1
  BY DEF LeasePasses, Stalls
<1>2. stalls' \in 0 .. MaxStalls /\ (stalls' = 0 => stalls = 0 /\ At(holder, "idle"))
  <2>1. stalls \in 0 .. MaxStalls
    BY ProvParts
  <2>2. CASE LeasePasses
    BY <2>1, <2>2 DEF LeasePasses
  <2>3. CASE Stalls
    BY <2>1, <2>3, ProvisioningAssumption DEF Stalls
  <2>. QED BY <2>2, <2>3
<1>3. ProvisionTypeOK'
  BY <1>1, <1>2, ProvParts DEF ProvisionTypeOK, Tenants, Clouds, RunRecords
<1>4. RestOK(tenant)' /\ GoneOK(tenant, slugHeld)' /\ (\A s \in Runs : SeenOK(prun[s]) /\ TornOK(prun[s], tenant, slugHeld))'
  BY <1>1 DEF ProvInv, RestOK, GoneOK, SeenOK, TornOK
<1>5. ASSUME stalls' = 0 PROVE Alone'
  <2>1. Alone /\ At(holder, "idle")
    BY <1>2, <1>5 DEF ProvInv
  <2>2. tenant.state # "gone" => \A s \in Runs : At(s, "idle")
    BY <2>1 DEF Alone
  <2>. QED BY <1>1, <2>1, <2>2 DEF Alone, At, LoneOK, ChainOK
<1>. QED BY <1>3, <1>4, <1>5 DEF ProvInv

LEMMA ProvStep == ProvInv /\ [ProvisionNext]_provVars => ProvInv'
<1>. SUFFICES ASSUME ProvInv, [ProvisionNext]_provVars PROVE ProvInv'
  OBVIOUS
<1>1. ASSUME NEW r \in Runs, Acquire(r) \/ RunStep(r) \/ Dies(r) PROVE ProvInv'
  BY <1>1, AcquireStep, LeaseSteps, LoadStep, CallStep, FindSteps, AdvanceStep, RemoveStep, StepFailsStep, RecordStep DEF RunStep
<1>2. CASE UNCHANGED provVars
  BY <1>2 DEF ProvInv, ProvisionTypeOK, RestOK, GoneOK, SeenOK, TornOK, Alone, LoneOK, ChainOK, At, provVars
<1>. QED BY <1>1, <1>2, OwnerSteps, LapseSteps DEF ProvisionNext

(* What a run may rely on at each step of provisioning and of the removal    *)
(* always holds, for any number of runs, deaths and stalls (runTenant).      *)
THEOREM ProvInvariant == ProvisionSpec => []ProvInv
<1>1. ProvisionInit => ProvInv
  BY ProvInitOK
<1>2. ProvInv /\ [ProvisionNext]_provVars => ProvInv'
  BY ProvStep
<1>. QED BY <1>1, <1>2, PTL DEF ProvisionSpec

(* The tenant, its cloud and its runs have their types: no failure counts    *)
(* past PROVISION_MAX_ATTEMPTS.                                              *)
THEOREM ProvisionTypeCorrect == ProvisionSpec => []ProvisionTypeOK
<1>1. ProvInv => ProvisionTypeOK
  BY DEF ProvInv
<1>. QED BY <1>1, ProvInvariant, PTL

(* One run works on a tenant at a time until one stalls past its lease,       *)
(* whatever deaths, lost answers and repeated messages (acquireLease).        *)
THEOREM RunsExcludeEachOther == ProvisionSpec => []OneRunWorks
<1>1. ProvInv => OneRunWorks
  BY DEF ProvInv, Alone, OneRunWorks
<1>. QED BY <1>1, ProvInvariant, PTL

(* A ready tenant has its script, and its own database with the schema in    *)
(* it, however often its steps failed and were done again (the step switch).  *)
THEOREM ReadyTenantIsWhole == ProvisionSpec => []ReadyIsWhole
<1>1. ProvInv => ReadyIsWhole
  BY DEF ProvInv, Alone, ChainOK, ReadyIsWhole
<1>. QED BY <1>1, ProvInvariant, PTL

(* A removed tenant leaves no database, no script, and no slug that served   *)
(* free, wherever its provisioning had come to (teardown).                   *)
THEOREM RemovalIsComplete == ProvisionSpec => []NothingLeftBehind
<1>1. ProvInv => NothingLeftBehind
  BY DEF ProvInv, Alone, ChainOK, GoneOK, NothingLeftBehind
<1>. QED BY <1>1, ProvInvariant, PTL

(* No step or failure of a run that was under way, also of one that lost its *)
(* lease, puts a tenant back that is to be removed, or pauses it (advance,    *)
(* recordFailure).                                                           *)
THEOREM RemovalAlwaysStands == ProvisionSpec => RemovalStands
<1>1. ASSUME ProvInv, [ProvisionNext]_provVars, tenant.state = "deleting"
      PROVE  tenant'.state \in {"deleting", "gone"} /\ ~tenant'.paused
  <2>1. ProvInv' /\ RestOK(tenant) /\ tenant \in Tenants
    BY <1>1, ProvStep, NowOK, ProvParts
  <2>2. ASSUME NEW r \in Runs, Acquire(r) \/ RunStep(r) \/ Dies(r)
        PROVE  \/ UNCHANGED tenant
               \/ At(r, "advance") /\ AdvanceLands(r)
               \/ At(r, "remove") /\ RowsGo(r)
               \/ RecordFailure(r)
    <3>1. CASE Acquire(r) \/ Dies(r) \/ Renew(r) \/ Load(r) \/ Release(r)
      BY <3>1 DEF Acquire, Dies, Renew, Load, Release
    <3>2. CASE Call(r) \/ FindDatabase(r) \/ CreateDatabase(r) \/ FindAgain(r)
      BY <3>2 DEF Call, FindDatabase, CreateDatabase, FindAgain
    <3>3. CASE Advance(r) \/ Remove(r)
      BY <3>3 DEF Advance, Remove
    <3>4. CASE StepFails(r)
      BY <3>4 DEF StepFails
    <3>. QED BY <2>2, <3>1, <3>2, <3>3, <3>4 DEF RunStep
  <2>7. CASE LeasePasses \/ Stalls
    <3>1. UNCHANGED tenant
      BY <2>7 DEF LeasePasses, Stalls
    <3>. QED BY <1>1, <2>1, <3>1 DEF RestOK
  <2>3. CASE UNCHANGED tenant \/ MarkForRemoval \/ Unpause
    BY <1>1, <2>1, <2>3 DEF RestOK, MarkForRemoval, Unpause, Tenants
  <2>4. ASSUME NEW r \in Runs, At(r, "advance"), AdvanceLands(r)
        PROVE  UNCHANGED tenant
    BY <1>1, <2>4, AdvanceOK
  <2>5. ASSUME NEW r \in Runs, At(r, "remove"), RowsGo(r)
        PROVE  tenant'.state \in {"deleting", "gone"} /\ ~tenant'.paused
    BY <1>1, <2>1, <2>5 DEF RowsGo, RestOK, Tenants
  <2>6. ASSUME NEW r \in Runs, RecordFailure(r)
        PROVE  tenant'.state \in {"deleting", "gone"} /\ ~tenant'.paused
    <3>1. tenant'.state = tenant.state
      BY <2>1, <2>6 DEF RecordFailure, Tenants
    <3>2. ~tenant'.paused
      BY <1>1, <2>1, <3>1 DEF ProvInv, RestOK
    <3>. QED BY <1>1, <3>1, <3>2
  <2>8. CASE UNCHANGED provVars
    BY <2>3, <2>8 DEF provVars
  <2>9. CASE \E r \in Runs : Acquire(r) \/ RunStep(r) \/ Dies(r)
    BY <2>2, <2>3, <2>4, <2>5, <2>6, <2>9
  <2>. QED BY <1>1, <2>3, <2>7, <2>8, <2>9 DEF ProvisionNext
<1>2. ProvInv /\ [ProvisionNext]_provVars =>
        [tenant.state = "deleting" => tenant'.state \in {"deleting", "gone"} /\ ~tenant'.paused]_provVars
  BY <1>1
<1>. QED BY <1>2, ProvInvariant, PTL DEF ProvisionSpec, RemovalStands
===============================================================================
