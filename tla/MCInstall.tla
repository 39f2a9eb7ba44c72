------------------------------ MODULE MCInstall ------------------------------
(***************************************************************************)
(* Small instances of what an install does around its checks: what a run    *)
(* may spend, the delivery of its alerts, the migration of its database, the *)
(* replacing of its key, its history, and its mails to the owner.  They      *)
(* share no state, so a behaviour studies one of them (its scene) while the  *)
(* others rest.                                                             *)
(***************************************************************************)
EXTENDS RunBudget, Outbox, SchemaMigration, KeyRotation, Rollups, SummaryMails

VARIABLE scene
vars == <<scene, budgetVars, outboxVars, schemaVars, rotationVars, rollupVars, mailVars>>

ProbeFetches == <<2, 2, 1>>
RecheckFetches == <<2, 3, 1>>
BundleSizes == [i \in {"older", "newer"} |-> IF i = "newer" THEN 3 ELSE 1]
CallIsolates == [c \in {"scheduled", "health"} |-> IF c = "scheduled" THEN "newer" ELSE "older"]
RowClasses == <<1, 2>>

Init ==
    /\ scene \in {"budget", "outbox", "schema", "rotation", "rollups", "mails"}
    /\ BudgetInit /\ OutboxInit
    /\ IF scene = "schema" THEN SchemaInit ELSE SchemaInit /\ applied = {}
    /\ IF scene = "rotation" THEN RotationInit ELSE RotationInit /\ \A r \in Places : stored[r] = {}
    /\ RollupInit /\ MailInit

InBudget(A) ==
    scene = "budget" /\ A /\ UNCHANGED <<scene, outboxVars, schemaVars, rotationVars, rollupVars, mailVars>>
InOutbox(A) ==
    scene = "outbox" /\ A /\ UNCHANGED <<scene, budgetVars, schemaVars, rotationVars, rollupVars, mailVars>>
InSchema(A) ==
    scene = "schema" /\ A /\ UNCHANGED <<scene, budgetVars, outboxVars, rotationVars, rollupVars, mailVars>>
InRotation(A) ==
    scene = "rotation" /\ A /\ UNCHANGED <<scene, budgetVars, outboxVars, schemaVars, rollupVars, mailVars>>
InRollups(A) ==
    scene = "rollups" /\ A /\ UNCHANGED <<scene, budgetVars, outboxVars, schemaVars, rotationVars, mailVars>>
InMails(A) ==
    scene = "mails" /\ A /\ UNCHANGED <<scene, budgetVars, outboxVars, schemaVars, rotationVars, rollupVars>>

Next ==
    \/ InBudget(BudgetNext) \/ InOutbox(OutboxNext)
    \/ InSchema(SchemaNext) \/ InRotation(RotationNext)
    \/ InRollups(RollupNext) \/ InMails(MailNext)

\* Probes and queries time out, so a run always comes back from an await; a row's
\* next attempt arrives; runs follow one another, each with room for an alert.
ClaimAlone == (\A d \in Drains : drain[d].pc = "idle") /\ \E d \in Drains : Claim(d)
Fairness ==
    /\ WF_vars(InBudget(BudgetNext))
    /\ \A k \in Keys : WF_vars(InOutbox(ComesDue(k)))
    /\ \A d \in Drains : WF_vars(InOutbox(DrainStep(d)))
    /\ WF_vars(InOutbox(ClaimAlone))

Spec == Init /\ [][Next]_vars /\ Fairness

(* The states of all six modules are of their types.                         *)
TypeOK == BudgetTypeOK /\ OutboxTypeOK /\ SchemaTypeOK /\ RotationTypeOK
          /\ RollupTypeOK /\ MailTypeOK

(* Every run comes to its end: no check waits for ever for room.             *)
RunEnds == scene = "budget" ~> phase = "over"
=============================================================================
