----------------------------- MODULE KeyRotation -----------------------------
(***************************************************************************)
(* Replacing MASTER_KEY: the re-encryption pass, the report that says when   *)
(* the previous key may go (lib/rekey.ts, routes/rekey.ts), and the app's    *)
(* own writes of the same values (db/channels.ts, db/monitors.ts, db/push.ts,*)
(* db/outbox.ts, lib/crypto.ts).  The owner follows the runbook of           *)
(* docs/SECURITY.md; a request or a call of the pass keeps the keys it       *)
(* started with, however long it lasts.                                     *)
(*                                                                         *)
(* A row is the set of the values it protects; a value is what key sealed    *)
(* it, in which format.  What the value says is only whether it is still     *)
(* what the app last saved.                                                  *)
(***************************************************************************)
EXTENDS Integers, FiniteSets

CONSTANTS
    NumPlaces,    \* rows, in the order the pass reads them
    ClassOf,      \* the storage class of each, 1, 2, ...
    RowLimit,     \* rows a call of the pass reads
    TrialLimit,   \* values the report opens
    Clients,      \* whoever runs the pass: a browser tab, a script
    Requests      \* the app's requests

Places == 1 .. NumPlaces
NumClasses == ClassOf[NumPlaces]

ASSUME RotationAssumption ==
    /\ NumPlaces \in Nat \ {0} /\ RowLimit \in Nat \ {0} /\ TrialLimit \in Nat
    /\ ClassOf \in [Places -> Nat \ {0}]
    /\ \A r, s \in Places : r <= s => ClassOf[r] <= ClassOf[s]

VARIABLES
    step,      \* what is deployed: the runbook's steps
    stored,    \* the values of each row; none when there is no row
    pass,      \* each client's cursor, and its call
    request,   \* each request: its keys, and the row it read
    safe,      \* the last report said the previous key may go
    cleared,   \* history: a pass ran from its start to its end on the new key
    stale,     \* history: rows written under a key that had been replaced
    late,      \* history: those of them written since the last report
    harmed,    \* history: rows such a write dropped a value of
    asSaved    \* history: rows that hold what the app last saved

rotationVars == <<step, stored, pass, request, safe, cleared, stale, late, harmed, asSaved>>
historyVars == <<stale, late, harmed, asSaved>>

-----------------------------------------------------------------------------
(* Keys and values.                                                         *)

Steps == 1 .. 4   \* old; old and old again as previous; new and old; new
CurrentKey(n) == IF n <= 2 THEN "old" ELSE "new"
Keyring(n) == {CurrentKey(n)} \cup (IF n \in {2, 3} THEN {"old"} ELSE {})
Replaced(n) == CurrentKey(n) # CurrentKey(step)

Value == [key : {"old", "new", "lost"}, form : {"v1", "v2"}] \cup {[key |-> "none", form |-> "plain"]}
Plain == [key |-> "none", form |-> "plain"]
Sealed(n) == [key |-> CurrentKey(n), form |-> "v2"]

OpensWith(v, n) == v = Plain \/ v.key \in Keyring(n)
Unopened(r, n) == {v \in stored[r] : ~OpensWith(v, n)}

OnlyLost(vs) == \A v \in vs : v.key = "lost"

\* rekeyValue over a row: every value opens, and one is not on the current key.
Rekeys(r, n) == Unopened(r, n) = {} /\ stored[r] \notin {{}, {Sealed(n)}}

Start == [class |-> 1, after |-> 0]
NoCall == [pc |-> "rest", keys |-> 1, at |-> Start, room |-> 0, rows |-> {}, clean |-> {}]
NoRequest == [pc |-> "rest", keys |-> 1, place |-> 1, carried |-> {}]

Cursors == [class : 1 .. NumClasses + 1, after : 0 .. NumPlaces]

RotationTypeOK ==
    /\ step \in Steps /\ stored \in [Places -> SUBSET Value]
    /\ pass \in [Clients -> [cursor : Cursors, onNew : BOOLEAN,
                             call : [pc : {"rest", "read", "write", "answer"}, keys : Steps, at : Cursors,
                                     room : 0 .. RowLimit, rows : SUBSET Places, clean : SUBSET Places]]]
    /\ request \in [Requests -> [pc : {"rest", "open", "edit"}, keys : Steps, place : Places,
                                 carried : SUBSET Value]]
    /\ safe \in BOOLEAN /\ cleared \in BOOLEAN
    /\ {stale, late, harmed, asSaved} \subseteq SUBSET Places

\* Values of older releases, and one no key opens any more.
SomeRows == {{}, {[key |-> "old", form |-> "v1"]}, {Sealed(1)}, {Plain},
             {[key |-> "old", form |-> "v1"], [key |-> "lost", form |-> "v1"]}}

RotationInit ==
    /\ step = 1 /\ stored \in [Places -> SomeRows]
    /\ pass = [p \in Clients |-> [cursor |-> Start, onNew |-> FALSE, call |-> NoCall]]
    /\ request = [q \in Requests |-> NoRequest]
    /\ safe = FALSE /\ cleared = FALSE
    /\ stale = {} /\ late = {} /\ harmed = {} /\ asSaved = Places

\* Rows `rs` get new stored values: a compare-and-swap of what was there fails.
Unclean(ps, rs) == [p \in Clients |-> [ps[p] EXCEPT !.call.clean = @ \ rs]]

\* Rows were written whole, with a value under a replaced key or without.
MarksRows(rs, replaced) ==
    /\ stale' = IF replaced THEN stale \cup rs ELSE stale \ rs
    /\ late' = IF replaced THEN late \cup rs ELSE late \ rs

-----------------------------------------------------------------------------
(* The pass (runRekeyBatch), called with a cursor until it says done.       *)

Restarts(p) ==
    /\ pass[p].call.pc = "rest" /\ pass[p].cursor # Start
    /\ pass' = [pass EXCEPT ![p].cursor = Start]
    /\ UNCHANGED <<step, stored, request, safe, cleared, historyVars>>

BeginCall(p) ==
    /\ pass[p].call.pc = "rest"
    /\ pass' = [pass EXCEPT
          ![p].call = [NoCall EXCEPT !.pc = "read", !.keys = step, !.at = pass[p].cursor,
                                     !.room = RowLimit],
          ![p].onNew = step = 3 /\ (@ \/ pass[p].cursor = Start)]
    /\ UNCHANGED <<step, stored, request, safe, cleared, historyVars>>

\* The first rows of the class after the cursor, as many as there is room for.
FirstRows(rs, n) == {r \in rs : Cardinality({s \in rs : s < r}) < n}
Page(at, room) ==
    FirstRows({r \in Places : stored[r] # {} /\ ClassOf[r] = at.class /\ r > at.after}, room)

SelectRows(p) ==
    LET rows == Page(pass[p].call.at, pass[p].call.room)
    IN  /\ pass[p].call.pc = "read"
        /\ pass' = [pass EXCEPT ![p].call.pc = "write", ![p].call.rows = rows, ![p].call.clean = rows]
        /\ UNCHANGED <<step, stored, request, safe, cleared, historyVars>>

\* Fewer rows than asked for: the class is exhausted.
NextCursor(c) ==
    IF Cardinality(c.rows) < c.room
    THEN [class |-> c.at.class + 1, after |-> 0]
    ELSE [c.at EXCEPT !.after = CHOOSE r \in c.rows : \A s \in c.rows : s <= r]

Advanced(c) ==
    LET at == NextCursor(c)
        room == c.room - Cardinality(c.rows)
    IN  [NoCall EXCEPT !.pc = IF at.class > NumClasses \/ room = 0 THEN "answer" ELSE "read",
                       !.keys = c.keys, !.at = at, !.room = room]

\* One batch of updates, each a compare-and-swap on the value that was read.
SwapsAnyway(c, r) == r \in c.rows
Swaps(c, r) == r \in c.clean
WriteRows(p) ==
    /\ pass[p].call.pc = "write"
    /\ LET c == pass[p].call
           written == {r \in c.rows : Swaps(c, r) /\ Rekeys(r, c.keys)}
       IN  /\ stored' = [r \in Places |-> IF r \in written THEN {Sealed(c.keys)} ELSE stored[r]]
           /\ asSaved' = asSaved \ (written \ c.clean)
           /\ MarksRows(written, Replaced(c.keys))
           /\ \/ pass' = [Unclean(pass, written) EXCEPT ![p].call = Advanced(c)]
              \/ pass' = [Unclean(pass, written) EXCEPT ![p].call = NoCall]  \* the answer is lost
    /\ UNCHANGED <<step, request, safe, cleared, harmed>>

\* The client has the answer: the next cursor, or done.
Answered(p) ==
    LET at == pass[p].call.at
        done == at.class > NumClasses
    IN  /\ pass[p].call.pc = "answer"
        /\ pass' = [pass EXCEPT ![p].call = NoCall, ![p].cursor = IF done THEN Start ELSE at]
        /\ cleared' = (cleared \/ (done /\ pass[p].onNew))
        /\ UNCHANGED <<step, stored, request, safe, historyVars>>

\* A call fails without a write: the client sends its cursor again.
CallEnds(p) ==
    /\ pass[p].call.pc # "rest"
    /\ pass' = [pass EXCEPT ![p].call = NoCall]
    /\ UNCHANGED <<step, stored, request, safe, cleared, historyVars>>

-----------------------------------------------------------------------------
(* The app's requests.                                                      *)

Arrives(q) ==
    /\ request[q].pc = "rest"
    /\ request' = [request EXCEPT ![q] = [NoRequest EXCEPT !.pc = "open", !.keys = step]]
    /\ UNCHANGED <<step, stored, pass, safe, cleared, historyVars>>

\* Values that do not open are carried as they are stored.
ReadsRow(q, r) ==
    /\ request[q].pc = "open" /\ stored[r] # {}
    /\ request' = [request EXCEPT ![q].pc = "edit", ![q].place = r,
                                  ![q].carried = Unopened(r, request[q].keys)]
    /\ UNCHANGED <<step, stored, pass, safe, cleared, historyVars>>

\* updateChannel carries them on; a monitor's whole configuration is replaced.
SavesRow(q) ==
    LET r == request[q].place
        n == request[q].keys
    IN  /\ request[q].pc = "edit"
        /\ request' = [request EXCEPT ![q] = NoRequest]
        /\ \E kept \in {{}, request[q].carried} :
              IF stored[r] = {} THEN UNCHANGED <<stored, pass, historyVars>>   \* deleted meanwhile
              ELSE /\ stored' = [stored EXCEPT ![r] = {Sealed(n)} \cup kept]
                   /\ pass' = Unclean(pass, {r})
                   /\ MarksRows({r}, Replaced(n) \/ ~OnlyLost(kept))
                   /\ harmed' = IF OnlyLost(request[q].carried \ kept) THEN harmed ELSE harmed \cup {r}
                   /\ asSaved' = asSaved \cup {r}
        /\ UNCHANGED <<step, safe, cleared>>

InsertsRow(q, r) ==
    LET n == request[q].keys
    IN  /\ request[q].pc = "open" /\ stored[r] = {}
        /\ request' = [request EXCEPT ![q] = NoRequest]
        /\ stored' = [stored EXCEPT ![r] = {Sealed(n)}]
        /\ MarksRows({r}, Replaced(n))
        /\ asSaved' = asSaved \cup {r}
        /\ UNCHANGED <<step, pass, safe, cleared, harmed>>

\* A channel that is read, or a delivery that is claimed, while still plain: a
\* compare-and-swap too.
SealsOnRead(q, r) ==
    LET n == request[q].keys
    IN  /\ request[q].pc = "open" /\ Plain \in stored[r]
        /\ request' = [request EXCEPT ![q] = NoRequest]
        /\ stored' = [stored EXCEPT ![r] = (@ \ {Plain}) \cup {Sealed(n)}]
        /\ pass' = Unclean(pass, {r})
        /\ stale' = IF Replaced(n) THEN stale \cup {r} ELSE stale
        /\ late' = IF Replaced(n) THEN late \cup {r} ELSE late
        /\ UNCHANGED <<step, safe, cleared, harmed, asSaved>>

Leaves(q) ==
    /\ request[q].pc # "rest"
    /\ request' = [request EXCEPT ![q] = NoRequest]
    /\ UNCHANGED <<step, stored, pass, safe, cleared, historyVars>>

DeletesRow(r) ==
    /\ stored[r] # {}
    /\ stored' = [stored EXCEPT ![r] = {}]
    /\ pass' = Unclean(pass, {r})
    /\ stale' = stale \ {r} /\ late' = late \ {r} /\ harmed' = harmed \ {r}
    /\ UNCHANGED <<step, request, safe, cleared, asSaved>>

-----------------------------------------------------------------------------
(* The owner.                                                               *)

\* The two secrets are set, one after the other.
SetsPrevious == step = 1 /\ step' = 2
SetsMaster == step = 2 /\ step' = 3
DeletesPrevious == step = 3 /\ safe /\ step' = 4
OwnerSteps ==
    /\ SetsPrevious \/ SetsMaster \/ DeletesPrevious
    /\ UNCHANGED <<stored, pass, request, safe, cleared, historyVars>>

\* rekeyStatus: the values whose key id does not say the current key, and those
\* of them it opens; the others are taken to need the previous key.
NonCurrent ==
    UNION {{<<r, v>> : v \in {w \in stored[r] : w.form = "v1" \/ (w.form = "v2" /\ w.key = "old")}}
           : r \in Places}
Opened(checked) == Cardinality({rv \in checked : rv[2].key = "old"})
DependsOnPrevious(checked) == Opened(checked) + Cardinality(NonCurrent \ checked)

Reports ==
    /\ step = 3
    /\ \E checked \in SUBSET NonCurrent :
         /\ Cardinality(checked) = TrialLimit \/ (checked = NonCurrent /\ Cardinality(checked) < TrialLimit)
         /\ safe' = (DependsOnPrevious(checked) = 0)
    /\ late' = {}
    /\ UNCHANGED <<step, stored, pass, request, cleared, stale, harmed, asSaved>>

RotationNext ==
    \/ \E p \in Clients :
         Restarts(p) \/ BeginCall(p) \/ SelectRows(p) \/ WriteRows(p) \/ Answered(p) \/ CallEnds(p)
    \/ \E q \in Requests :
         \/ Arrives(q) \/ SavesRow(q) \/ Leaves(q)
         \/ \E r \in Places : ReadsRow(q, r) \/ InsertsRow(q, r) \/ SealsOnRead(q, r)
    \/ \E r \in Places : DeletesRow(r)
    \/ OwnerSteps
    \/ Reports

RotationSpec == RotationInit /\ [][RotationNext]_rotationVars

-----------------------------------------------------------------------------
(* Properties.                                                              *)

(* Rotating the key loses nothing (docs/SECURITY.md, "The pass never drops   *)
(* or overwrites data it cannot read"; lib/rekey.ts).  Whatever the pass, the *)
(* app's writes and the owner's steps do to each other, a row holds what the *)
(* app last saved and opens with the keys that are deployed, but for values   *)
(* no key opened before.  Excepted are rows that a request still running on  *)
(* the replaced key wrote after the report the owner went by, or dropped a    *)
(* value of.                                                                 *)
ValuesSurvive ==
    \A r \in Places \ (late \cup harmed) :
        stored[r] # {} =>
            /\ r \in asSaved
            /\ \A v \in stored[r] : v.key # "lost" => OpensWith(v, step)

(* After a pass that ran from its start to done on the new key, nothing needs *)
(* the old one and nothing is left plain, but for rows that hold a value no   *)
(* key opens, and rows written meanwhile under the replaced key: none was     *)
(* skipped at a page's or a class's end, by a failed call, or by a save that  *)
(* came between its read and its write.                                      *)
PassClears ==
    cleared => \A r \in Places \ stale :
        \/ stored[r] \subseteq {Sealed(3)}
        \/ \E v \in stored[r] : v.key = "lost"

(* A rotation loses nothing, and after a whole pass nothing needs the old key.*)
RotationIsSafe == ValuesSurvive /\ PassClears
=============================================================================
