----------------------------- MODULE OutboxProofs -----------------------------
(***************************************************************************)
(* Proofs about Outbox, for any alerts, runs, attempts and faults: it keeps *)
(* the promises of AlertDelivery, gives up on an alert only when every      *)
(* attempt was made or its destination is gone, and repeats nothing but by  *)
(* a fault.                                                                 *)
(*                                                                         *)
(* All rest on what a run knows of the entries it copied: their rows were  *)
(* there, and their count of attempts is not above what was tried, however  *)
(* old the copy is (EntryOK); and on what an answer says of the entry at    *)
(* hand (AnswerOK).                                                        *)
(***************************************************************************)
EXTENDS Outbox, FiniteSets, FiniteSetTheorems, TLAPS

RowRecords == [status : {"none", "pending", "failed", "sent", "dead", "removed"}, tries : 0 .. MaxAttempts]
DrainRecords == [pc : {"idle", "deliver", "mark", "book", "catch"}, todo : Seq(Entries), answer : Answers]

\* What the rows are: each due at most once, and one that waits has attempts left.
Backed(k, tries) == closed[k] \/ tries <= tried[k] + faults
RowOK(k) ==
    /\ row[k].status \in Queued \cup {"none"} => row[k].tries < MaxAttempts
    /\ row[k].status = "dead" => row[k].tries >= MaxAttempts
    /\ Backed(k, row[k].tries)
RowInv ==
    /\ row \in [Keys -> RowRecords] /\ line \in Seq(Keys)
    /\ \A i \in DOMAIN line : row[line[i]].status \in Queued
    /\ \A i, j \in DOMAIN line : line[i] = line[j] => i = j
    /\ \A k \in Keys : RowOK(k)

HistInv ==
    /\ accepted \in [Keys -> Nat] /\ tried \in [Keys -> Nat] /\ closed \in [Keys -> BOOLEAN]
    /\ faults \in 0 .. MaxFaults

EntryOK(e) == e.tries < MaxAttempts /\ row[e.key].status # "none" /\ Backed(e.key, e.tries)
AnswerOK(e, pc, answer) ==
    /\ pc = "mark" => answer # "none"
    /\ pc = "mark" /\ answer = "accepted" => accepted[e.key] > 0
    /\ pc = "mark" /\ answer \in {"expired", "gone"} => closed[e.key]
    /\ pc = "catch" \/ (pc = "mark" /\ answer = "refused") => Backed(e.key, e.tries + 1)
DrainOK(d) ==
    /\ \A i \in DOMAIN drain[d].todo : EntryOK(drain[d].todo[i])
    /\ drain[d].pc # "idle" => drain[d].todo # <<>> /\ AnswerOK(Entry(d), drain[d].pc, drain[d].answer)
DrainInv == drain \in [Drains -> DrainRecords] /\ \A d \in Drains : DrainOK(d)

OutboxInv == RowInv /\ HistInv /\ DrainInv

LEMMA OutboxTypes == OutboxInv => OutboxTypeOK
  BY DEF OutboxInv, RowInv, HistInv, DrainInv, OutboxTypeOK, RowRecords, DrainRecords

\* The due rows without one of them.
LEMMA OffLineType ==
    ASSUME line \in Seq(Keys), NEW k \in Keys
    PROVE  /\ OffLine(k) \in Seq(Keys)
           /\ \/ OffLine(k) = line /\ (\A i \in DOMAIN line : line[i] # k)
              \/ /\ Place(k) \in 1 .. Len(line) /\ line[Place(k)] = k
                 /\ Len(OffLine(k)) = Len(line) - 1
                 /\ \A i \in 1 .. Len(line) - 1 :
                      OffLine(k)[i] = line[IF i < Place(k) THEN i ELSE i + 1]
<1>1. CASE \A i \in DOMAIN line : line[i] # k
  BY <1>1 DEF OffLine
<1>2. CASE \E i \in DOMAIN line : line[i] = k
  <2>1. Place(k) \in 1 .. Len(line) /\ line[Place(k)] = k
    BY <1>2 DEF Place
  <2> DEFINE p == Place(k)
             front == SubSeq(line, 1, p - 1)
             back == SubSeq(line, p + 1, Len(line))
  <2>2. OffLine(k) = front \o back
    BY <1>2 DEF OffLine
  <2>3. /\ front \in Seq(Keys) /\ Len(front) = p - 1
        /\ \A i \in 1 .. p - 1 : front[i] = line[i]
    BY <2>1
  <2>4. /\ back \in Seq(Keys) /\ Len(back) = Len(line) - p
        /\ \A i \in 1 .. Len(line) - p : back[i] = line[i + p]
    BY <2>1
  <2>. HIDE DEF front, back
  <2>5. front \o back \in Seq(Keys) /\ Len(front \o back) = Len(line) - 1
    BY <2>1, <2>3, <2>4
  <2>6. ASSUME NEW i \in 1 .. Len(line) - 1
        PROVE  (front \o back)[i] = line[IF i < p THEN i ELSE i + 1]
    <3>. Len(line) \in Nat /\ p \in 1 .. Len(line)
      BY <2>1
    <3>1. CASE i < p
      <4>1. i \in 1 .. Len(front)
        BY <3>1, <2>3
      <4>2. (front \o back)[i] = front[i]
        BY <4>1, <2>3, <2>4
      <4>. QED BY <3>1, <4>1, <4>2, <2>3
    <3>2. CASE ~(i < p)
      <4>1. i - (p - 1) \in 1 .. Len(back) /\ i \in Len(front) + 1 .. Len(front) + Len(back)
        BY <3>2, <2>3, <2>4
      <4>a. front \in Seq(Keys) /\ back \in Seq(Keys)
        BY <2>3, <2>4
      <4>b. (front \o back)[i] = back[i - Len(front)]
        BY <4>a, <4>1
      <4>2. (front \o back)[i] = back[i - (p - 1)]
        BY <4>b, <2>3
      <4>3. back[i - (p - 1)] = line[i - (p - 1) + p]
        BY <4>1, <2>4
      <4>. QED BY <3>2, <4>2, <4>3
    <3>. QED BY <3>1, <3>2
  <2>7. OffLine(k) \in Seq(Keys) /\ Len(OffLine(k)) = Len(line) - 1
    BY <2>2, <2>5
  <2>8. \A i \in 1 .. Len(line) - 1 : OffLine(k)[i] = line[IF i < Place(k) THEN i ELSE i + 1]
    BY <2>2, <2>6
  <2>. QED BY <2>1, <2>7, <2>8
<1>. QED BY <1>1, <1>2

\* Taking a row off the line leaves the others, and not it.
LEMMA OffLineRest ==
    ASSUME RowInv, NEW k \in Keys
    PROVE  /\ OffLine(k) \in Seq(Keys)
           /\ \A i \in DOMAIN OffLine(k) :
                OffLine(k)[i] # k /\ \E j \in DOMAIN line : OffLine(k)[i] = line[j]
           /\ \A i, j \in DOMAIN OffLine(k) : OffLine(k)[i] = OffLine(k)[j] => i = j
<1>1. line \in Seq(Keys) /\ \A i, j \in DOMAIN line : line[i] = line[j] => i = j
  BY DEF RowInv
<1>2. CASE OffLine(k) = line /\ (\A i \in DOMAIN line : line[i] # k)
  BY <1>1, <1>2
<1>3. CASE /\ Place(k) \in 1 .. Len(line) /\ line[Place(k)] = k
           /\ Len(OffLine(k)) = Len(line) - 1
           /\ \A i \in 1 .. Len(line) - 1 :
                OffLine(k)[i] = line[IF i < Place(k) THEN i ELSE i + 1]
  <2>. DEFINE at(i) == IF i < Place(k) THEN i ELSE i + 1
  <2>1. OffLine(k) \in Seq(Keys) /\ DOMAIN OffLine(k) = 1 .. Len(line) - 1
    BY <1>1, <1>3, OffLineType
  <2>2. \A i \in 1 .. Len(line) - 1 : at(i) \in DOMAIN line /\ at(i) # Place(k) /\ OffLine(k)[i] = line[at(i)]
    BY <1>1, <1>3
  <2>3. \A i, j \in 1 .. Len(line) - 1 : at(i) = at(j) => i = j
    BY <1>1, <1>3
  <2>. HIDE DEF at
  <2>4. \A i \in DOMAIN OffLine(k) : OffLine(k)[i] # k /\ \E j \in DOMAIN line : OffLine(k)[i] = line[j]
    <3>1. Place(k) \in DOMAIN line /\ line[Place(k)] = k
      BY <1>1, <1>3
    <3>. QED BY <1>1, <2>1, <2>2, <3>1
  <2>5. \A i, j \in DOMAIN OffLine(k) : OffLine(k)[i] = OffLine(k)[j] => i = j
    BY <1>1, <2>1, <2>2, <2>3
  <2>. QED BY <2>1, <2>4, <2>5
<1>. QED BY <1>1, <1>2, <1>3, OffLineType

-----------------------------------------------------------------------------
(* What any step leaves of the rest.                                        *)

\* Histories only grow, and no row comes to be as if it had never been.
Grows ==
    /\ HistInv /\ HistInv'
    /\ row \in [Keys -> RowRecords] /\ row' \in [Keys -> RowRecords]
    /\ \A k \in Keys :
         /\ accepted'[k] >= accepted[k] /\ tried'[k] >= tried[k] /\ (closed[k] => closed'[k])
         /\ row[k].status # "none" => row'[k].status # "none"
    /\ faults' >= faults

LEMMA BackedStays ==
    ASSUME Grows, NEW k \in Keys, NEW n \in Nat, Backed(k, n)
    PROVE  Backed(k, n)'
<1>1. tried[k] \in Nat /\ tried'[k] \in Nat /\ faults \in Nat /\ faults' \in Nat
  BY DEF Grows, HistInv
<1>. QED BY <1>1 DEF Grows, Backed

LEMMA EntryStays ==
    ASSUME Grows, NEW e \in Entries, EntryOK(e)
    PROVE  EntryOK(e)'
<1>1. e.key \in Keys /\ e.tries \in Nat
  BY OutboxAssumption DEF Entries
<1>. QED BY <1>1, BackedStays DEF Grows, EntryOK

LEMMA AnswerStays ==
    ASSUME Grows, NEW e \in Entries, NEW pc, NEW answer, AnswerOK(e, pc, answer)
    PROVE  AnswerOK(e, pc, answer)'
<1>1. e.key \in Keys /\ e.tries + 1 \in Nat
  BY OutboxAssumption DEF Entries
<1>2. accepted[e.key] \in Nat /\ accepted'[e.key] \in Nat
  BY <1>1 DEF Grows, HistInv
<1>3. accepted[e.key] > 0 => accepted'[e.key] > 0
  BY <1>1, <1>2 DEF Grows
<1>. QED BY <1>1, <1>3, BackedStays DEF Grows, AnswerOK

\* The runs that take no step stay as they are.
LEMMA DrainStays ==
    ASSUME OutboxInv, Grows, NEW d \in Drains, drain'[d] = drain[d]
    PROVE  DrainOK(d)'
<1>1. drain[d] \in DrainRecords /\ DrainOK(d)
  BY DEF OutboxInv, DrainInv
<1>2. drain[d].todo \in Seq(Entries)
  BY <1>1 DEF DrainRecords
<1>3. \A i \in DOMAIN drain[d].todo : EntryOK(drain[d].todo[i])'
  BY <1>1, <1>2, EntryStays DEF DrainOK
<1>4. drain[d].pc # "idle" => Entry(d) \in Entries /\ Entry(d)' = Entry(d)
  BY <1>1, <1>2 DEF DrainOK, Entry
<1>5. drain[d].pc # "idle" => AnswerOK(Entry(d), drain[d].pc, drain[d].answer)'
  BY <1>1, <1>4, AnswerStays DEF DrainOK
<1>. QED BY <1>1, <1>3, <1>5 DEF DrainOK

\* A row is set, or not, and leaves the line.
LEMMA SetsKeeps ==
    ASSUME OutboxInv, NEW k \in Keys, NEW new \in RowRecords, NEW from,
           row[k].status \in from => /\ new.status # "none"
                                      /\ (new.status \in Queued => new.tries < MaxAttempts)
                                      /\ (new.status = "dead" => new.tries >= MaxAttempts)
                                      /\ Backed(k, new.tries),
           "none" \notin from,
           Sets(k, from, new), UNCHANGED <<accepted, tried, closed>>, faults' \in {faults, faults + 1}, HistInv'
    PROVE  RowInv' /\ Grows
<1>0. RowInv /\ HistInv
  BY DEF OutboxInv
<1>1. row \in [Keys -> RowRecords] /\ \A j \in Keys : row[j].tries \in Nat
  BY <1>0, OutboxAssumption DEF RowInv, RowRecords
<1>2. row' \in [Keys -> RowRecords] /\ \A j \in Keys : row'[j] = row[j] \/ (j = k /\ row[k].status \in from /\ row'[j] = new)
  <2>1. CASE row[k].status \in from
    BY <1>1, <2>1 DEF Sets
  <2>2. CASE row[k].status \notin from
    BY <1>1, <2>2 DEF Sets
  <2>. QED BY <2>1, <2>2
<1>3. Grows
  <2>1. faults \in Nat /\ faults' >= faults
    BY <1>0 DEF HistInv
  <2>2. \A j \in Keys : accepted[j] >= accepted[j] /\ tried[j] >= tried[j]
    BY <1>0 DEF HistInv
  <2>3. \A j \in Keys : row[j].status # "none" => row'[j].status # "none"
    BY <1>2
  <2>. QED BY <1>0, <1>1, <1>2, <2>1, <2>2, <2>3 DEF Grows
<1>4. \A j \in Keys : RowOK(j)'
  <2>. TAKE j \in Keys
  <2>1. CASE row'[j] = row[j]
    <3>1. RowOK(j) /\ row[j].tries \in Nat
      BY <1>0, <1>1 DEF RowInv
    <3>. QED BY <1>3, <2>1, <3>1, BackedStays DEF RowOK
  <2>2. CASE j = k /\ row[k].status \in from /\ row'[j] = new
    <3>1. new.tries \in Nat /\ Backed(k, new.tries)'
      BY <1>3, <2>2, BackedStays, OutboxAssumption DEF RowRecords
    <3>. QED BY <2>2, <3>1 DEF RowOK
  <2>. QED BY <1>2, <2>1, <2>2
<1>5. /\ line' \in Seq(Keys)
      /\ \A i \in DOMAIN line' : row'[line'[i]].status \in Queued
      /\ \A i, j \in DOMAIN line' : line'[i] = line'[j] => i = j
  <2>1. CASE row[k].status \in from
    <3>1. line' = OffLine(k)
      BY <2>1 DEF Sets
    <3>2. \A i \in DOMAIN line : line[i] \in Keys /\ row[line[i]].status \in Queued
      BY <1>0 DEF RowInv
    <3>3. \A i \in DOMAIN line' : line'[i] # k /\ line'[i] \in Keys /\ row[line'[i]].status \in Queued
      BY <1>0, <3>1, <3>2, OffLineRest
    <3>4. \A i \in DOMAIN line' : row'[line'[i]] = row[line'[i]]
      BY <1>2, <3>3
    <3>. QED BY <1>0, <3>1, <3>3, <3>4, OffLineRest
  <2>2. CASE row[k].status \notin from
    BY <1>0, <2>2 DEF Sets, RowInv
  <2>. QED BY <2>1, <2>2
<1>. QED BY <1>2, <1>3, <1>4, <1>5 DEF RowInv

LEMMA RowsStay ==
    ASSUME OutboxInv, UNCHANGED <<row, line>>, HistInv', faults' >= faults,
           \A k \in Keys : accepted'[k] >= accepted[k] /\ tried'[k] >= tried[k] /\ (closed[k] => closed'[k])
    PROVE  RowInv' /\ Grows
<1>1. RowInv /\ HistInv
  BY DEF OutboxInv
<1>2. Grows
  BY <1>1 DEF Grows, RowInv
<1>3. \A k \in Keys : RowOK(k) /\ row[k].tries \in Nat
  BY <1>1, OutboxAssumption DEF RowInv, RowRecords
<1>4. \A k \in Keys : RowOK(k)'
  BY <1>2, <1>3, BackedStays DEF RowOK
<1>. QED BY <1>1, <1>2, <1>4 DEF RowInv

-----------------------------------------------------------------------------
(* What a run does next.                                                    *)

LEMMA DrainGoes ==
    ASSUME OutboxInv, Grows, NEW d \in Drains, drain[d].pc # "idle",
           NEW pc \in {"deliver", "mark", "book", "catch"}, NEW answer \in Answers,
           Goes(d, pc, answer), AnswerOK(Entry(d), pc, answer)'
    PROVE  DrainInv'
<1>1. drain \in [Drains -> DrainRecords] /\ DrainOK(d)
  BY DEF OutboxInv, DrainInv
<1>2. /\ drain' \in [Drains -> DrainRecords]
      /\ drain'[d].todo = drain[d].todo /\ drain'[d].pc = pc /\ drain'[d].answer = answer
      /\ \A e \in Drains \ {d} : drain'[e] = drain[e]
  BY <1>1 DEF Goes, DrainRecords
<1>a. \A e \in Entries : EntryOK(e) => EntryOK(e)'
  BY EntryStays
<1>b. \A i \in DOMAIN drain[d].todo : drain[d].todo[i] \in Entries /\ EntryOK(drain[d].todo[i])
  BY <1>1 DEF DrainOK, DrainRecords
<1>3. \A i \in DOMAIN drain'[d].todo : EntryOK(drain[d].todo[i])'
  BY <1>2, <1>a, <1>b
<1>4. Entry(d)' = Entry(d)
  BY <1>2 DEF Entry
<1>5. DrainOK(d)'
  BY <1>1, <1>2, <1>3, <1>4 DEF DrainOK
<1>. QED BY <1>2, <1>5, DrainStays DEF DrainInv

\* A run that goes on with the rest of its entries, or stops.
LEMMA DrainTurns ==
    ASSUME OutboxInv, Grows, NEW d \in Drains,
           \E new \in DrainRecords :
             /\ drain' = [drain EXCEPT ![d] = new]
             /\ new.pc \in {"idle", "deliver"} /\ (new.pc = "deliver" => new.todo # <<>>)
             /\ \A i \in DOMAIN new.todo : EntryOK(new.todo[i])
    PROVE  DrainInv'
<1>0. PICK new \in DrainRecords :
             /\ drain' = [drain EXCEPT ![d] = new]
             /\ new.pc \in {"idle", "deliver"} /\ (new.pc = "deliver" => new.todo # <<>>)
             /\ \A i \in DOMAIN new.todo : EntryOK(new.todo[i])
  OBVIOUS
<1>1. drain \in [Drains -> DrainRecords]
  BY DEF OutboxInv, DrainInv
<1>2. drain' \in [Drains -> DrainRecords] /\ drain'[d] = new /\ \A e \in Drains \ {d} : drain'[e] = drain[e]
  BY <1>0, <1>1
<1>a. \A e \in Entries : EntryOK(e) => EntryOK(e)'
  BY EntryStays
<1>b. \A i \in DOMAIN new.todo : new.todo[i] \in Entries /\ EntryOK(new.todo[i])
  BY <1>0 DEF DrainRecords
<1>c. \A i \in DOMAIN drain'[d].todo : EntryOK(drain[d].todo[i])'
  BY <1>2, <1>a, <1>b
<1>3. drain'[d].pc # "idle" => AnswerOK(Entry(d), drain[d].pc, drain[d].answer)'
  BY <1>0, <1>2 DEF AnswerOK
<1>4. DrainOK(d)'
  BY <1>0, <1>2, <1>3, <1>c DEF DrainOK
<1>. QED BY <1>2, <1>4, DrainStays DEF DrainInv

LEMMA IdleOK == Idle \in DrainRecords /\ Idle.pc = "idle" /\ Idle.todo = <<>>
  BY DEF Idle, DrainRecords, Answers

LEMMA DrainDone ==
    ASSUME OutboxInv, Grows, NEW d \in Drains, drain[d].pc # "idle", Done(d)
    PROVE  DrainInv'
<1>1. drain[d] \in DrainRecords /\ DrainOK(d)
  BY DEF OutboxInv, DrainInv
<1>2. drain[d].todo \in Seq(Entries) /\ drain[d].todo # <<>>
  BY <1>1 DEF DrainRecords, DrainOK
<1>3. CASE Rest(d) = <<>>
  <2>1. drain' = [drain EXCEPT ![d] = Idle] /\ \A i \in DOMAIN Idle.todo : EntryOK(Idle.todo[i])
    BY <1>3, IdleOK DEF Done
  <2>. QED BY <2>1, IdleOK, DrainTurns
<1>4. CASE Rest(d) # <<>>
  <2>. DEFINE new == [pc |-> "deliver", todo |-> Rest(d), answer |-> "none"]
  <2>1. Rest(d) \in Seq(Entries) /\ \A i \in DOMAIN Rest(d) : i + 1 \in DOMAIN drain[d].todo /\ Rest(d)[i] = drain[d].todo[i + 1]
    BY <1>2 DEF Rest
  <2>2. new \in DrainRecords
    BY <2>1 DEF DrainRecords, Answers
  <2>3. \A i \in DOMAIN Rest(d) : Rest(d)[i] \in Entries /\ EntryOK(Rest(d)[i])
    BY <1>1, <2>1 DEF DrainOK
  <2>4. \A i \in DOMAIN new.todo : EntryOK(new.todo[i])
    BY <2>3
  <2>5. drain' = [drain EXCEPT ![d] = new] /\ new.pc = "deliver" /\ new.todo # <<>>
    BY <1>4 DEF Done
  <2>. HIDE DEF new
  <2>. QED BY <2>2, <2>4, <2>5, DrainTurns
<1>. QED BY <1>3, <1>4

-----------------------------------------------------------------------------
(* The steps.                                                               *)

LEMMA OutboxInit_ == OutboxInit => OutboxInv
<1>. SUFFICES ASSUME OutboxInit PROVE OutboxInv
  OBVIOUS
<1>1. RowInv
  BY OutboxAssumption DEF OutboxInit, RowInv, RowOK, Backed, RowRecords
<1>2. HistInv
  BY OutboxAssumption DEF OutboxInit, HistInv
<1>3. DrainInv
  BY IdleOK DEF OutboxInit, DrainInv, DrainOK
<1>. QED BY <1>1, <1>2, <1>3 DEF OutboxInv

\* The database's side: rows come, come due and go, and no run is touched.
LEMMA RowSteps ==
    ASSUME OutboxInv, NEW k \in Keys,
           Enqueue(k) \/ ComesDue(k) \/ Prune(k) \/ DeleteMonitor(k)
    PROVE  OutboxInv'
<1>0. RowInv /\ HistInv
  BY DEF OutboxInv
<1>1. UNCHANGED <<drain, accepted, tried, closed, faults>>
  BY DEF Enqueue, ComesDue, Prune, DeleteMonitor, RemoveRow
<1>2. HistInv'
  BY <1>0, <1>1 DEF HistInv
<1>3. row \in [Keys -> RowRecords] /\ \A j \in Keys : RowOK(j)
  BY <1>0 DEF RowInv
<1>4. RowInv' /\ Grows
  <2>1. CASE Enqueue(k)
    <3>1. /\ row' \in [Keys -> RowRecords] /\ row'[k].status = "pending"
          /\ \A j \in Keys : row'[j].tries = row[j].tries /\ (j # k => row'[j] = row[j])
      BY <1>3, <2>1 DEF Enqueue, RowRecords
    <3>2. \A i \in DOMAIN line : line[i] \in Keys /\ line[i] # k
      BY <1>0, <2>1 DEF Enqueue, RowInv, Queued
    <3>3. /\ line' \in Seq(Keys)
          /\ \A i \in DOMAIN line' : row'[line'[i]].status \in Queued
          /\ \A i, j \in DOMAIN line' : line'[i] = line'[j] => i = j
      BY <1>0, <2>1, <3>1, <3>2 DEF Enqueue, RowInv, Queued
    <3>4. \A j \in Keys : RowOK(j)'
      BY <1>1, <1>3, <2>1, <3>1 DEF RowOK, Backed, Enqueue
    <3>5. Grows
      BY <1>0, <1>1, <1>2, <1>3, <3>1 DEF Grows, HistInv
    <3>. QED BY <3>1, <3>3, <3>4, <3>5 DEF RowInv
  <2>2. CASE ComesDue(k)
    <3>1. row' = row /\ line' = Append(line, k) /\ row[k].status \in Queued
      BY <2>2 DEF ComesDue, Queued
    <3>2. /\ line' \in Seq(Keys)
          /\ \A i \in DOMAIN line' : row'[line'[i]].status \in Queued
          /\ \A i, j \in DOMAIN line' : line'[i] = line'[j] => i = j
      BY <1>0, <2>2, <3>1 DEF ComesDue, RowInv
    <3>3. \A j \in Keys : RowOK(j)'
      BY <1>1, <1>3, <3>1 DEF RowOK, Backed
    <3>4. Grows
      BY <1>0, <1>1, <1>2, <1>3, <3>1 DEF Grows, HistInv
    <3>. QED BY <1>3, <3>1, <3>2, <3>3, <3>4 DEF RowInv
  <2>3. CASE Prune(k) \/ DeleteMonitor(k)
    <3>. DEFINE new == [row[k] EXCEPT !.status = "removed"]
    <3>1. row[k].status \in Present /\ row' = [row EXCEPT ![k] = new] /\ line' = OffLine(k)
      BY <1>3, <2>3 DEF Prune, DeleteMonitor, RemoveRow, Present, RowRecords
    <3>2. Sets(k, Present, new)
      BY <3>1 DEF Sets
    <3>3. new \in RowRecords /\ new.status = "removed" /\ Backed(k, new.tries)
      BY <1>3 DEF RowRecords, RowOK
    <3>4. "none" \notin Present /\ "removed" \notin Queued
      BY DEF Present, Queued, Settled
    <3>. HIDE DEF new
    <3>. QED BY <1>1, <1>2, <3>2, <3>3, <3>4, SetsKeeps
  <2>. QED BY <2>1, <2>2, <2>3
<1>5. DrainInv'
  BY <1>1, <1>4, DrainStays DEF OutboxInv, DrainInv
<1>. QED BY <1>2, <1>4, <1>5 DEF OutboxInv

LEMMA FaultKeeps ==
    ASSUME HistInv, UNCHANGED faults \/ Fault,
           accepted' \in [Keys -> Nat], tried' \in [Keys -> Nat], closed' \in [Keys -> BOOLEAN]
    PROVE  HistInv' /\ faults' \in {faults, faults + 1} /\ faults' >= faults
<1>1. faults \in 0 .. MaxFaults /\ (faults' = faults \/ (faults < MaxFaults /\ faults' = faults + 1))
  BY DEF HistInv, Fault
<1>2. faults' \in 0 .. MaxFaults /\ faults' \in {faults, faults + 1} /\ faults' >= faults
  BY <1>1, OutboxAssumption
<1>. QED BY <1>2 DEF HistInv

LEMMA ClaimStep ==
    ASSUME OutboxInv, NEW d \in Drains, Claim(d)
    PROVE  OutboxInv'
<1>0. RowInv /\ HistInv
  BY DEF OutboxInv
<1>1. UNCHANGED <<row, line, accepted, tried, closed>> /\ HistInv' /\ faults' >= faults
  <2>1. UNCHANGED <<row, line, accepted, tried, closed>> /\ (UNCHANGED faults \/ Fault)
    BY DEF Claim
  <2>. QED BY <1>0, <2>1, FaultKeeps DEF HistInv
<1>2. RowInv' /\ Grows
  BY <1>0, <1>1, RowsStay DEF HistInv
<1>3. PICK n \in 1 .. Len(line) :
        drain' = [drain EXCEPT ![d] = [pc |-> "deliver", todo |-> ClaimDue(n), answer |-> "none"]]
  BY DEF Claim
<1>. DEFINE new == [pc |-> "deliver", todo |-> ClaimDue(n), answer |-> "none"]
<1>4. \A i \in 1 .. n : /\ line[i] \in Keys /\ row[line[i]].status \in Queued
                         /\ row[line[i]] \in RowRecords /\ RowOK(line[i])
  BY <1>0 DEF RowInv
<1>5. ClaimDue(n) \in Seq(Entries) /\ Len(ClaimDue(n)) = n
  BY <1>4 DEF ClaimDue, OldestDue, Entries, RowRecords
<1>6. \A i \in 1 .. n : EntryOK(ClaimDue(n)[i])
  BY <1>4 DEF ClaimDue, OldestDue, EntryOK, RowOK, Queued
<1>7. new \in DrainRecords /\ new.pc = "deliver" /\ new.todo = ClaimDue(n) /\ ClaimDue(n) # <<>>
  <2>1. ClaimDue(n) # <<>>
    BY <1>5
  <2>. QED BY <1>5, <2>1 DEF DrainRecords, Answers
<1>8. DrainInv'
  <2>1. \A i \in DOMAIN new.todo : EntryOK(new.todo[i])
    BY <1>5, <1>6, <1>7
  <2>. HIDE DEF new
  <2>. QED BY <1>2, <1>3, <1>7, <2>1, DrainTurns DEF new
<1>. QED BY <1>1, <1>2, <1>8 DEF OutboxInv

\* What a run that is at work knows of the entry at hand.
LEMMA AtHand ==
    ASSUME OutboxInv, NEW d \in Drains, drain[d].pc # "idle"
    PROVE  /\ drain[d] \in DrainRecords /\ Entry(d) \in Entries /\ Entry(d).key \in Keys
           /\ Entry(d).tries \in Nat /\ Entry(d).tries < MaxAttempts
           /\ row[Entry(d).key].status # "none" /\ Backed(Entry(d).key, Entry(d).tries)
           /\ AnswerOK(Entry(d), drain[d].pc, drain[d].answer)
<1>1. drain[d] \in DrainRecords /\ DrainOK(d)
  BY DEF OutboxInv, DrainInv
<1>2. drain[d].todo \in Seq(Entries) /\ drain[d].todo # <<>>
  BY <1>1 DEF DrainRecords, DrainOK
<1>3. Entry(d) = drain[d].todo[1] /\ Entry(d) \in Entries /\ 1 \in DOMAIN drain[d].todo
  BY <1>2 DEF Entry
<1>4. Entry(d).key \in Keys /\ Entry(d).tries \in Nat
  BY <1>3, OutboxAssumption DEF Entries
<1>5. EntryOK(Entry(d)) /\ AnswerOK(Entry(d), drain[d].pc, drain[d].answer)
  BY <1>1, <1>3 DEF DrainOK
<1>. QED BY <1>1, <1>3, <1>4, <1>5 DEF EntryOK

\* The entry at hand stays at hand while the run goes on with it.
LEMMA GoesSame ==
    ASSUME OutboxInv, NEW d \in Drains, NEW pc, NEW answer, Goes(d, pc, answer)
    PROVE  Entry(d)' = Entry(d)
<1>1. drain \in [Drains -> DrainRecords]
  BY DEF OutboxInv, DrainInv
<1>2. drain'[d].todo = drain[d].todo
  BY <1>1 DEF Goes, DrainRecords
<1>. QED BY <1>2 DEF Entry

\* A fault, or an attempt that is counted, makes room for one more.
LEMMA OneMore ==
    ASSUME OutboxInv, HistInv', NEW k \in Keys, NEW n \in Nat, Backed(k, n), closed[k] => closed'[k],
           \/ faults' = faults + 1 /\ tried'[k] >= tried[k]
           \/ tried'[k] = tried[k] + 1 /\ faults' >= faults
    PROVE  closed'[k] \/ n + 1 <= tried'[k] + faults'
<1>1. tried[k] \in Nat /\ tried'[k] \in Nat /\ faults \in Nat /\ faults' \in Nat
  BY DEF OutboxInv, HistInv
<1>2. CASE closed[k]
  BY <1>2 DEF Backed
<1>3. CASE n <= tried[k] + faults
  BY <1>1, <1>3 DEF Backed
<1>. QED BY <1>2, <1>3 DEF Backed

\* A fault that is caught while an entry is at hand.
LEMMA FaultCaught ==
    ASSUME OutboxInv, Grows, NEW d \in Drains, drain[d].pc # "idle", Goes(d, "catch", "none"),
           faults' = faults + 1
    PROVE  DrainInv'
<1>1. Entry(d).key \in Keys /\ Entry(d).tries \in Nat /\ Backed(Entry(d).key, Entry(d).tries)
  BY AtHand
<1>2. HistInv' /\ tried'[Entry(d).key] >= tried[Entry(d).key] /\ (closed[Entry(d).key] => closed'[Entry(d).key])
  BY <1>1 DEF Grows
<1>a. \A k \in Keys, n \in Nat :
        /\ Backed(k, n) /\ tried'[k] >= tried[k] /\ (closed[k] => closed'[k])
        => closed'[k] \/ n + 1 <= tried'[k] + faults'
  BY <1>2, OneMore
<1>3. Entry(d)' = Entry(d)
  BY GoesSame
<1>4. AnswerOK(Entry(d), "catch", "none")'
  BY <1>1, <1>2, <1>3, <1>a DEF AnswerOK, Backed
<1>. QED BY <1>4, DrainGoes DEF Answers

LEMMA AttemptStep ==
    ASSUME OutboxInv, NEW d \in Drains, Attempt(d)
    PROVE  OutboxInv'
<1>. DEFINE e == Entry(d)
            k == Entry(d).key
<1>0. RowInv /\ HistInv
  BY DEF OutboxInv
<1>1. /\ drain[d].pc = "deliver" /\ drain[d].pc # "idle" /\ UNCHANGED <<row, line>>
      /\ UNCHANGED accepted \/ accepted' = [accepted EXCEPT ![k] = @ + 1]
      /\ UNCHANGED tried \/ tried' = [tried EXCEPT ![k] = @ + 1]
      /\ UNCHANGED closed \/ closed' = [closed EXCEPT ![k] = TRUE]
      /\ UNCHANGED faults \/ Fault
  BY DEF Attempt
<1>2. k \in Keys /\ e.tries \in Nat /\ Backed(k, e.tries)
  BY <1>1, AtHand
<1>3. accepted' \in [Keys -> Nat] /\ \A j \in Keys : accepted'[j] >= accepted[j]
  BY <1>0, <1>1 DEF HistInv
<1>4. tried' \in [Keys -> Nat] /\ \A j \in Keys : tried'[j] >= tried[j]
  BY <1>0, <1>1 DEF HistInv
<1>5. closed' \in [Keys -> BOOLEAN] /\ \A j \in Keys : closed[j] => closed'[j]
  BY <1>0, <1>1 DEF HistInv
<1>6. HistInv' /\ faults' >= faults
  BY <1>0, <1>1, <1>3, <1>4, <1>5, FaultKeeps
<1>7. RowInv' /\ Grows
  BY <1>1, <1>3, <1>4, <1>5, <1>6, RowsStay
<1>8. \E pc \in {"mark", "catch"}, answer \in Answers :
        Goes(d, pc, answer) /\ AnswerOK(Entry(d), pc, answer)'
  <2>1. CASE /\ accepted' = [accepted EXCEPT ![k] = @ + 1]
             /\ Goes(d, "mark", "accepted")
    <3>1. Entry(d)' = Entry(d)
      BY <2>1, GoesSame
    <3>2. accepted'[k] > 0
      BY <1>0, <1>2, <2>1 DEF HistInv
    <3>3. AnswerOK(Entry(d), "mark", "accepted")'
      BY <3>1, <3>2 DEF AnswerOK
    <3>. QED BY <2>1, <3>3 DEF Answers
  <2>2. CASE /\ tried' = [tried EXCEPT ![k] = @ + 1]
             /\ Goes(d, "mark", "refused")
    <3>1. Entry(d)' = Entry(d)
      BY <2>2, GoesSame
    <3>2. tried'[k] = tried[k] + 1
      BY <1>0, <1>2, <2>2 DEF HistInv
    <3>3. closed'[k] \/ e.tries + 1 <= tried'[k] + faults'
      BY <1>2, <1>5, <1>6, <3>2, OneMore
    <3>4. AnswerOK(Entry(d), "mark", "refused")'
      BY <3>1, <3>3 DEF AnswerOK, Backed
    <3>. QED BY <2>2, <3>4 DEF Answers
  <2>3. CASE Goes(d, "mark", "deferred")
    <3>1. AnswerOK(Entry(d), "mark", "deferred")'
      BY DEF AnswerOK
    <3>. QED BY <2>3, <3>1 DEF Answers
  <2>4. CASE \E a \in {"expired", "gone"} : closed' = [closed EXCEPT ![k] = TRUE] /\ Goes(d, "mark", a)
    <3>1. PICK a \in {"expired", "gone"} : closed' = [closed EXCEPT ![k] = TRUE] /\ Goes(d, "mark", a)
      BY <2>4
    <3>2. Entry(d)' = Entry(d) /\ closed'[k]
      BY <1>0, <1>2, <3>1, GoesSame DEF HistInv
    <3>3. AnswerOK(Entry(d), "mark", a)'
      BY <3>2 DEF AnswerOK
    <3>. QED BY <3>1, <3>3 DEF Answers
  <2>5. CASE Fault /\ UNCHANGED tried /\ Goes(d, "catch", "none")
    <3>1. Entry(d)' = Entry(d)
      BY <2>5, GoesSame
    <3>2. faults' = faults + 1
      BY <2>5 DEF Fault
    <3>3. closed'[k] \/ e.tries + 1 <= tried'[k] + faults'
      BY <1>2, <1>4, <1>5, <1>6, <3>2, OneMore
    <3>4. AnswerOK(Entry(d), "catch", "none")'
      BY <3>1, <3>3 DEF AnswerOK, Backed
    <3>. QED BY <2>5, <3>4 DEF Answers
  <2>. QED BY <2>1, <2>2, <2>3, <2>4, <2>5 DEF Attempt
<1>9. DrainInv'
  <2>1. PICK pc \in {"mark", "catch"}, answer \in Answers :
          Goes(d, pc, answer) /\ AnswerOK(Entry(d), pc, answer)'
    BY <1>8
  <2>. QED BY <1>1, <1>7, <2>1, DrainGoes
<1>. QED BY <1>6, <1>7, <1>9 DEF OutboxInv

\* A failed attempt that is written down.
LEMMA FailedKeeps ==
    ASSUME OutboxInv, NEW k \in Keys, NEW n \in 1 .. MaxAttempts, Backed(k, n), MarkFailed(k, n),
           UNCHANGED <<accepted, tried, closed>>, faults' \in {faults, faults + 1}, HistInv'
    PROVE  RowInv' /\ Grows
<1>. DEFINE new == Retried(n)
<1>1. /\ new \in RowRecords /\ new.status \in {"dead", "failed"} /\ new.tries = n
      /\ new.status \in Queued => n < MaxAttempts
      /\ new.status = "dead" => n >= MaxAttempts
  <2>1. CASE n >= MaxAttempts
    BY <2>1, OutboxAssumption DEF Retried, RowRecords, Queued
  <2>2. CASE n < MaxAttempts
    BY <2>2, OutboxAssumption DEF Retried, RowRecords, Queued
  <2>. QED BY <2>1, <2>2, OutboxAssumption
<1>2. Sets(k, Queued, new) /\ "none" \notin Queued
  BY DEF MarkFailed, Queued
<1>. HIDE DEF new
<1>. QED BY <1>1, <1>2, SetsKeeps

\* However a mark lands, the row is one that can be.
LEMMA MarksKeep ==
    ASSUME OutboxInv, NEW d \in Drains, drain[d].pc = "mark",
           Marks(Entry(d), drain[d].answer),
           UNCHANGED <<accepted, tried, closed>>, faults' \in {faults, faults + 1}, HistInv'
    PROVE  RowInv' /\ Grows
<1>. DEFINE e == Entry(d)
            k == Entry(d).key
<1>1. /\ e.key \in Keys /\ e.tries \in Nat /\ e.tries < MaxAttempts
      /\ AnswerOK(e, "mark", drain[d].answer)
  BY AtHand
<1>2. row[k] \in RowRecords /\ row[k].tries \in Nat /\ RowOK(k) /\ MaxAttempts \in Nat \ {0}
  BY <1>1, OutboxAssumption DEF OutboxInv, RowInv, RowRecords
<1>3. CASE MarkSent(k)
  <2>. DEFINE new == [row[k] EXCEPT !.status = "sent"]
  <2>1. new \in RowRecords /\ new.status = "sent" /\ Backed(k, new.tries)
    BY <1>2 DEF RowRecords, RowOK
  <2>2. Sets(k, Present, new) /\ "none" \notin Present /\ "sent" \notin Queued
    BY <1>3 DEF MarkSent, Present, Queued, Settled
  <2>. HIDE DEF new
  <2>. QED BY <1>1, <2>1, <2>2, SetsKeeps
<1>5. CASE MarkDeferred(k)
  <2>. DEFINE new == [row[k] EXCEPT !.status = "failed"]
  <2>1. new \in RowRecords /\ new.status = "failed" /\ new.tries = row[k].tries /\ Backed(k, new.tries)
    BY <1>2 DEF RowRecords, RowOK
  <2>2. Sets(k, Queued, new) /\ "none" \notin Queued
    BY <1>5 DEF MarkDeferred, Queued
  <2>3. row[k].status \in Queued => new.tries < MaxAttempts
    BY <1>2, <2>1 DEF RowOK
  <2>. HIDE DEF new
  <2>. QED BY <1>1, <2>1, <2>2, <2>3, SetsKeeps
<1>6. CASE drain[d].answer = "refused" /\ MarkFailed(k, e.tries + 1)
  <2>1. e.tries + 1 \in 1 .. MaxAttempts
    BY <1>1, <1>2
  <2>2. Backed(k, e.tries + 1)
    BY <1>1, <1>6 DEF AnswerOK
  <2>. QED BY <1>1, <1>6, <2>1, <2>2, FailedKeeps
<1>7. CASE drain[d].answer = "gone" /\ MarkFailed(k, MaxAttempts)
  <2>1. MaxAttempts \in 1 .. MaxAttempts
    BY <1>2
  <2>2. Backed(k, MaxAttempts)
    BY <1>1, <1>7 DEF AnswerOK, Backed
  <2>. QED BY <1>1, <1>7, <2>1, <2>2, FailedKeeps
<1>. QED BY <1>3, <1>5, <1>6, <1>7 DEF Marks

LEMMA MarkStep ==
    ASSUME OutboxInv, NEW d \in Drains, Mark(d)
    PROVE  OutboxInv'
<1>0. RowInv /\ HistInv
  BY DEF OutboxInv
<1>1. drain[d].pc = "mark" /\ drain[d].pc # "idle" /\ UNCHANGED <<accepted, tried, closed>> /\ (UNCHANGED faults \/ Fault)
  BY DEF Mark
<1>2. HistInv' /\ faults' \in {faults, faults + 1} /\ faults' >= faults
  BY <1>0, <1>1, FaultKeeps DEF HistInv
<1>3. RowInv' /\ Grows
  <2>1. CASE Marks(Entry(d), drain[d].answer)
    BY <1>1, <1>2, <2>1, MarksKeep
  <2>2. CASE UNCHANGED <<row, line>>
    BY <1>0, <1>1, <1>2, <2>2, RowsStay DEF HistInv
  <2>. QED BY <2>1, <2>2 DEF Mark
<1>4. Done(d) => DrainInv'
  BY <1>1, <1>3, DrainDone
<1>5. Goes(d, "book", "none") => DrainInv'
  <2>1. AnswerOK(Entry(d), "book", "none")'
    BY DEF AnswerOK
  <2>. QED BY <1>1, <1>3, <2>1, DrainGoes DEF Answers
<1>6. Fault /\ Goes(d, "catch", "none") => DrainInv'
  BY <1>1, <1>3, FaultCaught DEF Fault
<1>. QED BY <1>2, <1>3, <1>4, <1>5, <1>6 DEF OutboxInv, Mark

LEMMA BookStep ==
    ASSUME OutboxInv, NEW d \in Drains, Book(d)
    PROVE  OutboxInv'
<1>0. RowInv /\ HistInv
  BY DEF OutboxInv
<1>1. drain[d].pc = "book" /\ drain[d].pc # "idle" /\ UNCHANGED <<row, line, accepted, tried, closed>> /\ (UNCHANGED faults \/ Fault)
  BY DEF Book
<1>2. HistInv' /\ faults' >= faults
  BY <1>0, <1>1, FaultKeeps DEF HistInv
<1>3. RowInv' /\ Grows
  BY <1>0, <1>1, <1>2, RowsStay DEF HistInv
<1>4. Done(d) => DrainInv'
  BY <1>1, <1>3, DrainDone
<1>5. Fault /\ Goes(d, "catch", "none") => DrainInv'
  BY <1>1, <1>3, FaultCaught DEF Fault
<1>. QED BY <1>2, <1>3, <1>4, <1>5 DEF OutboxInv, Book

LEMMA CatchStep ==
    ASSUME OutboxInv, NEW d \in Drains, Catch(d)
    PROVE  OutboxInv'
<1>. DEFINE e == Entry(d)
            k == Entry(d).key
<1>0. RowInv /\ HistInv
  BY DEF OutboxInv
<1>1. drain[d].pc = "catch" /\ drain[d].pc # "idle" /\ UNCHANGED <<accepted, tried, closed>> /\ (UNCHANGED faults \/ Fault) /\ Done(d)
  BY DEF Catch
<1>2. HistInv' /\ faults' \in {faults, faults + 1} /\ faults' >= faults
  BY <1>0, <1>1, FaultKeeps DEF HistInv
<1>3. k \in Keys /\ e.tries + 1 \in 1 .. MaxAttempts /\ Backed(k, e.tries + 1)
  <2>1. k \in Keys /\ e.tries \in Nat /\ e.tries < MaxAttempts /\ AnswerOK(e, "catch", drain[d].answer)
    BY <1>1, AtHand
  <2>. QED BY <2>1, OutboxAssumption DEF AnswerOK
<1>4. RowInv' /\ Grows
  <2>1. CASE MarkFailed(k, e.tries + 1)
    BY <1>1, <1>2, <1>3, <2>1, FailedKeeps
  <2>2. CASE UNCHANGED <<row, line>>
    BY <1>0, <1>1, <1>2, <2>2, RowsStay DEF HistInv
  <2>. QED BY <2>1, <2>2 DEF Catch
<1>5. DrainInv'
  BY <1>1, <1>4, DrainDone
<1>. QED BY <1>2, <1>4, <1>5 DEF OutboxInv

LEMMA CrashStep ==
    ASSUME OutboxInv, NEW d \in Drains, Crash(d)
    PROVE  OutboxInv'
<1>0. RowInv /\ HistInv
  BY DEF OutboxInv
<1>1. UNCHANGED <<row, line, accepted, tried, closed>> /\ Fault /\ drain' = [drain EXCEPT ![d] = Idle]
  BY DEF Crash
<1>2. HistInv' /\ faults' >= faults
  BY <1>0, <1>1, FaultKeeps DEF HistInv
<1>3. RowInv' /\ Grows
  BY <1>0, <1>1, <1>2, RowsStay DEF HistInv
<1>4. \A i \in DOMAIN Idle.todo : EntryOK(Idle.todo[i])
  BY IdleOK
<1>5. DrainInv'
  BY <1>1, <1>3, <1>4, IdleOK, DrainTurns
<1>. QED BY <1>2, <1>3, <1>5 DEF OutboxInv

LEMMA OutboxStep == OutboxInv /\ [OutboxNext]_outboxVars => OutboxInv'
<1>. SUFFICES ASSUME OutboxInv, [OutboxNext]_outboxVars PROVE OutboxInv'
  OBVIOUS
<1>1. ASSUME NEW k \in Keys, Enqueue(k) \/ ComesDue(k) \/ Prune(k) \/ DeleteMonitor(k) PROVE OutboxInv'
  BY <1>1, RowSteps
<1>2. ASSUME NEW d \in Drains, Claim(d) \/ DrainStep(d) \/ Crash(d) PROVE OutboxInv'
  BY <1>2, ClaimStep, AttemptStep, MarkStep, BookStep, CatchStep, CrashStep DEF DrainStep
<1>3. CASE UNCHANGED outboxVars
  <2>1. RowInv' /\ HistInv'
    BY <1>3 DEF OutboxInv, RowInv, HistInv, RowOK, Backed, outboxVars
  <2>2. DrainInv'
    BY <1>3 DEF OutboxInv, DrainInv, DrainOK, EntryOK, AnswerOK, Backed, Entry, outboxVars
  <2>. QED BY <2>1, <2>2 DEF OutboxInv
<1>. QED BY <1>1, <1>2, <1>3 DEF OutboxNext

(* What the rows, the copies and the answers say of each other always holds, *)
(* however many runs drain the outbox at once and whatever fails.            *)
THEOREM OutboxInvariant == OutboxSpec => []OutboxInv
<1>1. OutboxInit => OutboxInv
  BY OutboxInit_
<1>2. OutboxInv /\ [OutboxNext]_outboxVars => OutboxInv'
  BY OutboxStep
<1>. QED BY <1>1, <1>2, PTL DEF OutboxSpec

(* The outbox's state has its type: the attempts of a row never pass         *)
(* MAX_ATTEMPTS, though a stale run writes its own count.                   *)
THEOREM OutboxTypeCorrect == OutboxSpec => []OutboxTypeOK
<1>1. OutboxInv => OutboxTypeOK
  BY OutboxTypes
<1>. QED BY <1>1, OutboxInvariant, PTL

(* An alert is given up on only when its destination is gone or every        *)
(* attempt was made, give or take one for each fault (computeRetry).         *)
THEOREM GivenUpOnlyWhenTried == OutboxSpec => []GivenUpWhenTried
<1>1. OutboxInv => GivenUpWhenTried
  <2>. SUFFICES ASSUME OutboxInv, NEW k \in Keys, row[k].status = "dead", ~closed[k]
                PROVE  tried[k] + faults >= MaxAttempts
    BY DEF GivenUpWhenTried
  <2>1. row[k] \in RowRecords /\ RowOK(k) /\ tried[k] \in Nat /\ faults \in Nat
    BY DEF OutboxInv, RowInv, HistInv
  <2>2. row[k].tries \in Nat /\ row[k].tries >= MaxAttempts /\ row[k].tries <= tried[k] + faults
    BY <2>1, OutboxAssumption DEF RowOK, Backed, RowRecords
  <2>. QED BY <2>1, <2>2, OutboxAssumption
<1>. QED BY <1>1, OutboxInvariant, PTL

-----------------------------------------------------------------------------
(* The outbox keeps AlertDelivery's promises.                               *)

Seen(status) == IF status \in Queued THEN "queued" ELSE status

\* A row that is written is, for AlertDelivery, an alert that becomes something.
LEMMA WrittenBecomes ==
    ASSUME OutboxInv, NEW k \in Keys, NEW new \in RowRecords, row' = [row EXCEPT ![k] = new],
           UNCHANGED <<accepted, closed>>, NEW from, Seen(row[k].status) \in from
    PROVE  Promise!Becomes(k, from, Seen(new.status))
<1>1. row \in [Keys -> RowRecords]
  BY DEF OutboxInv, RowInv
<1>2. row' \in [Keys -> RowRecords] /\ row'[k] = new /\ \A j \in Keys \ {k} : row'[j] = row[j]
  BY <1>1
<1>3. [j \in Keys |-> StateOf(j)]' = [[j \in Keys |-> StateOf(j)] EXCEPT ![k] = Seen(new.status)]
  BY <1>2 DEF StateOf, Seen
<1>4. [j \in Keys |-> StateOf(j)][k] \in from
  BY DEF StateOf, Seen
<1>5. UNCHANGED <<{j \in Keys : accepted[j] > 0}, {j \in Keys : closed[j]}>>
  OBVIOUS
<1>. QED BY <1>3, <1>4, <1>5 DEF Promise!Becomes

LEMMA NothingSeen ==
    ASSUME \A k \in Keys : Seen(row'[k].status) = Seen(row[k].status), UNCHANGED <<accepted, closed>>
    PROVE  UNCHANGED Promise!alertVars
BY DEF Promise!alertVars, StateOf, Seen

\* A row set from what it was to what AlertDelivery cannot tell from it, or else.
LEMMA SetsBecome ==
    ASSUME OutboxInv, NEW k \in Keys, NEW new \in RowRecords, NEW from, Sets(k, from, new),
           UNCHANGED <<accepted, closed>>
    PROVE  \/ UNCHANGED Promise!alertVars
           \/ row[k].status \in from /\ row' = [row EXCEPT ![k] = new] /\ Seen(row[k].status) # Seen(new.status)
<1>1. row \in [Keys -> RowRecords]
  BY DEF OutboxInv, RowInv
<1>2. CASE row[k].status \notin from
  BY <1>2, NothingSeen DEF Sets
<1>3. CASE row[k].status \in from /\ Seen(row[k].status) = Seen(new.status)
  <2>1. row' = [row EXCEPT ![k] = new]
    BY <1>3 DEF Sets
  <2>2. \A j \in Keys : Seen(row'[j].status) = Seen(row[j].status)
    BY <1>1, <1>3, <2>1
  <2>. QED BY <2>2, NothingSeen
<1>. QED BY <1>2, <1>3 DEF Sets

LEMMA FailedPromised ==
    ASSUME OutboxInv, NEW k \in Keys, NEW n \in 1 .. MaxAttempts, MarkFailed(k, n),
           UNCHANGED <<accepted, closed>>
    PROVE  [Promise!AlertNext]_(Promise!alertVars)
<1>. DEFINE new == Retried(n)
<1>1. new \in RowRecords /\ new.status \in {"dead", "failed"} /\ Sets(k, Queued, new)
  BY OutboxAssumption DEF Retried, RowRecords, MarkFailed
<1>. HIDE DEF new
<1>2. \/ UNCHANGED Promise!alertVars
      \/ row[k].status \in Queued /\ row' = [row EXCEPT ![k] = new] /\ Seen(row[k].status) # Seen(new.status)
  BY <1>1, SetsBecome
<1>3. CASE row[k].status \in Queued /\ row' = [row EXCEPT ![k] = new] /\ Seen(row[k].status) # Seen(new.status)
  <2>1. Seen(row[k].status) \in {"queued"} /\ Seen(new.status) = "dead"
    BY <1>1, <1>3 DEF Seen, Queued
  <2>2. Promise!Becomes(k, {"queued"}, "dead")
    BY <1>1, <1>3, <2>1, WrittenBecomes
  <2>. QED BY <2>2 DEF Promise!GiveUp, Promise!AlertNext
<1>. QED BY <1>2, <1>3

LEMMA MarksPromised ==
    ASSUME OutboxInv, NEW d \in Drains, drain[d].pc = "mark", Marks(Entry(d), drain[d].answer),
           UNCHANGED <<accepted, closed>>
    PROVE  [Promise!AlertNext]_(Promise!alertVars)
<1>. DEFINE e == Entry(d)
            k == Entry(d).key
<1>1. k \in Keys /\ e.tries \in Nat /\ e.tries < MaxAttempts /\ AnswerOK(e, "mark", drain[d].answer)
  BY AtHand
<1>2. row[k] \in RowRecords /\ MaxAttempts \in Nat \ {0}
  BY <1>1, OutboxAssumption DEF OutboxInv, RowInv
<1>3. CASE drain[d].answer \in {"accepted", "expired"} /\ MarkSent(k)
  <2>. DEFINE new == [row[k] EXCEPT !.status = "sent"]
  <2>1. new \in RowRecords /\ new.status = "sent" /\ Sets(k, Present, new)
    BY <1>2, <1>3 DEF RowRecords, MarkSent
  <2>. HIDE DEF new
  <2>2. \/ UNCHANGED Promise!alertVars
        \/ row[k].status \in Present /\ row' = [row EXCEPT ![k] = new] /\ Seen(row[k].status) # Seen(new.status)
    BY <1>1, <2>1, SetsBecome
  <2>3. CASE row[k].status \in Present /\ row' = [row EXCEPT ![k] = new] /\ Seen(row[k].status) # Seen(new.status)
    <3>1. Seen(row[k].status) \in {"queued", "dead"} /\ Seen(new.status) = "sent"
      BY <2>1, <2>3 DEF Seen, Present, Queued, Settled
    <3>2. Promise!Becomes(k, {"queued", "dead"}, "sent")
      BY <1>1, <2>1, <2>3, <3>1, WrittenBecomes
    <3>3. k \in {j \in Keys : accepted[j] > 0} \cup {j \in Keys : closed[j]}
      BY <1>1, <1>3 DEF AnswerOK
    <3>4. Promise!RecordSent(k)
      BY <3>2, <3>3 DEF Promise!RecordSent
    <3>. QED BY <1>1, <3>4 DEF Promise!AlertNext
  <2>. QED BY <2>2, <2>3
<1>4. CASE drain[d].answer = "refused" /\ MarkFailed(k, e.tries + 1)
  <2>1. e.tries + 1 \in 1 .. MaxAttempts
    BY <1>1, <1>2
  <2>. QED BY <1>1, <1>4, <2>1, FailedPromised
<1>5. CASE drain[d].answer = "deferred" /\ MarkDeferred(k)
  <2>. DEFINE new == [row[k] EXCEPT !.status = "failed"]
  <2>1. new \in RowRecords /\ new.status = "failed" /\ Sets(k, Queued, new)
    BY <1>2, <1>5 DEF RowRecords, MarkDeferred
  <2>. HIDE DEF new
  <2>2. row[k].status \in Queued => Seen(row[k].status) = Seen(new.status)
    BY <2>1 DEF Seen, Queued
  <2>. QED BY <1>1, <2>1, <2>2, SetsBecome
<1>6. CASE drain[d].answer = "gone" /\ MarkFailed(k, MaxAttempts)
  <2>1. MaxAttempts \in 1 .. MaxAttempts
    BY <1>2
  <2>. QED BY <1>1, <1>6, <2>1, FailedPromised
<1>. QED BY <1>3, <1>4, <1>5, <1>6 DEF Marks

LEMMA AttemptPromised ==
    ASSUME OutboxInv, NEW d \in Drains, Attempt(d)
    PROVE  [Promise!AlertNext]_(Promise!alertVars)
<1>1. drain[d].pc = "deliver" /\ UNCHANGED <<row, line>>
  BY DEF Attempt
<1>2. PICK k \in Keys : k = Entry(d).key /\ row[k].status # "none"
  BY <1>1, AtHand
<1>3. accepted \in [Keys -> Nat] /\ closed \in [Keys -> BOOLEAN] /\ row \in [Keys -> RowRecords]
  BY DEF OutboxInv, HistInv, RowInv
<1>4. UNCHANGED [j \in Keys |-> StateOf(j)] /\ [j \in Keys |-> StateOf(j)][k] # "none"
  BY <1>1, <1>2 DEF StateOf, Queued
<1>5. CASE accepted' = [accepted EXCEPT ![k] = @ + 1] /\ UNCHANGED closed
  <2>1. {j \in Keys : accepted[j] > 0}' = {j \in Keys : accepted[j] > 0} \cup {k}
    BY <1>2, <1>3, <1>5
  <2>2. Promise!Deliver(k)
    BY <1>4, <1>5, <2>1 DEF Promise!Deliver
  <2>. QED BY <2>2 DEF Promise!AlertNext
<1>6. CASE closed' = [closed EXCEPT ![k] = TRUE] /\ UNCHANGED accepted
  <2>1. {j \in Keys : closed[j]}' = {j \in Keys : closed[j]} \cup {k}
    BY <1>2, <1>3, <1>6
  <2>2. Promise!Lose(k)
    BY <1>4, <1>6, <2>1 DEF Promise!Lose
  <2>. QED BY <2>2 DEF Promise!AlertNext
<1>7. CASE UNCHANGED <<accepted, closed>>
  BY <1>1, <1>7, NothingSeen
<1>. QED BY <1>2, <1>5, <1>6, <1>7 DEF Attempt

LEMMA RowsPromised ==
    ASSUME OutboxInv, NEW k \in Keys, Enqueue(k) \/ ComesDue(k) \/ Prune(k) \/ DeleteMonitor(k)
    PROVE  [Promise!AlertNext]_(Promise!alertVars)
<1>1. UNCHANGED <<accepted, closed>> /\ row \in [Keys -> RowRecords] /\ row[k] \in RowRecords
  BY DEF Enqueue, ComesDue, Prune, DeleteMonitor, RemoveRow, OutboxInv, RowInv
<1>2. CASE Enqueue(k)
  <2>. DEFINE new == [row[k] EXCEPT !.status = "pending"]
  <2>1. new \in RowRecords /\ Seen(new.status) = "queued" /\ row' = [row EXCEPT ![k] = new]
    BY <1>1, <1>2 DEF RowRecords, Seen, Queued, Enqueue
  <2>. HIDE DEF new
  <2>2. Seen(row[k].status) \in {"none"}
    BY <1>2 DEF Enqueue, Seen, Queued
  <2>3. Promise!Becomes(k, {"none"}, "queued")
    BY <1>1, <2>1, <2>2, WrittenBecomes
  <2>. QED BY <2>3 DEF Promise!Queue, Promise!AlertNext
<1>3. CASE ComesDue(k)
  BY <1>3, NothingSeen DEF ComesDue
<1>4. CASE Prune(k) \/ DeleteMonitor(k)
  <2>. DEFINE new == [row[k] EXCEPT !.status = "removed"]
  <2>1. new \in RowRecords /\ Seen(new.status) = "removed" /\ row' = [row EXCEPT ![k] = new]
    BY <1>1, <1>4 DEF RowRecords, Seen, Queued, Prune, DeleteMonitor, RemoveRow
  <2>. HIDE DEF new
  <2>2. Seen(row[k].status) \in {"queued", "sent", "dead"}
    BY <1>4 DEF Prune, DeleteMonitor, RemoveRow, Seen, Queued, Settled, Present
  <2>3. Promise!Becomes(k, {"queued", "sent", "dead"}, "removed")
    BY <1>1, <2>1, <2>2, WrittenBecomes
  <2>. QED BY <2>3 DEF Promise!Remove, Promise!AlertNext
<1>. QED BY <1>2, <1>3, <1>4

(* The outbox implements AlertDelivery: an alert is queued once, only one     *)
(* that some provider took or whose device is gone is recorded as sent, and  *)
(* that stands until the row is removed (markSent, markFailed, the prune).   *)
THEOREM OutboxKeepsPromise == OutboxSpec => KeepsPromise
<1>1. OutboxInit => Promise!AlertInit
  <2>. SUFFICES ASSUME OutboxInit PROVE Promise!AlertInit
    OBVIOUS
  <2>1. [k \in Keys |-> StateOf(k)] = [k \in Keys |-> "none"]
    BY DEF OutboxInit, StateOf, Queued
  <2>2. {k \in Keys : accepted[k] > 0} = {} /\ {k \in Keys : closed[k]} = {}
    BY DEF OutboxInit
  <2>. QED BY <2>1, <2>2 DEF Promise!AlertInit
<1>2. OutboxInv /\ [OutboxNext]_outboxVars => [Promise!AlertNext]_(Promise!alertVars)
  <2>. SUFFICES ASSUME OutboxInv, [OutboxNext]_outboxVars PROVE [Promise!AlertNext]_(Promise!alertVars)
    OBVIOUS
  <2>1. ASSUME NEW k \in Keys, Enqueue(k) \/ ComesDue(k) \/ Prune(k) \/ DeleteMonitor(k)
        PROVE  [Promise!AlertNext]_(Promise!alertVars)
    BY <2>1, RowsPromised
  <2>2. ASSUME NEW d \in Drains, Claim(d) \/ Book(d) \/ Crash(d)
        PROVE  [Promise!AlertNext]_(Promise!alertVars)
    <3>1. UNCHANGED <<row, accepted, closed>>
      BY <2>2 DEF Claim, Book, Crash
    <3>. QED BY <3>1, NothingSeen
  <2>3. ASSUME NEW d \in Drains, Attempt(d)
        PROVE  [Promise!AlertNext]_(Promise!alertVars)
    BY <2>3, AttemptPromised
  <2>4. ASSUME NEW d \in Drains, Mark(d)
        PROVE  [Promise!AlertNext]_(Promise!alertVars)
    <3>1. drain[d].pc = "mark" /\ UNCHANGED <<accepted, closed>>
      BY <2>4 DEF Mark
    <3>2. CASE Marks(Entry(d), drain[d].answer)
      BY <3>1, <3>2, MarksPromised
    <3>3. CASE UNCHANGED row
      BY <3>1, <3>3, NothingSeen
    <3>. QED BY <2>4, <3>2, <3>3 DEF Mark
  <2>5. ASSUME NEW d \in Drains, Catch(d)
        PROVE  [Promise!AlertNext]_(Promise!alertVars)
    <3>1. drain[d].pc = "catch" /\ UNCHANGED <<accepted, closed>>
      BY <2>5 DEF Catch
    <3>2. Entry(d).key \in Keys /\ Entry(d).tries + 1 \in 1 .. MaxAttempts
      BY <3>1, AtHand, OutboxAssumption
    <3>3. CASE MarkFailed(Entry(d).key, Entry(d).tries + 1)
      BY <3>1, <3>2, <3>3, FailedPromised
    <3>4. CASE UNCHANGED row
      BY <3>1, <3>4, NothingSeen
    <3>. QED BY <2>5, <3>3, <3>4 DEF Catch
  <2>6. CASE UNCHANGED outboxVars
    BY <2>6, NothingSeen DEF outboxVars
  <2>. QED BY <2>1, <2>2, <2>3, <2>4, <2>5, <2>6 DEF OutboxNext, DrainStep
<1>. QED BY <1>1, <1>2, OutboxInvariant, PTL DEF OutboxSpec, KeepsPromise, Promise!AlertSpec

-----------------------------------------------------------------------------
(* How often an alert goes out, and how often it is tried.                   *)
(*                                                                         *)
(* A run that holds an entry it has not come to yet (Holders) will make one *)
(* more attempt, so it is counted beside those that were made.  Two runs     *)
(* hold one entry only by a fault, the overlap.  A row that can be claimed   *)
(* again has been taken no more often than there were faults, unless a run   *)
(* is about to settle that (Risky); and its count is behind what was tried   *)
(* by the faults at most, unless a run is about to write it down (Owed).     *)

Ahead(d) == {i \in DOMAIN drain[d].todo : i > 1 \/ drain[d].pc = "deliver"}
ToTry(d) == {drain[d].todo[i].key : i \in Ahead(d)}
Holders(k) == {d \in Drains : k \in ToTry(d)}
Held(k) == Cardinality(Holders(k))

Risky(d, k) ==
    \/ k \in ToTry(d)
    \/ drain[d].pc = "mark" /\ drain[d].answer = "accepted" /\ Entry(d).key = k
Owed(d, k) ==
    \/ k \in ToTry(d)
    \/ /\ drain[d].pc = "catch" \/ (drain[d].pc = "mark" /\ drain[d].answer # "deferred")
       /\ Entry(d).key = k

Covers(k, n) == tried[k] + Held(k) <= n + faults
TakenOK(k) ==
    /\ accepted[k] + Held(k) <= 1 + faults
    /\ row[k].status \in Queued => accepted[k] + Held(k) <= faults \/ \E d \in Drains : Risky(d, k)
TriedOK(k) ==
    /\ Covers(k, MaxAttempts)
    /\ row[k].status \in Queued =>
         Covers(k, row[k].tries + 1) /\ (Covers(k, row[k].tries) \/ \E d \in Drains : Owed(d, k))
    /\ \A d \in Drains : \A i \in DOMAIN drain[d].todo :
         drain[d].todo[i].key = k => Covers(k, drain[d].todo[i].tries + 1)
KeyOK(k) ==
    /\ IsFiniteSet(Holders(k))
    /\ row[k].status = "none" => accepted[k] = 0 /\ tried[k] = 0
    /\ TakenOK(k) /\ TriedOK(k)

\* A run's entries are of different alerts; one at rest has none.
TodoOK(d) ==
    /\ drain[d].pc = "idle" => drain[d].todo = <<>>
    /\ \A i, j \in DOMAIN drain[d].todo : drain[d].todo[i].key = drain[d].todo[j].key => i = j
CauseInv == (\A d \in Drains : TodoOK(d)) /\ (\A k \in Keys : KeyOK(k))

LEMMA CauseTypes ==
    ASSUME OutboxInv, CauseInv, NEW k \in Keys
    PROVE  /\ accepted[k] \in Nat /\ tried[k] \in Nat /\ faults \in Nat /\ Held(k) \in Nat
           /\ row[k] \in RowRecords /\ row[k].tries \in Nat /\ IsFiniteSet(Holders(k))
<1>1. KeyOK(k) /\ HistInv /\ RowInv
  BY DEF OutboxInv, CauseInv
<1>2. Held(k) \in Nat
  BY <1>1, FS_CardinalityType DEF KeyOK, Held
<1>. QED BY <1>1, <1>2, OutboxAssumption DEF HistInv, RowInv, RowRecords, KeyOK

\* When one run moves, each alert has one holder more, one less, or the same.
LEMMA HoldersMove ==
    ASSUME NEW d \in Drains, NEW k, IsFiniteSet(Holders(k)),
           \A e \in Drains \ {d} : drain'[e] = drain[e]
    PROVE  /\ IsFiniteSet(Holders(k)') /\ Held(k)' \in Nat
           /\ Held(k)' = Held(k) + (IF k \in ToTry(d)' THEN 1 ELSE 0) - (IF k \in ToTry(d) THEN 1 ELSE 0)
<1>1. \A e \in Drains \ {d} : e \in Holders(k)' <=> e \in Holders(k)
  BY DEF Holders, ToTry, Ahead
<1>2. (d \in Holders(k) <=> k \in ToTry(d)) /\ (d \in Holders(k)' <=> k \in ToTry(d)')
  BY DEF Holders
<1>3. Holders(k) \subseteq Drains /\ Holders(k)' \subseteq Drains /\ Held(k) \in Nat
  BY FS_CardinalityType DEF Holders, Held
<1>4. CASE k \in ToTry(d) <=> k \in ToTry(d)'
  <2>1. Holders(k)' = Holders(k)
    BY <1>1, <1>2, <1>3, <1>4
  <2>. QED BY <1>3, <1>4, <2>1 DEF Held
<1>5. CASE k \in ToTry(d)' /\ k \notin ToTry(d)
  <2>1. Holders(k)' = Holders(k) \cup {d} /\ d \notin Holders(k)
    BY <1>1, <1>2, <1>3, <1>5
  <2>2. IsFiniteSet(Holders(k) \cup {d}) /\ Cardinality(Holders(k) \cup {d}) = Cardinality(Holders(k)) + 1
    BY <2>1, FS_AddElement
  <2>. QED BY <1>3, <1>5, <2>1, <2>2 DEF Held
<1>6. CASE k \in ToTry(d) /\ k \notin ToTry(d)'
  <2>1. Holders(k)' = Holders(k) \ {d} /\ d \in Holders(k)
    BY <1>1, <1>2, <1>3, <1>6
  <2>2. IsFiniteSet(Holders(k) \ {d}) /\ Cardinality(Holders(k) \ {d}) = Cardinality(Holders(k)) - 1
    BY <2>1, FS_RemoveElement
  <2>3. Cardinality(Holders(k) \ {d}) \in Nat
    BY <2>2, FS_CardinalityType
  <2>. QED BY <1>3, <1>6, <2>1, <2>2, <2>3 DEF Held
<1>. QED BY <1>4, <1>5, <1>6

\* An alert stays within bounds when a run moves that adds no attempts but by
\* faults, and leaves nothing unsettled.
LEMMA KeyKeeps ==
    ASSUME OutboxInv, OutboxInv', CauseInv, NEW d \in Drains, NEW k \in Keys,
           \A e \in Drains \ {d} : drain'[e] = drain[e],
           faults' >= faults,
           row'[k].status = "none" => accepted'[k] = 0 /\ tried'[k] = 0,
           accepted'[k] + Held(k)' + faults <= accepted[k] + Held(k) + faults',
           tried'[k] + Held(k)' + faults <= tried[k] + Held(k) + faults',
           row'[k].status \in Queued =>
             /\ row[k].status \in Queued
             /\ row'[k].tries = row[k].tries \/ Covers(k, row[k].tries)'
             /\ Risky(d, k) => Risky(d, k)' \/ accepted'[k] + Held(k)' <= faults'
             /\ Owed(d, k) => Owed(d, k)' \/ Covers(k, row[k].tries)',
           \A i \in DOMAIN drain'[d].todo :
             drain'[d].todo[i].key = k => \E j \in DOMAIN drain[d].todo : drain'[d].todo[i] = drain[d].todo[j]
    PROVE  KeyOK(k)'
<1>0. /\ accepted[k] \in Nat /\ tried[k] \in Nat /\ faults \in Nat /\ Held(k) \in Nat
      /\ row[k].tries \in Nat /\ IsFiniteSet(Holders(k)) /\ KeyOK(k)
  BY CauseTypes DEF CauseInv
<1>1. /\ accepted'[k] \in Nat /\ tried'[k] \in Nat /\ faults' \in Nat
      /\ row'[k].tries \in Nat /\ IsFiniteSet(Holders(k)') /\ Held(k)' \in Nat
  <2>1. accepted'[k] \in Nat /\ tried'[k] \in Nat /\ faults' \in Nat /\ row'[k].tries \in Nat
    BY OutboxAssumption DEF OutboxInv, HistInv, RowInv, RowRecords
  <2>. QED BY <1>0, <2>1, HoldersMove
<1>2. \A n \in Nat : Covers(k, n) => tried'[k] + Held(k)' <= n + faults'
  BY <1>0, <1>1 DEF Covers
<1>3. \A e \in Drains \ {d} : (Risky(e, k)' <=> Risky(e, k)) /\ (Owed(e, k)' <=> Owed(e, k))
  BY DEF Risky, Owed, ToTry, Ahead, Entry
<1>4. TakenOK(k)'
  <2>1. accepted'[k] + Held(k)' <= 1 + faults'
    BY <1>0, <1>1 DEF KeyOK, TakenOK
  <2>2. ASSUME row'[k].status \in Queued
        PROVE  accepted'[k] + Held(k)' <= faults' \/ \E e \in Drains : Risky(e, k)'
    <3>1. CASE accepted[k] + Held(k) <= faults
      BY <1>0, <1>1, <3>1
    <3>2. CASE \E e \in Drains : Risky(e, k)
      BY <1>3, <2>2, <3>2
    <3>. QED BY <1>0, <2>2, <3>1, <3>2 DEF KeyOK, TakenOK
  <2>. QED BY <2>1, <2>2 DEF TakenOK
<1>5. TriedOK(k)'
  <2>1. Covers(k, MaxAttempts)'
    BY <1>0, <1>2, OutboxAssumption DEF KeyOK, TriedOK, Covers
  <2>2. ASSUME row'[k].status \in Queued
        PROVE  Covers(k, row[k].tries + 1)' /\ (Covers(k, row[k].tries)' \/ \E e \in Drains : Owed(e, k)')
    <3>1. CASE Covers(k, row[k].tries)'
      BY <1>1, <3>1 DEF Covers
    <3>2. CASE row'[k].tries = row[k].tries /\ ~Covers(k, row[k].tries)'
      <4>1. Covers(k, row[k].tries + 1) /\ ~Covers(k, row[k].tries)
        BY <1>0, <1>2, <2>2, <3>2 DEF KeyOK, TriedOK, Covers
      <4>2. Covers(k, row[k].tries + 1)'
        BY <1>0, <1>1, <3>2, <4>1 DEF Covers
      <4>3. \E e \in Drains : Owed(e, k)
        BY <1>0, <2>2, <4>1 DEF KeyOK, TriedOK
      <4>4. \E e \in Drains : Owed(e, k)'
        BY <1>3, <2>2, <3>2, <4>3
      <4>. QED BY <4>2, <4>4
    <3>. QED BY <2>2, <3>1, <3>2
  <2>3. ASSUME NEW e \in Drains, NEW i \in DOMAIN drain'[e].todo, drain'[e].todo[i].key = k
        PROVE  Covers(k, drain[e].todo[i].tries + 1)'
    <3>1. PICK j \in DOMAIN drain[e].todo : drain'[e].todo[i] = drain[e].todo[j]
      BY <2>3
    <3>2. Covers(k, drain[e].todo[j].tries + 1) /\ drain[e].todo[j] \in Entries
      BY <1>0, <2>3, <3>1 DEF KeyOK, TriedOK, OutboxInv, DrainInv, DrainRecords
    <3>3. drain[e].todo[j].tries + 1 \in Nat
      BY <3>2, OutboxAssumption DEF Entries
    <3>. QED BY <1>0, <1>1, <3>1, <3>2, <3>3 DEF Covers
  <2>. QED BY <2>1, <2>2, <2>3 DEF TriedOK
<1>. QED BY <1>1, <1>4, <1>5 DEF KeyOK

\* The database's side: a new row has no history, and no other becomes queued.
LEMMA CauseRows ==
    ASSUME OutboxInv, OutboxInv', CauseInv, UNCHANGED <<drain, accepted, tried, faults>>,
           \A k \in Keys : /\ row[k].status # "none" => row'[k].status # "none"
                           /\ row'[k].status \in Queued =>
                                \/ row[k].status = "none"
                                \/ row[k].status \in Queued /\ row'[k].tries = row[k].tries
    PROVE  CauseInv'
<1>1. \A d \in Drains : TodoOK(d)'
  BY DEF CauseInv, TodoOK
<1>2. ASSUME NEW k \in Keys
      PROVE  KeyOK(k)'
  <2>0. /\ accepted[k] \in Nat /\ tried[k] \in Nat /\ faults \in Nat /\ Held(k) \in Nat
        /\ row[k].tries \in Nat /\ row'[k].tries \in Nat /\ KeyOK(k) /\ MaxAttempts \in Nat
    BY CauseTypes, OutboxAssumption DEF CauseInv, OutboxInv, RowInv, RowRecords
  <2>1. /\ Holders(k)' = Holders(k) /\ Held(k)' = Held(k)
        /\ \A d \in Drains : (Risky(d, k)' <=> Risky(d, k)) /\ (Owed(d, k)' <=> Owed(d, k))
    BY DEF Holders, Held, ToTry, Ahead, Risky, Owed, Entry
  <2>2. \A n : Covers(k, n)' <=> tried[k] + Held(k) <= n' + faults
    BY <2>1 DEF Covers
  <2>3. row[k].status = "none" => accepted[k] = 0 /\ tried[k] = 0 /\ Held(k) = 0
    <3>1. ASSUME row[k].status = "none", NEW d \in Drains, k \in ToTry(d)
          PROVE  FALSE
      BY <3>1 DEF ToTry, Ahead, OutboxInv, DrainInv, DrainOK, EntryOK
    <3>2. row[k].status = "none" => Holders(k) = {}
      BY <3>1 DEF Holders
    <3>. QED BY <2>0, <3>2, FS_EmptySet DEF KeyOK, Held
  <2>4. TakenOK(k)'
    BY <2>0, <2>1, <2>3 DEF KeyOK, TakenOK
  <2>5. TriedOK(k)'
    <3>1. tried[k] + Held(k) <= MaxAttempts + faults
      BY <2>0 DEF KeyOK, TriedOK, Covers
    <3>2. ASSUME row'[k].status \in Queued
          PROVE  /\ tried[k] + Held(k) <= row'[k].tries + 1 + faults
                 /\ tried[k] + Held(k) <= row'[k].tries + faults \/ \E d \in Drains : Owed(d, k)
      BY <2>0, <2>3, <3>2 DEF KeyOK, TriedOK, Covers
    <3>. QED BY <2>0, <2>1, <3>1, <3>2 DEF KeyOK, TriedOK, Covers
  <2>. QED BY <2>0, <2>1, <2>4, <2>5 DEF KeyOK
<1>. QED BY <1>1, <1>2 DEF CauseInv

LEMMA CauseRowSteps ==
    ASSUME OutboxInv, OutboxInv', CauseInv, NEW k \in Keys,
           Enqueue(k) \/ ComesDue(k) \/ Prune(k) \/ DeleteMonitor(k)
    PROVE  CauseInv'
<1>1. UNCHANGED <<drain, accepted, tried, faults>>
  BY DEF Enqueue, ComesDue, Prune, DeleteMonitor, RemoveRow
<1>2. row \in [Keys -> RowRecords]
  BY DEF OutboxInv, RowInv
<1>3. \A j \in Keys : /\ row[j].status # "none" => row'[j].status # "none"
                      /\ row'[j].status \in Queued =>
                           \/ row[j].status = "none"
                           \/ row[j].status \in Queued /\ row'[j].tries = row[j].tries
  BY <1>2 DEF Enqueue, ComesDue, Prune, DeleteMonitor, RemoveRow, RowRecords, Queued
<1>. QED BY <1>1, <1>3, CauseRows

\* A run that turns to its next entry has the same ones ahead.
LEMMA TurnAhead ==
    ASSUME OutboxInv, CauseInv, NEW d \in Drains, drain[d].pc \notin {"idle", "deliver"}, Done(d)
    PROVE  /\ ToTry(d)' = ToTry(d) /\ TodoOK(d)'
           /\ \A i \in DOMAIN drain'[d].todo : \E j \in DOMAIN drain[d].todo : drain'[d].todo[i] = drain[d].todo[j]
           /\ \A e \in Drains \ {d} : drain'[e] = drain[e]
<1>0. drain \in [Drains -> DrainRecords] /\ DrainOK(d) /\ TodoOK(d)
  BY DEF OutboxInv, DrainInv, CauseInv
<1>a. drain[d].todo \in Seq(Entries) /\ drain[d].todo # <<>> /\ Len(drain[d].todo) \in Nat \ {0}
  BY <1>0 DEF DrainRecords, DrainOK
<1>. DEFINE todo == drain[d].todo
<1>1. /\ Rest(d) \in Seq(Entries) /\ Len(Rest(d)) = Len(todo) - 1
      /\ \A i \in DOMAIN Rest(d) : i + 1 \in DOMAIN todo /\ Rest(d)[i] = todo[i + 1]
      /\ \A j \in DOMAIN todo : j > 1 => j - 1 \in DOMAIN Rest(d) /\ Rest(d)[j - 1] = todo[j]
  BY <1>a DEF Rest
<1>2. \A e \in Drains \ {d} : drain'[e] = drain[e]
  BY <1>0 DEF Done
<1>3. /\ drain'[d].todo = Rest(d) /\ drain'[d].pc = IF Rest(d) = <<>> THEN "idle" ELSE "deliver"
  BY <1>0 DEF Done, Idle
<1>4. \A i \in DOMAIN Rest(d) : i + 1 \in Ahead(d) /\ Rest(d)[i].key = todo[i + 1].key
  BY <1>1 DEF Ahead
<1>5. \A j \in Ahead(d) : j - 1 \in DOMAIN Rest(d) /\ Rest(d)[j - 1].key = todo[j].key
  BY <1>1 DEF Ahead
<1>6. Ahead(d)' = DOMAIN Rest(d)
  <2>1. CASE Rest(d) = <<>>
    BY <1>3, <2>1 DEF Ahead
  <2>2. CASE Rest(d) # <<>>
    BY <1>3, <2>2 DEF Ahead
  <2>. QED BY <2>1, <2>2
<1>7. ToTry(d)' = {Rest(d)[i].key : i \in DOMAIN Rest(d)}
  BY <1>3, <1>6 DEF ToTry
<1>8. ToTry(d)' = ToTry(d)
  <2>1. ToTry(d) = {todo[i].key : i \in Ahead(d)}
    BY DEF ToTry
  <2>2. \A i \in DOMAIN Rest(d) : Rest(d)[i].key \in {todo[j].key : j \in Ahead(d)}
    BY <1>4
  <2>3. \A j \in Ahead(d) : todo[j].key \in {Rest(d)[i].key : i \in DOMAIN Rest(d)}
    BY <1>5
  <2>. HIDE DEF todo
  <2>. QED BY <1>7, <2>1, <2>2, <2>3
<1>9. TodoOK(d)'
  <2>1. drain'[d].pc = "idle" => drain'[d].todo = <<>>
    BY <1>3
  <2>2. ASSUME NEW i \in DOMAIN Rest(d), NEW j \in DOMAIN Rest(d), Rest(d)[i].key = Rest(d)[j].key
        PROVE  i = j
    <3>1. i + 1 = j + 1 /\ i \in Nat /\ j \in Nat
      BY <1>0, <1>1, <2>2 DEF TodoOK
    <3>. QED BY <3>1
  <2>. QED BY <1>3, <2>1, <2>2 DEF TodoOK
<1>. QED BY <1>1, <1>2, <1>3, <1>8, <1>9

\* One that goes on with the entry at hand has it behind it from then on.
LEMMA GoesAhead ==
    ASSUME OutboxInv, CauseInv, NEW d \in Drains, drain[d].pc # "idle",
           NEW pc \in {"mark", "book", "catch"}, NEW answer, Goes(d, pc, answer)
    PROVE  /\ drain'[d].todo = drain[d].todo /\ drain'[d].pc = pc /\ drain'[d].answer = answer
           /\ ToTry(d)' = ToTry(d) \ (IF drain[d].pc = "deliver" THEN {Entry(d).key} ELSE {})
           /\ Entry(d)' = Entry(d) /\ TodoOK(d)'
           /\ drain[d].pc = "deliver" => Entry(d).key \in ToTry(d)
           /\ \A e \in Drains \ {d} : drain'[e] = drain[e]
<1>0. drain \in [Drains -> DrainRecords] /\ DrainOK(d) /\ TodoOK(d)
  BY DEF OutboxInv, DrainInv, CauseInv
<1>a. drain[d].todo \in Seq(Entries) /\ drain[d].todo # <<>> /\ Len(drain[d].todo) \in Nat \ {0}
  BY <1>0 DEF DrainRecords, DrainOK
<1>. DEFINE todo == drain[d].todo
<1>1. /\ drain'[d].todo = todo /\ drain'[d].pc = pc /\ drain'[d].answer = answer
      /\ \A e \in Drains \ {d} : drain'[e] = drain[e]
  BY <1>0 DEF Goes, DrainRecords
<1>2. Entry(d)' = Entry(d) /\ TodoOK(d)' /\ Entry(d) = todo[1] /\ 1 \in DOMAIN todo
  BY <1>0, <1>a, <1>1 DEF Entry, TodoOK
<1>3. Ahead(d)' = {i \in DOMAIN todo : i > 1}
  BY <1>1 DEF Ahead
<1>4. ToTry(d)' = {todo[i].key : i \in {j \in DOMAIN todo : j > 1}}
  BY <1>1, <1>3 DEF ToTry
<1>5. CASE drain[d].pc # "deliver"
  <2>1. Ahead(d) = {i \in DOMAIN todo : i > 1}
    BY <1>5 DEF Ahead
  <2>. QED BY <1>1, <1>2, <1>4, <1>5, <2>1 DEF ToTry
<1>6. CASE drain[d].pc = "deliver"
  <2>1. Ahead(d) = DOMAIN todo
    BY <1>6 DEF Ahead
  <2>2. ToTry(d) = {todo[i].key : i \in DOMAIN todo}
    BY <2>1 DEF ToTry
  <2>3. \A j \in DOMAIN todo : j > 1 <=> todo[j].key # todo[1].key
    BY <1>0, <1>a, <1>2 DEF TodoOK
  <2>4. ToTry(d)' = ToTry(d) \ {todo[1].key} /\ todo[1].key \in ToTry(d)
    <3>. HIDE DEF todo
    <3>. QED BY <1>2, <1>4, <2>2, <2>3
  <2>. QED BY <1>1, <1>2, <1>6, <2>4
<1>. QED BY <1>1, <1>2, <1>5, <1>6

-----------------------------------------------------------------------------
(* The steps of a run.                                                      *)

LEMMA CauseAttempt ==
    ASSUME OutboxInv, OutboxInv', CauseInv, NEW d \in Drains, Attempt(d)
    PROVE  CauseInv'
<1>. DEFINE k0 == Entry(d).key
<1>1. drain[d].pc = "deliver" /\ drain[d].pc # "idle" /\ UNCHANGED <<row, line>> /\ (UNCHANGED faults \/ Fault)
  BY DEF Attempt
<1>2. k0 \in Keys /\ row[k0].status # "none"
  BY <1>1, AtHand
<1>3. PICK pc \in {"mark", "catch"}, answer \in Answers :
        /\ Goes(d, pc, answer)
        /\ \/ /\ accepted' = [accepted EXCEPT ![k0] = @ + 1] /\ tried' = [tried EXCEPT ![k0] = @ + 1]
              /\ pc = "mark"
              /\ \/ answer = "accepted" /\ faults' = faults
                 \/ answer = "refused" /\ faults' = faults + 1
           \/ /\ UNCHANGED accepted /\ (UNCHANGED tried \/ tried' = [tried EXCEPT ![k0] = @ + 1])
              /\ faults' \in {faults, faults + 1}
              /\ pc = "mark" /\ answer = "deferred" => UNCHANGED tried
  BY DEF Attempt, Fault, Answers
<1>4. /\ ToTry(d)' = ToTry(d) \ {k0} /\ k0 \in ToTry(d) /\ Entry(d)' = Entry(d) /\ TodoOK(d)'
      /\ drain'[d].todo = drain[d].todo /\ drain'[d].pc = pc /\ drain'[d].answer = answer
      /\ \A e \in Drains \ {d} : drain'[e] = drain[e]
  BY <1>1, <1>3, GoesAhead
<1>5. ASSUME NEW k \in Keys
      PROVE  KeyOK(k)'
  <2>1. /\ accepted[k] \in Nat /\ tried[k] \in Nat /\ faults \in Nat /\ Held(k) \in Nat
        /\ row[k].tries \in Nat /\ IsFiniteSet(Holders(k)) /\ KeyOK(k)
    BY CauseTypes DEF CauseInv
  <2>2. /\ Held(k)' \in Nat
        /\ Held(k)' = Held(k) + (IF k \in ToTry(d)' THEN 1 ELSE 0) - (IF k \in ToTry(d) THEN 1 ELSE 0)
    BY <1>4, <2>1, HoldersMove
  <2>3. /\ accepted \in [Keys -> Nat] /\ tried \in [Keys -> Nat]
    BY DEF OutboxInv, HistInv
  <2>4. CASE k # k0
    <3>1. /\ accepted'[k] = accepted[k] /\ tried'[k] = tried[k] /\ Held(k)' = Held(k)
          /\ faults' \in {faults, faults + 1}
      BY <1>3, <1>4, <2>1, <2>2, <2>3, <2>4
    <3>2. /\ Risky(d, k) => Risky(d, k)'
          /\ Owed(d, k) => Owed(d, k)'
      BY <1>4, <2>4 DEF Risky, Owed
    <3>3. row'[k].status = "none" => accepted'[k] = 0 /\ tried'[k] = 0
      BY <1>1, <2>1, <3>1 DEF KeyOK
    <3>. QED BY <1>1, <1>4, <2>1, <2>2, <3>1, <3>2, <3>3, KeyKeeps
  <2>5. CASE k = k0
    <3>1. Held(k)' = Held(k) - 1
      BY <1>4, <2>1, <2>2, <2>5
    <3>2. \/ /\ accepted'[k] = accepted[k] + 1 /\ tried'[k] = tried[k] + 1
             /\ pc = "mark"
             /\ \/ answer = "accepted" /\ faults' = faults
                \/ answer = "refused" /\ faults' = faults + 1
          \/ /\ accepted'[k] = accepted[k] /\ tried'[k] \in {tried[k], tried[k] + 1}
             /\ faults' \in {faults, faults + 1}
             /\ pc = "mark" /\ answer = "deferred" => tried'[k] = tried[k]
      BY <1>3, <2>3, <2>5
    <3>3. faults' >= faults /\ faults' \in Nat /\ accepted'[k] \in Nat /\ tried'[k] \in Nat
      BY <2>1, <3>2
    <3>4. /\ accepted'[k] + Held(k)' + faults <= accepted[k] + Held(k) + faults'
          /\ tried'[k] + Held(k)' + faults <= tried[k] + Held(k) + faults'
      BY <2>1, <2>2, <3>1, <3>2
    <3>5. Risky(d, k)' \/ accepted'[k] + Held(k)' <= faults'
      <4>1. CASE pc = "mark" /\ answer = "accepted"
        BY <1>4, <2>5, <4>1 DEF Risky
      <4>2. CASE ~(pc = "mark" /\ answer = "accepted")
        BY <2>1, <2>2, <3>1, <3>2, <3>3, <4>2 DEF KeyOK, TakenOK
      <4>. QED BY <4>1, <4>2
    <3>6. row[k].status \in Queued => Owed(d, k)' \/ Covers(k, row[k].tries)'
      <4>1. CASE pc = "mark" /\ answer = "deferred"
        <5>1. row[k].status \in Queued => tried[k] + Held(k) <= row[k].tries + 1 + faults
          BY <2>1 DEF KeyOK, TriedOK, Covers
        <5>2. row'[k].tries = row[k].tries
          BY <1>1
        <5>. QED BY <2>1, <2>2, <3>1, <3>2, <3>3, <4>1, <5>1, <5>2 DEF Covers
      <4>2. CASE ~(pc = "mark" /\ answer = "deferred")
        BY <1>4, <2>5, <4>2 DEF Owed
      <4>. QED BY <4>1, <4>2
    <3>7. UNCHANGED row[k] /\ \A i \in DOMAIN drain'[d].todo : \E j \in DOMAIN drain[d].todo : drain'[d].todo[i] = drain[d].todo[j]
      BY <1>1, <1>4
    <3>. QED BY <1>2, <1>4, <2>5, <3>3, <3>4, <3>5, <3>6, <3>7, KeyKeeps
  <2>. QED BY <2>4, <2>5
<1>6. \A e \in Drains : TodoOK(e)'
  BY <1>4 DEF CauseInv, TodoOK
<1>. QED BY <1>5, <1>6 DEF CauseInv

\* A run that takes or gives back nothing: what it leaves of the alerts' bounds
\* is what its row, and its fault, leave.
LEMMA CauseTurns ==
    ASSUME OutboxInv, OutboxInv', CauseInv, NEW d \in Drains,
           UNCHANGED <<accepted, tried>>, faults' \in {faults, faults + 1},
           \A e \in Drains \ {d} : drain'[e] = drain[e],
           ToTry(d)' \subseteq ToTry(d), TodoOK(d)',
           \A i \in DOMAIN drain'[d].todo : \E j \in DOMAIN drain[d].todo : drain'[d].todo[i] = drain[d].todo[j],
           \A k \in Keys :
             /\ row[k].status # "none" => row'[k].status # "none"
             /\ row'[k].status \in Queued =>
                  /\ row[k].status \in Queued
                  /\ row'[k].tries = row[k].tries \/ tried[k] + Held(k) <= row'[k].tries + faults
                  /\ Risky(d, k) => Risky(d, k)' \/ faults' = faults + 1
                  /\ Owed(d, k) =>
                       Owed(d, k)' \/ faults' = faults + 1 \/ tried[k] + Held(k) <= row'[k].tries + faults
    PROVE  CauseInv'
<1>1. ASSUME NEW k \in Keys
      PROVE  KeyOK(k)'
  <2>1. /\ accepted[k] \in Nat /\ tried[k] \in Nat /\ faults \in Nat /\ Held(k) \in Nat
        /\ row[k].tries \in Nat /\ IsFiniteSet(Holders(k)) /\ KeyOK(k)
    BY CauseTypes DEF CauseInv
  <2>2. Held(k)' \in Nat /\ Held(k)' <= Held(k) /\ faults' \in Nat /\ faults' >= faults /\ row'[k].tries \in Nat
    <3>1. row'[k].tries \in Nat
      BY OutboxAssumption DEF OutboxInv, RowInv, RowRecords
    <3>. QED BY <2>1, <3>1, HoldersMove
  <2>3. /\ accepted'[k] + Held(k)' + faults <= accepted[k] + Held(k) + faults'
        /\ tried'[k] + Held(k)' + faults <= tried[k] + Held(k) + faults'
    BY <2>1, <2>2
  <2>4. row'[k].status = "none" => accepted'[k] = 0 /\ tried'[k] = 0
    BY <2>1 DEF KeyOK
  <2>5. ASSUME row'[k].status \in Queued
        PROVE  /\ row[k].status \in Queued
               /\ row'[k].tries = row[k].tries \/ Covers(k, row[k].tries)'
               /\ Risky(d, k) => Risky(d, k)' \/ accepted'[k] + Held(k)' <= faults'
               /\ Owed(d, k) => Owed(d, k)' \/ Covers(k, row[k].tries)'
    <3>1. tried[k] + Held(k) <= row'[k].tries + faults => Covers(k, row[k].tries)'
      BY <2>1, <2>2 DEF Covers
    <3>2. faults' = faults + 1 => accepted'[k] + Held(k)' <= faults'
      BY <2>1, <2>2 DEF KeyOK, TakenOK
    <3>3. faults' = faults + 1 /\ row'[k].tries = row[k].tries => Covers(k, row[k].tries)'
      BY <2>1, <2>2, <2>5 DEF KeyOK, TriedOK, Covers
    <3>. QED BY <2>5, <3>1, <3>2, <3>3
  <2>. QED BY <2>2, <2>3, <2>4, <2>5, KeyKeeps
<1>2. \A e \in Drains : TodoOK(e)'
  BY DEF CauseInv, TodoOK
<1>. QED BY <1>1, <1>2 DEF CauseInv

\* What was tried of the entry at hand is within its own count.
LEMMA AtHandCovered ==
    ASSUME OutboxInv, CauseInv, NEW d \in Drains, drain[d].pc # "idle"
    PROVE  Covers(Entry(d).key, Entry(d).tries + 1)
<1>1. drain[d].todo \in Seq(Entries) /\ drain[d].todo # <<>> /\ Entry(d).key \in Keys
  BY AtHand DEF OutboxInv, DrainInv, DrainOK, DrainRecords
<1>2. 1 \in DOMAIN drain[d].todo /\ Entry(d) = drain[d].todo[1]
  BY <1>1 DEF Entry
<1>. QED BY <1>1, <1>2 DEF CauseInv, KeyOK, TriedOK

\* What a write of one row leaves.
LEMMA SetsLeaves ==
    ASSUME OutboxInv, NEW k \in Keys, NEW new \in RowRecords, new.status # "none", NEW from, "none" \notin from, Sets(k, from, new)
    PROVE  \A j \in Keys :
             /\ row[j].status # "none" => row'[j].status # "none"
             /\ j # k => row'[j] = row[j]
             /\ row'[k] = row[k] \/ (row[k].status \in from /\ row'[k] = new)
<1>1. row \in [Keys -> RowRecords]
  BY DEF OutboxInv, RowInv
<1>2. CASE row[k].status \in from
  BY <1>1, <1>2 DEF Sets
<1>3. CASE row[k].status \notin from
  BY <1>3 DEF Sets
<1>. QED BY <1>2, <1>3

LEMMA FailedLeaves ==
    ASSUME OutboxInv, NEW k \in Keys, NEW n \in 1 .. MaxAttempts, MarkFailed(k, n)
    PROVE  \A j \in Keys :
             /\ row[j].status # "none" => row'[j].status # "none"
             /\ j # k => row'[j] = row[j]
             /\ row'[k].status \in Queued => row[k].status \in Queued /\ n < MaxAttempts /\ row'[k].tries = n
<1>. DEFINE new == Retried(n)
<1>1. new \in RowRecords /\ new.status # "none" /\ new.tries = n /\ (new.status \in Queued => n < MaxAttempts)
  BY OutboxAssumption DEF Retried, RowRecords, Queued
<1>2. Sets(k, Queued, new) /\ "none" \notin Queued
  BY DEF MarkFailed, Queued
<1>3. row[k].status \in Queued => row'[k] = new
  <2>1. row \in [Keys -> RowRecords]
    BY DEF OutboxInv, RowInv
  <2>. HIDE DEF new
  <2>. QED BY <1>2, <2>1 DEF Sets
<1>. HIDE DEF new
<1>. QED BY <1>1, <1>2, <1>3, SetsLeaves

LEMMA MarksLeave ==
    ASSUME OutboxInv, NEW d \in Drains, drain[d].pc = "mark", Marks(Entry(d), drain[d].answer)
    PROVE  \A k \in Keys :
             /\ row[k].status # "none" => row'[k].status # "none"
             /\ k # Entry(d).key => row'[k] = row[k]
             /\ k = Entry(d).key /\ row'[k].status \in Queued =>
                  /\ row[k].status \in Queued
                  /\ \/ drain[d].answer = "deferred" /\ row'[k].tries = row[k].tries
                     \/ drain[d].answer = "refused" /\ row'[k].tries = Entry(d).tries + 1
<1>. DEFINE e == Entry(d)
            k0 == Entry(d).key
<1>1. k0 \in Keys /\ e.tries \in Nat /\ e.tries < MaxAttempts /\ MaxAttempts \in Nat \ {0}
  BY AtHand, OutboxAssumption
<1>2. row[k0] \in RowRecords /\ row[k0].status # "none"
  BY <1>1, AtHand DEF OutboxInv, RowInv
<1>3. CASE drain[d].answer \in {"accepted", "expired"} /\ MarkSent(k0)
  <2>. DEFINE new == [row[k0] EXCEPT !.status = "sent"]
  <2>1. new \in RowRecords /\ new.status = "sent" /\ Sets(k0, Present, new)
    BY <1>2, <1>3 DEF RowRecords, MarkSent
  <2>2. row[k0].status \in Queued => row'[k0] = new
    <3>1. row \in [Keys -> RowRecords]
      BY DEF OutboxInv, RowInv
    <3>. HIDE DEF new
    <3>. QED BY <1>1, <2>1, <3>1 DEF Sets, Present
  <2>3. "sent" \notin Queued /\ "none" \notin Present
    BY DEF Present, Queued, Settled
  <2>. HIDE DEF new
  <2>. QED BY <1>1, <2>1, <2>2, <2>3, SetsLeaves
<1>4. CASE drain[d].answer = "refused" /\ MarkFailed(k0, e.tries + 1)
  <2>1. e.tries + 1 \in 1 .. MaxAttempts
    BY <1>1
  <2>. QED BY <1>1, <1>4, <2>1, FailedLeaves
<1>5. CASE drain[d].answer = "deferred" /\ MarkDeferred(k0)
  <2>. DEFINE new == [row[k0] EXCEPT !.status = "failed"]
  <2>1. new \in RowRecords /\ new.status = "failed" /\ new.tries = row[k0].tries /\ Sets(k0, Queued, new) /\ "none" \notin Queued
    BY <1>2, <1>5 DEF RowRecords, MarkDeferred, Queued
  <2>2. row'[k0].status \in Queued => row[k0].status \in Queued
    <3>. HIDE DEF new
    <3>. QED BY <1>1, <2>1, SetsLeaves
  <2>. HIDE DEF new
  <2>. QED BY <1>1, <1>5, <2>1, <2>2, SetsLeaves
<1>6. CASE drain[d].answer = "gone" /\ MarkFailed(k0, MaxAttempts)
  <2>1. MaxAttempts \in 1 .. MaxAttempts
    BY <1>1
  <2>. QED BY <1>1, <1>6, <2>1, FailedLeaves
<1>. QED BY <1>3, <1>4, <1>5, <1>6 DEF Marks

LEMMA CauseMark ==
    ASSUME OutboxInv, OutboxInv', CauseInv, NEW d \in Drains, Mark(d)
    PROVE  CauseInv'
<1>. DEFINE k0 == Entry(d).key
<1>0. drain[d].pc = "mark" /\ UNCHANGED <<accepted, tried>> /\ faults \in Nat
  BY DEF Mark, OutboxInv, HistInv
<1>1. \/ faults' = faults /\ Marks(Entry(d), drain[d].answer)
         /\ IF drain[d].answer \in {"refused", "deferred"} THEN Goes(d, "book", "none") ELSE Done(d)
      \/ faults' = faults + 1 /\ Goes(d, "catch", "none") /\ (Marks(Entry(d), drain[d].answer) \/ UNCHANGED row)
  BY DEF Mark, Fault
<1>2. /\ ToTry(d)' = ToTry(d) /\ TodoOK(d)'
      /\ \A i \in DOMAIN drain'[d].todo : \E j \in DOMAIN drain[d].todo : drain'[d].todo[i] = drain[d].todo[j]
      /\ \A e \in Drains \ {d} : drain'[e] = drain[e]
  <2>1. CASE Done(d)
    BY <1>0, <2>1, TurnAhead
  <2>2. CASE \E pc \in {"book", "catch"} : Goes(d, pc, "none")
    BY <1>0, <2>2, GoesAhead
  <2>. QED BY <1>1, <2>1, <2>2
<1>3. ASSUME NEW k \in Keys
      PROVE  /\ row[k].status # "none" => row'[k].status # "none"
             /\ row'[k].status \in Queued =>
                  /\ row[k].status \in Queued
                  /\ row'[k].tries = row[k].tries \/ tried[k] + Held(k) <= row'[k].tries + faults
                  /\ Risky(d, k) => Risky(d, k)' \/ faults' = faults + 1
                  /\ Owed(d, k) =>
                       Owed(d, k)' \/ faults' = faults + 1 \/ tried[k] + Held(k) <= row'[k].tries + faults
  <2>1. CASE Marks(Entry(d), drain[d].answer)
    <3>1. /\ row[k].status # "none" => row'[k].status # "none"
          /\ k # Entry(d).key => row'[k] = row[k]
          /\ k = Entry(d).key /\ row'[k].status \in Queued =>
               /\ row[k].status \in Queued
               /\ \/ drain[d].answer = "deferred" /\ row'[k].tries = row[k].tries
                  \/ drain[d].answer = "refused" /\ row'[k].tries = Entry(d).tries + 1
      BY <1>0, <2>1, MarksLeave
    <3>2. tried[k0] + Held(k0) <= Entry(d).tries + 1 + faults
      BY <1>0, AtHandCovered DEF Covers
    <3>3. k \in ToTry(d) => Risky(d, k)' /\ Owed(d, k)'
      BY <1>2 DEF Risky, Owed
    <3>4. Risky(d, k) => k \in ToTry(d) \/ (drain[d].answer = "accepted" /\ k = Entry(d).key)
      BY DEF Risky
    <3>5. Owed(d, k) => k \in ToTry(d) \/ (drain[d].answer # "deferred" /\ k = Entry(d).key)
      BY <1>0 DEF Owed
    <3>. QED BY <3>1, <3>2, <3>3, <3>4, <3>5
  <2>2. CASE UNCHANGED row /\ faults' = faults + 1
    BY <2>2
  <2>3. CASE UNCHANGED row /\ Marks(Entry(d), drain[d].answer)
    BY <2>1, <2>3
  <2>. QED BY <1>1, <2>1, <2>2
<1>. QED BY <1>0, <1>1, <1>2, <1>3, CauseTurns

LEMMA CauseBook ==
    ASSUME OutboxInv, OutboxInv', CauseInv, NEW d \in Drains, Book(d)
    PROVE  CauseInv'
<1>0. drain[d].pc = "book" /\ UNCHANGED <<row, accepted, tried>> /\ faults' \in {faults, faults + 1}
  BY DEF Book, Fault
<1>1. /\ ToTry(d)' = ToTry(d) /\ TodoOK(d)'
      /\ \A i \in DOMAIN drain'[d].todo : \E j \in DOMAIN drain[d].todo : drain'[d].todo[i] = drain[d].todo[j]
      /\ \A e \in Drains \ {d} : drain'[e] = drain[e]
  <2>1. CASE Done(d)
    BY <1>0, <2>1, TurnAhead
  <2>2. CASE Goes(d, "catch", "none")
    BY <1>0, <2>2, GoesAhead
  <2>. QED BY <2>1, <2>2 DEF Book
<1>2. \A k \in Keys : (Risky(d, k) => Risky(d, k)') /\ (Owed(d, k) => Owed(d, k)')
  BY <1>0, <1>1 DEF Risky, Owed
<1>. QED BY <1>0, <1>1, <1>2, CauseTurns

LEMMA CauseCatch ==
    ASSUME OutboxInv, OutboxInv', CauseInv, NEW d \in Drains, Catch(d)
    PROVE  CauseInv'
<1>. DEFINE k0 == Entry(d).key
<1>0. /\ drain[d].pc = "catch" /\ UNCHANGED <<accepted, tried>> /\ Done(d) /\ faults \in Nat
      /\ \/ MarkFailed(k0, Entry(d).tries + 1) /\ faults' = faults
         \/ UNCHANGED row /\ faults' = faults + 1
  BY DEF Catch, Fault, OutboxInv, HistInv
<1>1. /\ ToTry(d)' = ToTry(d) /\ TodoOK(d)'
      /\ \A i \in DOMAIN drain'[d].todo : \E j \in DOMAIN drain[d].todo : drain'[d].todo[i] = drain[d].todo[j]
      /\ \A e \in Drains \ {d} : drain'[e] = drain[e]
  BY <1>0, TurnAhead
<1>2. \A k \in Keys : Risky(d, k) => Risky(d, k)'
  BY <1>0, <1>1 DEF Risky
<1>3. \A k \in Keys : Owed(d, k) => Owed(d, k)' \/ k = k0
  BY <1>0, <1>1 DEF Owed
<1>4. CASE UNCHANGED row /\ faults' = faults + 1
  BY <1>0, <1>1, <1>2, <1>4, CauseTurns
<1>5. CASE MarkFailed(k0, Entry(d).tries + 1) /\ faults' = faults
  <2>1. k0 \in Keys /\ Entry(d).tries + 1 \in 1 .. MaxAttempts
    BY <1>0, AtHand, OutboxAssumption
  <2>2. tried[k0] + Held(k0) <= Entry(d).tries + 1 + faults
    BY <1>0, AtHandCovered DEF Covers
  <2>3. \A k \in Keys :
             /\ row[k].status # "none" => row'[k].status # "none"
             /\ k # k0 => row'[k] = row[k]
             /\ row'[k0].status \in Queued => row[k0].status \in Queued /\ row'[k0].tries = Entry(d).tries + 1
    BY <1>5, <2>1, FailedLeaves
  <2>4. \A k \in Keys :
             /\ row[k].status # "none" => row'[k].status # "none"
             /\ row'[k].status \in Queued =>
                  /\ row[k].status \in Queued
                  /\ row'[k].tries = row[k].tries \/ tried[k] + Held(k) <= row'[k].tries + faults
                  /\ Risky(d, k) => Risky(d, k)' \/ faults' = faults + 1
                  /\ Owed(d, k) =>
                       Owed(d, k)' \/ faults' = faults + 1 \/ tried[k] + Held(k) <= row'[k].tries + faults
    BY <1>2, <1>3, <2>1, <2>2, <2>3
  <2>. QED BY <1>0, <1>1, <1>5, <2>4, CauseTurns
<1>. QED BY <1>0, <1>4, <1>5

LEMMA CauseCrash ==
    ASSUME OutboxInv, OutboxInv', CauseInv, NEW d \in Drains, Crash(d)
    PROVE  CauseInv'
<1>1. UNCHANGED <<row, accepted, tried>> /\ faults' = faults + 1 /\ drain' = [drain EXCEPT ![d] = Idle]
  BY DEF Crash, Fault
<1>2. drain'[d] = Idle /\ \A e \in Drains \ {d} : drain'[e] = drain[e]
  BY <1>1 DEF OutboxInv, DrainInv
<1>3. drain'[d].todo = <<>> /\ Ahead(d)' = {} /\ ToTry(d)' = {} /\ TodoOK(d)'
  BY <1>2, IdleOK DEF Ahead, ToTry, TodoOK
<1>. QED BY <1>1, <1>2, <1>3, CauseTurns

\* A run that claims rows alone holds what no run held; beside others, by a fault.
LEMMA CauseClaim ==
    ASSUME OutboxInv, OutboxInv', CauseInv, NEW d \in Drains, Claim(d)
    PROVE  CauseInv'
<1>0. /\ drain[d].pc = "idle" /\ UNCHANGED <<row, line, accepted, tried>> /\ drain \in [Drains -> DrainRecords]
      /\ \/ faults' = faults /\ \A e \in Drains : drain[e].pc = "idle"
         \/ faults' = faults + 1
  BY DEF Claim, Fault, OutboxInv, DrainInv
<1>1. PICK n \in 1 .. Len(line) :
        drain' = [drain EXCEPT ![d] = [pc |-> "deliver", todo |-> ClaimDue(n), answer |-> "none"]]
  BY DEF Claim
<1>2. /\ line \in Seq(Keys) /\ n \in Nat /\ 1 .. n \subseteq DOMAIN line
      /\ \A i \in DOMAIN line : line[i] \in Keys /\ row[line[i]].status \in Queued
      /\ \A i, j \in DOMAIN line : line[i] = line[j] => i = j
  BY DEF OutboxInv, RowInv
<1>3. /\ drain'[d].pc = "deliver" /\ drain'[d].todo = ClaimDue(n)
      /\ \A e \in Drains \ {d} : drain'[e] = drain[e]
  BY <1>0, <1>1
<1>4. /\ DOMAIN ClaimDue(n) = 1 .. n
      /\ \A i \in 1 .. n : ClaimDue(n)[i].key = line[i] /\ ClaimDue(n)[i].tries = row[line[i]].tries
  BY DEF ClaimDue, OldestDue
<1>5. ToTry(d) = {} /\ drain[d].todo = <<>>
  BY <1>0 DEF CauseInv, TodoOK, ToTry, Ahead
<1>6. Ahead(d)' = 1 .. n
  BY <1>3, <1>4 DEF Ahead
<1>7. ToTry(d)' = {line[i] : i \in 1 .. n}
  BY <1>3, <1>4, <1>6 DEF ToTry
<1>8. TodoOK(d)'
  BY <1>2, <1>3, <1>4 DEF TodoOK
<1>9. \A e \in Drains : \A i \in DOMAIN drain[e].todo : drain[e].todo[i].tries \in Nat
  <2>1. \A e \in Drains : drain[e].todo \in Seq(Entries)
    BY <1>0 DEF DrainRecords
  <2>2. \A e \in Entries : e.tries \in Nat
    BY OutboxAssumption DEF Entries
  <2>. QED BY <2>1, <2>2
<1>10. ASSUME NEW k \in Keys
      PROVE  KeyOK(k)'
  <2>1. /\ accepted[k] \in Nat /\ tried[k] \in Nat /\ faults \in Nat /\ Held(k) \in Nat
        /\ row[k].tries \in Nat /\ IsFiniteSet(Holders(k)) /\ KeyOK(k)
    BY CauseTypes DEF CauseInv
  <2>2. faults' \in Nat /\ faults' >= faults
    BY <1>0, <2>1
  <2>3. CASE k \notin ToTry(d)'
    <3>1. Held(k)' = Held(k)
      BY <1>3, <1>5, <2>1, <2>3, HoldersMove
    <3>2. \A i \in DOMAIN drain'[d].todo : drain'[d].todo[i].key # k
      BY <1>3, <1>4, <1>7, <2>3
    <3>3. ~Risky(d, k) /\ ~Owed(d, k)
      BY <1>0, <1>5 DEF Risky, Owed
    <3>4. row'[k].status = "none" => accepted'[k] = 0 /\ tried'[k] = 0
      BY <1>0, <2>1 DEF KeyOK
    <3>5. /\ accepted'[k] + Held(k)' + faults <= accepted[k] + Held(k) + faults'
          /\ tried'[k] + Held(k)' + faults <= tried[k] + Held(k) + faults'
      BY <1>0, <2>1, <2>2, <3>1
    <3>6. row' = row
      BY <1>0
    <3>. QED BY <1>3, <2>2, <3>2, <3>3, <3>4, <3>5, <3>6, KeyKeeps
  <2>4. CASE k \in ToTry(d)'
    <3>1. Held(k)' = Held(k) + 1 /\ IsFiniteSet(Holders(k)')
      BY <1>3, <1>5, <2>1, <2>4, HoldersMove
    <3>2. row[k].status \in Queued /\ row[k].status # "none" /\ row[k].tries < MaxAttempts /\ MaxAttempts \in Nat
      <4>1. row[k].status \in Queued
        BY <1>2, <1>7, <2>4
      <4>2. RowOK(k)
        BY DEF OutboxInv, RowInv
      <4>. QED BY <4>1, <4>2, OutboxAssumption DEF RowOK, Queued
    <3>3. \A e \in Drains : (Risky(e, k)' /\ Owed(e, k)') \/ e # d
      BY <2>4 DEF Risky, Owed
    <3>4. /\ accepted[k] + Held(k) + 1 <= 1 + faults'
          /\ tried[k] + Held(k) + 1 <= row[k].tries + 1 + faults'
          /\ \A e \in Drains : \A i \in DOMAIN drain[e].todo :
               drain[e].todo[i].key = k => tried[k] + Held(k) + 1 <= drain[e].todo[i].tries + 1 + faults'
      <4>1. CASE faults' = faults + 1
        <5>1. accepted[k] + Held(k) <= 1 + faults /\ tried[k] + Held(k) <= row[k].tries + 1 + faults
          BY <2>1, <3>2 DEF KeyOK, TakenOK, TriedOK, Covers
        <5>2. \A e \in Drains : \A i \in DOMAIN drain[e].todo :
                drain[e].todo[i].key = k => tried[k] + Held(k) <= drain[e].todo[i].tries + 1 + faults
          BY <2>1 DEF KeyOK, TriedOK, Covers
        <5>3. \A m \in Nat : tried[k] + Held(k) <= m + 1 + faults => tried[k] + Held(k) + 1 <= m + 1 + faults'
          BY <2>1, <4>1
        <5>4. accepted[k] + Held(k) + 1 <= 1 + faults'
          BY <2>1, <4>1, <5>1
        <5>. QED BY <1>9, <2>1, <5>1, <5>2, <5>3, <5>4
      <4>2. CASE faults' = faults /\ \A e \in Drains : drain[e].pc = "idle"
        <5>1. \A e \in Drains : drain[e].todo = <<>> /\ ToTry(e) = {}
          BY <4>2 DEF CauseInv, TodoOK, ToTry, Ahead
        <5>2. \A e \in Drains : ~Risky(e, k) /\ ~Owed(e, k)
          BY <4>2, <5>1 DEF Risky, Owed
        <5>3. accepted[k] + Held(k) <= faults /\ tried[k] + Held(k) <= row[k].tries + faults
          BY <2>1, <3>2, <5>2 DEF KeyOK, TakenOK, TriedOK, Covers
        <5>4. accepted[k] + Held(k) + 1 <= 1 + faults'
          BY <2>1, <4>2, <5>3
        <5>5. tried[k] + Held(k) + 1 <= row[k].tries + 1 + faults'
          BY <2>1, <4>2, <5>3
        <5>. QED BY <5>1, <5>4, <5>5
      <4>. QED BY <1>0, <4>1, <4>2
    <3>5. TakenOK(k)'
      BY <1>0, <2>1, <3>1, <3>3, <3>4 DEF TakenOK
    <3>6. Covers(k, MaxAttempts)' /\ Covers(k, row[k].tries + 1)'
      <4>1. row[k].tries + 1 <= MaxAttempts /\ MaxAttempts \in Nat
        BY <2>1, <3>2
      <4>2. tried[k] + Held(k) + 1 <= row[k].tries + 1 + faults'
        BY <3>4
      <4>3. tried[k] + Held(k) + 1 <= MaxAttempts + faults'
        BY <2>1, <2>2, <4>1, <4>2
      <4>4. tried' = tried /\ row' = row
        BY <1>0
      <4>5. tried'[k] + Held(k)' = tried[k] + Held(k) + 1 /\ row'[k].tries = row[k].tries
        BY <2>1, <3>1, <4>4
      <4>. QED BY <4>2, <4>5, <4>3 DEF Covers
    <3>7. ASSUME NEW e \in Drains, NEW i \in DOMAIN drain'[e].todo, drain'[e].todo[i].key = k
          PROVE  Covers(k, drain[e].todo[i].tries + 1)'
      <4>1. CASE e # d
        <5>1. drain'[e] = drain[e] /\ tried' = tried
          BY <1>0, <1>3, <4>1
        <5>2. tried[k] + Held(k) + 1 <= drain[e].todo[i].tries + 1 + faults'
          BY <3>4, <3>7, <5>1
        <5>3. tried'[k] + Held(k)' <= drain'[e].todo[i].tries + 1 + faults'
          BY <2>1, <3>1, <5>1, <5>2
        <5>. QED BY <5>3 DEF Covers
      <4>2. CASE e = d
        <5>1. drain'[e].todo[i].tries = row[k].tries
          BY <1>3, <1>4, <3>7, <4>2
        <5>. QED BY <1>0, <2>1, <3>1, <3>4, <5>1 DEF Covers
      <4>. QED BY <4>1, <4>2
    <3>. QED BY <1>0, <3>1, <3>2, <3>3, <3>5, <3>6, <3>7 DEF KeyOK, TriedOK
  <2>. QED BY <2>3, <2>4
<1>11. \A e \in Drains : TodoOK(e)'
  BY <1>3, <1>8 DEF CauseInv, TodoOK
<1>. QED BY <1>10, <1>11 DEF CauseInv

LEMMA CauseStep == OutboxInv /\ OutboxInv' /\ CauseInv /\ [OutboxNext]_outboxVars => CauseInv'
<1>. SUFFICES ASSUME OutboxInv, OutboxInv', CauseInv, [OutboxNext]_outboxVars PROVE CauseInv'
  OBVIOUS
<1>1. ASSUME NEW k \in Keys, Enqueue(k) \/ ComesDue(k) \/ Prune(k) \/ DeleteMonitor(k) PROVE CauseInv'
  BY <1>1, CauseRowSteps
<1>2. ASSUME NEW d \in Drains, Claim(d) \/ DrainStep(d) \/ Crash(d) PROVE CauseInv'
  BY <1>2, CauseClaim, CauseAttempt, CauseMark, CauseBook, CauseCatch, CauseCrash DEF DrainStep
<1>3. CASE UNCHANGED outboxVars
  BY <1>3, CauseRows DEF outboxVars, OutboxInv, RowInv, RowRecords, Queued
<1>. QED BY <1>1, <1>2, <1>3 DEF OutboxNext

LEMMA CauseInit == OutboxInit => CauseInv
<1>. SUFFICES ASSUME OutboxInit PROVE CauseInv
  OBVIOUS
<1>1. \A d \in Drains : drain[d].pc = "idle" /\ drain[d].todo = <<>> /\ ToTry(d) = {}
  BY DEF OutboxInit, Idle, ToTry, Ahead
<1>2. \A k \in Keys : Holders(k) = {} /\ IsFiniteSet(Holders(k)) /\ Held(k) = 0
  BY <1>1, FS_EmptySet DEF Holders, Held
<1>3. ASSUME NEW k \in Keys PROVE KeyOK(k)
  <2>1. row[k].status \notin Queued /\ accepted[k] = 0 /\ tried[k] = 0 /\ faults = 0
    BY DEF OutboxInit, Queued
  <2>. QED BY <1>1, <1>2, <2>1, OutboxAssumption DEF KeyOK, TakenOK, TriedOK, Covers
<1>. QED BY <1>1, <1>3 DEF CauseInv, TodoOK

(* An alert goes out once, and MAX_ATTEMPTS bounds its attempts, but for one  *)
(* more for each fault (claimDueStatement, markSent, markFailed): a run that  *)
(* works from an old copy of a row, beside others, cannot do worse.           *)
THEOREM RepeatsOnlyByFaults == OutboxSpec => []RepeatsHaveACause
<1>1. OutboxInv /\ CauseInv => RepeatsHaveACause
  <2>. SUFFICES ASSUME OutboxInv, CauseInv, NEW k \in Keys
                PROVE  accepted[k] <= 1 + faults /\ tried[k] <= MaxAttempts + faults
    BY DEF RepeatsHaveACause
  <2>1. accepted[k] \in Nat /\ tried[k] \in Nat /\ faults \in Nat /\ Held(k) \in Nat /\ KeyOK(k)
    BY CauseTypes DEF CauseInv
  <2>. QED BY <2>1, OutboxAssumption DEF KeyOK, TakenOK, TriedOK, Covers
<1>. QED BY <1>1, CauseInit, CauseStep, OutboxInvariant, PTL DEF OutboxSpec
===============================================================================
