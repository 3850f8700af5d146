----------------------- MODULE DecisionLedger_proofs -----------------------
(***************************************************************************)
(* Proofs about DecisionLedger, for every set of surfaces, folders, topics *)
(* and categories and every bound.                                         *)
(*                                                                         *)
(* The table is looked at apart from what the surfaces hold in memory.     *)
(* What a surface does to it is one of a few edits (an answer, a batch of  *)
(* answers, a receipt, a dismissal or expiry, a collection, an insertion), *)
(* and each edit keeps the table sound and takes no answer back (Keeps).   *)
(* Keeps is then all a surface has to know of the steps of another.        *)
(*                                                                         *)
(* That the standing answer rules is a second invariant, RulesInv, about   *)
(* the time before surfaces first overlap.  It also says how a revision in *)
(* hand, and an open question, relate to the standing answer.              *)
(***************************************************************************)
EXTENDS DecisionLedger, TLAPS, FiniteSetTheorems

\* Rows have keys, and answers are of the kind their question is.
KeyInv ==
  \A i \in Id : row[i].status # "none" =>
    /\ row[i].key \in Key
    /\ row[i].status = "decided" => row[i].chosen \in Menu(row[i].key)

RowTypes ==
  /\ row \in [Id -> Row]
  /\ last \in Id \cup {0}
  /\ \A i \in Id : i > last => row[i] = NoRow
  /\ \A i \in Id : row[i].chosen # None <=> row[i].status = "decided"

TableInv == RowTypes /\ KeyInv /\ InboxIsQuiet /\ ChainIsWhole

\* No answer is taken back, and no question opened under an id already given.
Keeps ==
  /\ last' \in Nat /\ last <= last'
  /\ \A i \in Id : row[i].status = "decided" =>
       /\ row'[i].status = "decided"
       /\ row'[i].key = row[i].key
       /\ row'[i].chosen = row[i].chosen
       /\ row[i].super # 0 => row'[i].super = row[i].super
       /\ row[i].applied => row'[i].applied
  /\ \A i \in Id : i <= last /\ row'[i].status = "open" =>
       row[i].status = "open" /\ row'[i].key = row[i].key

\* What a surface holds between two of its steps.
OpInv(s) ==
  /\ op[s].pc = "commit" =>
       /\ op[s].id \in Id /\ op[s].id <= last /\ op[s].value # None
       /\ row[op[s].id].status = "open" => op[s].value \in Menu(row[op[s].id].key)
  /\ op[s].pc = "stamp" => op[s].id \in Id /\ row[op[s].id].status = "decided"
  /\ op[s].pc = "expire" => op[s].id \in Id
  /\ op[s].pc = "head" => op[s].key \in Folder /\ op[s].hash \in Category
  /\ op[s].pc \in {"restore", "append"} =>
       /\ op[s].key \in Key
       /\ op[s].value # None => op[s].value \in Menu(op[s].key)
       /\ op[s].parent # 0 =>
            /\ row[op[s].parent].status = "decided"
            /\ row[op[s].parent].key = op[s].key
  /\ op[s].pc = "restore" => op[s].key \in Folder /\ op[s].parent # 0

TodoInv(s) == \A i \in todo[s] : row[i].status = "decided"

SurfaceTypes ==
  /\ cls \in [Folder -> Answer \cup {None}]
  /\ present \subseteq Folder
  /\ hint \in [Folder -> Category]
  /\ op \in [Surface -> Op]
  /\ todo \in [Surface -> SUBSET Id]
  /\ byHand \subseteq Folder
  /\ overlapped \in BOOLEAN

SurfaceInv == SurfaceTypes /\ \A s \in Surface : OpInv(s) /\ TodoInv(s)

LedgerInv == TableInv /\ SurfaceInv

USE LedgerAssumption DEF LedgerAssumption, Key, Answer, Id

-----------------------------------------------------------------------------
(* Rows.                                                                    *)

LEMMA RowFields ==
  ASSUME NEW r \in Row
  PROVE  /\ r.key \in Key \cup {None} /\ r.status \in Status
         /\ r.chosen \in Answer \cup {Note, None}
         /\ r.parent \in Id \cup {0} /\ r.super \in Id \cup {0}
         /\ r.hash \in Category \cup {None} /\ r.menu \in BOOLEAN /\ r.applied \in BOOLEAN
BY DEF Row

LEMMA NoRowFields ==
  /\ NoRow \in Row /\ NoRow.status = "none" /\ NoRow.key = None /\ NoRow.chosen = None
  /\ NoRow.parent = 0 /\ NoRow.super = 0
BY DEF Row, NoRow, Status

LEMMA NewRowFields ==
  ASSUME NEW k \in Key, NEW hash \in Category \cup {None}, NEW menu \in BOOLEAN,
         NEW p \in Id \cup {0}
  PROVE  LET q == NewRow(k, hash, menu, p) IN
         /\ q \in Row /\ q.key = k /\ q.status = "open" /\ q.chosen = None
         /\ q.hash = hash /\ q.parent = p /\ q.super = 0
BY DEF Row, NoRow, NewRow, Status

\* The row q is the row r after an answer, after it was superseded, and after its receipt.
Answered(q, r, v) ==
  /\ q \in Row /\ q.status = "decided" /\ q.chosen = v /\ q.key = r.key
  /\ q.parent = r.parent /\ q.super = r.super /\ q.hash = r.hash
  /\ q.applied = r.applied

Superseded(q, r, i) ==
  /\ q \in Row /\ q.status = r.status /\ q.chosen = r.chosen /\ q.key = r.key
  /\ q.parent = r.parent /\ q.super = i /\ q.hash = r.hash
  /\ q.applied = r.applied

Stamped(q, r) ==
  /\ q \in Row /\ q.status = r.status /\ q.chosen = r.chosen /\ q.key = r.key
  /\ q.parent = r.parent /\ q.super = r.super /\ q.hash = r.hash
  /\ q.applied = TRUE

LEMMA RowAnswered ==
  ASSUME NEW r \in Row, NEW v \in Answer \cup {Note}
  PROVE  Answered([r EXCEPT !.status = "decided", !.chosen = v], r, v)
BY DEF Row, Status, Answered

LEMMA RowSuperseded ==
  ASSUME NEW r \in Row, NEW i \in Id
  PROVE  Superseded([r EXCEPT !.super = i], r, i)
BY DEF Row, Superseded

LEMMA RowStamped ==
  ASSUME NEW r \in Row
  PROVE  Stamped([r EXCEPT !.applied = TRUE], r)
BY DEF Row, Stamped

LEMMA RowClosed ==
  ASSUME NEW r \in Row, NEW how \in {"dismissed", "expired"},
         NEW q, q = [r EXCEPT !.status = how]
  PROVE  /\ q \in Row /\ q.status = how /\ q.chosen = r.chosen /\ q.key = r.key
         /\ q.parent = r.parent /\ q.super = r.super /\ q.hash = r.hash
         /\ q.applied = r.applied
BY DEF Row, Status

\* What Annotate and the back-fill insert, and what the surfaces go on to do.
Noted(k) ==
  [NewRow(k, None, TRUE, 0) EXCEPT !.status = "decided", !.chosen = Note, !.applied = TRUE]
ToCommit(i, v) == [Idle EXCEPT !.pc = "commit", !.id = i, !.value = v]
ToAsk(f, hash, v) ==
  [Idle EXCEPT !.pc = "head", !.key = f, !.hash = hash, !.menu = TRUE, !.value = v]
ToRevise(o, pc, i) == [o EXCEPT !.pc = pc, !.parent = i]
ToContradict(o, i) == [o EXCEPT !.pc = "append", !.parent = i, !.value = None]

LEMMA RowRecorded ==
  ASSUME NEW k \in Key
  PROVE  /\ Noted(k) \in Row /\ Noted(k).status = "decided" /\ Noted(k).key = k
         /\ Noted(k).chosen = Note /\ Noted(k).parent = 0 /\ Noted(k).super = 0
BY DEF Noted, Row, NoRow, NewRow, Status

LEMMA ImportedFields ==
  ASSUME NEW f \in Folder, NEW v \in Answer
  PROVE  /\ Imported(f, v) \in Row /\ Imported(f, v).status = "decided" /\ Imported(f, v).key = f
         /\ Imported(f, v).chosen = v /\ Imported(f, v).parent = 0 /\ Imported(f, v).super = 0
BY DEF Imported, Row, NoRow, NewRow, Status

LEMMA OpFields ==
  ASSUME NEW o \in Op
  PROVE  /\ o.pc \in Pc /\ o.id \in Id \cup {0} /\ o.key \in Key \cup {None}
         /\ o.hash \in Category \cup {None} /\ o.menu \in BOOLEAN
         /\ o.parent \in Id \cup {0} /\ o.value \in Answer \cup {Note, None}
BY DEF Op

LEMMA IdleFields == Idle \in Op /\ Idle.pc = "idle"
BY DEF Idle, Op, Pc

LEMMA OpAt ==
  ASSUME NEW o \in Op, NEW pc \in Pc
  PROVE  LET q == [o EXCEPT !.pc = pc] IN
         /\ q \in Op /\ q.pc = pc /\ q.id = o.id /\ q.key = o.key /\ q.hash = o.hash
         /\ q.menu = o.menu /\ q.parent = o.parent /\ q.value = o.value
BY DEF Op

LEMMA OpOnRow ==
  ASSUME NEW pc \in Pc, NEW i \in Id
  PROVE  LET q == [Idle EXCEPT !.pc = pc, !.id = i] IN q \in Op /\ q.pc = pc /\ q.id = i
BY DEF Idle, Op

LEMMA OpToCommit ==
  ASSUME NEW i \in Id, NEW v \in Answer \cup {Note, None}
  PROVE  /\ ToCommit(i, v) \in Op /\ ToCommit(i, v).pc = "commit"
         /\ ToCommit(i, v).id = i /\ ToCommit(i, v).value = v
BY DEF ToCommit, Idle, Op, Pc

LEMMA OpToAsk ==
  ASSUME NEW f \in Folder, NEW hash \in Category, NEW v \in Answer \cup {None}
  PROVE  /\ ToAsk(f, hash, v) \in Op /\ ToAsk(f, hash, v).pc = "head"
         /\ ToAsk(f, hash, v).key = f /\ ToAsk(f, hash, v).hash = hash
BY DEF ToAsk, Idle, Op, Pc

LEMMA OpAfterHead ==
  ASSUME NEW o \in Op, NEW pc \in Pc, NEW i \in Id \cup {0}
  PROVE  /\ ToRevise(o, pc, i) \in Op /\ ToRevise(o, pc, i).pc = pc
         /\ ToRevise(o, pc, i).key = o.key /\ ToRevise(o, pc, i).parent = i
         /\ ToRevise(o, pc, i).value = o.value
BY DEF ToRevise, Op

LEMMA OpContradicts ==
  ASSUME NEW o \in Op, NEW i \in Id \cup {0}
  PROVE  /\ ToContradict(o, i) \in Op /\ ToContradict(o, i).pc = "append"
         /\ ToContradict(o, i).key = o.key /\ ToContradict(o, i).parent = i
         /\ ToContradict(o, i).value = None
BY DEF ToContradict, Op, Pc

LEMMA OpToRevert ==
  ASSUME NEW r \in Row, r.key \in Key, NEW p \in Id
  PROVE  LET q == [Idle EXCEPT !.pc = "append", !.key = r.key, !.hash = r.hash,
                               !.menu = r.menu, !.parent = p, !.value = r.chosen] IN
         q \in Op /\ q.pc = "append" /\ q.key = r.key /\ q.value = r.chosen /\ q.parent = p
BY DEF Idle, Op, Pc, Row

-----------------------------------------------------------------------------
(* Edits of the table.                                                      *)

LEMMA NoEdit ==
  ASSUME TableInv, UNCHANGED <<row, last>>
  PROVE  TableInv' /\ Keeps
BY DEF TableInv, RowTypes, KeyInv, InboxIsQuiet, ChainIsWhole, Keeps, Menu

\* The rows ids get the answer v; by tells which of them a row is superseded by.
Edited(ids, by, v) ==
  /\ row' \in [Id -> Row]
  /\ \A j \in ids : /\ row'[j].status = "decided" /\ row'[j].chosen = v
                    /\ row'[j].key = row[j].key /\ row'[j].parent = row[j].parent
                    /\ row'[j].super = row[j].super /\ row'[j].hash = row[j].hash
                    /\ row'[j].applied = row[j].applied
  /\ \A j \in Id \ ids : /\ row'[j].status = row[j].status /\ row'[j].chosen = row[j].chosen
                         /\ row'[j].key = row[j].key /\ row'[j].parent = row[j].parent
                         /\ row'[j].hash = row[j].hash /\ row'[j].applied = row[j].applied
                         /\ by[j] = 0 => row'[j] = row[j]
                         /\ by[j] # 0 => row'[j].super = by[j]

LEMMA AnswerForm ==
  ASSUME row \in [Id -> Row], NEW ids \in SUBSET Id, NEW v \in Answer \cup {Note},
         NEW by \in [Id -> Id \cup {0}],
         row' = [j \in Id |->
           IF j \in ids THEN [row[j] EXCEPT !.status = "decided", !.chosen = v]
           ELSE IF by[j] # 0 THEN [row[j] EXCEPT !.super = by[j]]
           ELSE row[j]]
  PROVE  Edited(ids, by, v)
<1>1. ASSUME NEW j \in ids
      PROVE  /\ row'[j] \in Row
             /\ row'[j].status = "decided" /\ row'[j].chosen = v
             /\ row'[j].key = row[j].key /\ row'[j].parent = row[j].parent
             /\ row'[j].super = row[j].super /\ row'[j].hash = row[j].hash
             /\ row'[j].applied = row[j].applied
  <2>1. row[j] \in Row /\ row'[j] = [row[j] EXCEPT !.status = "decided", !.chosen = v]
    OBVIOUS
  <2>2. Answered([row[j] EXCEPT !.status = "decided", !.chosen = v], row[j], v)
    BY <2>1, RowAnswered, Zenon
  <2>3. Answered(row'[j], row[j], v)
    BY <2>1, <2>2, Zenon
  <2> QED
    BY <2>3 DEF Answered
<1>2. ASSUME NEW j \in Id \ ids
      PROVE  /\ row'[j] \in Row
             /\ row'[j].status = row[j].status /\ row'[j].chosen = row[j].chosen
             /\ row'[j].key = row[j].key /\ row'[j].parent = row[j].parent
             /\ row'[j].hash = row[j].hash /\ row'[j].applied = row[j].applied
             /\ by[j] = 0 => row'[j] = row[j]
             /\ by[j] # 0 => row'[j].super = by[j]
  <2>1. row[j] \in Row /\ by[j] \in Id \cup {0}
    OBVIOUS
  <2>2. CASE by[j] = 0
    BY <2>1, <2>2
  <2>3. CASE by[j] # 0
    <3>0. by[j] \in Id
      BY <2>1, <2>3
    <3>1. row'[j] = [row[j] EXCEPT !.super = by[j]]
      BY <2>1, <2>3
    <3>2. Superseded([row[j] EXCEPT !.super = by[j]], row[j], by[j])
      BY <2>1, <3>0, RowSuperseded, Zenon
    <3>3. Superseded(row'[j], row[j], by[j])
      BY <3>1, <3>2, Zenon
    <3> QED
      BY <2>3, <3>3 DEF Superseded
  <2> QED
    BY <2>2, <2>3
<1>3. row' \in [Id -> Row]
  BY <1>1, <1>2
<1> QED
  BY <1>1, <1>2, <1>3 DEF Edited

\* What by is: the standing answers these rows revise are superseded by one of them.
Revised(ids, by) ==
  /\ \A j \in Id : by[j] # 0 => by[j] \in ids /\ row[by[j]].parent = j /\ row[j].super = 0
  /\ \A j \in Id, i \in ids : row[i].parent = j /\ row[j].super = 0 => by[j] # 0

\* A commit and a batch have that form.
LEMMA CommitForm ==
  ASSUME TableInv, NEW i \in Id, NEW v \in Answer \cup {Note}, row' = Decided(i, v)
  PROVE  \E by \in [Id -> Id \cup {0}] : Revised({i}, by) /\ Edited({i}, by, v)
<1> DEFINE by == [j \in Id |-> IF j = row[i].parent /\ row[j].super = 0 THEN i ELSE 0]
<1>1. by \in [Id -> Id \cup {0}] /\ i # 0
  OBVIOUS
<1>2. Revised({i}, by)
  BY DEF Revised
<1>3. row' = [j \in Id |->
         IF j \in {i} THEN [row[j] EXCEPT !.status = "decided", !.chosen = v]
         ELSE IF by[j] # 0 THEN [row[j] EXCEPT !.super = by[j]]
         ELSE row[j]]
  <2>1. \A j \in Id : by[j] = IF j = row[i].parent /\ row[j].super = 0 THEN i ELSE 0
    OBVIOUS
  <2> HIDE DEF by
  <2>2. \A j \in Id : (IF j = i THEN [row[j] EXCEPT !.status = "decided", !.chosen = v]
                       ELSE IF j = row[i].parent /\ row[j].super = 0
                       THEN [row[j] EXCEPT !.super = i] ELSE row[j])
                    = (IF j \in {i} THEN [row[j] EXCEPT !.status = "decided", !.chosen = v]
                       ELSE IF by[j] # 0 THEN [row[j] EXCEPT !.super = by[j]]
                       ELSE row[j])
    BY <1>1, <2>1, Zenon
  <2> QED
    BY <2>2, Zenon DEF Decided
<1> HIDE DEF by
<1>4. {i} \in SUBSET Id /\ row \in [Id -> Row]
  BY DEF TableInv, RowTypes
<1> QED
  BY <1>1, <1>2, <1>3, <1>4, AnswerForm

\* The questions a batch answers.
AskedUnder(F) == {i \in Id : row[i].status = "open" /\ row[i].key \in F}

LEMMA CommitBatchForm ==
  ASSUME TableInv, NEW s, NEW F \in SUBSET Folder, NEW v \in Answer, CommitBatch(s, F, v)
  PROVE  \E by \in [Id -> Id \cup {0}] :
           Revised(AskedUnder(F), by) /\ Edited(AskedUnder(F), by, v)
<1> DEFINE ids == AskedUnder(F)
           one(j) == CHOOSE i \in ids : row[i].parent = j
           by == [j \in Id |->
                    IF row[j].super = 0 /\ \E i \in ids : row[i].parent = j THEN one(j) ELSE 0]
<1>1. ids \in SUBSET Id /\ \A i \in ids : i # 0
  BY DEF AskedUnder
<1>2. row' = [j \in Id |->
     IF j \in ids THEN [row[j] EXCEPT !.status = "decided", !.chosen = v]
     ELSE IF row[j].super = 0 /\ \E i \in ids : row[i].parent = j
     THEN [row[j] EXCEPT !.super = one(j)]
     ELSE row[j]]
  BY DEF CommitBatch, AskedUnder
<1> HIDE DEF ids
<1>3. \A j \in Id : by[j] = IF row[j].super = 0 /\ \E i \in ids : row[i].parent = j
                           THEN one(j) ELSE 0
  OBVIOUS
<1>4. \A j \in Id : (\E i \in ids : row[i].parent = j) => one(j) \in ids /\ row[one(j)].parent = j
  OBVIOUS
<1> HIDE DEF one
<1>5. by \in [Id -> Id \cup {0}]
  BY <1>1, <1>4
<1> HIDE DEF by
<1>6. Revised(ids, by)
  BY <1>1, <1>3, <1>4 DEF Revised
<1>7. row' = [j \in Id |->
         IF j \in ids THEN [row[j] EXCEPT !.status = "decided", !.chosen = v]
         ELSE IF by[j] # 0 THEN [row[j] EXCEPT !.super = by[j]]
         ELSE row[j]]
  <2>1. ASSUME NEW j \in Id
        PROVE  (IF j \in ids THEN [row[j] EXCEPT !.status = "decided", !.chosen = v]
                ELSE IF row[j].super = 0 /\ \E i \in ids : row[i].parent = j
                THEN [row[j] EXCEPT !.super = one(j)] ELSE row[j])
             = (IF j \in ids THEN [row[j] EXCEPT !.status = "decided", !.chosen = v]
                ELSE IF by[j] # 0 THEN [row[j] EXCEPT !.super = by[j]] ELSE row[j])
    <3>1. CASE row[j].super = 0 /\ \E i \in ids : row[i].parent = j
      <4>1. by[j] = one(j) /\ by[j] # 0
        BY <1>1, <1>3, <1>4, <3>1
      <4> QED
        BY <3>1, <4>1, Zenon
    <3>2. CASE ~(row[j].super = 0 /\ \E i \in ids : row[i].parent = j)
      <4>1. by[j] = 0
        BY <1>3, <3>2
      <4> QED
        BY <3>2, <4>1, Zenon
    <3> QED
      BY <3>1, <3>2
  <2> QED
    BY <1>2, <2>1, Zenon
<1>8. v \in Answer \cup {Note} /\ row \in [Id -> Row]
  BY DEF TableInv, RowTypes
<1>9. Edited(ids, by, v)
  BY <1>1, <1>5, <1>7, <1>8, AnswerForm
<1> QED
  BY <1>5, <1>6, <1>9 DEF ids

\* An answer, or several, to open questions.
LEMMA AnswerEdit ==
  ASSUME TableInv, last' = last, NEW ids \in SUBSET Id, NEW v,
         v # None, v \in Answer \cup {Note},
         \A i \in ids : row[i].status = "open" /\ v \in Menu(row[i].key),
         NEW by \in [Id -> Id \cup {0}],
         \A j \in Id : by[j] # 0 => /\ by[j] \in ids /\ row[by[j]].parent = j
                                    /\ row[j].super = 0,
         Edited(ids, by, v)
  PROVE  TableInv' /\ Keeps
<1>0. row \in [Id -> Row] /\ row' \in [Id -> Row]
  BY DEF TableInv, RowTypes, Edited
<1>1. \A j \in ids : /\ row'[j].status = "decided" /\ row'[j].chosen = v
                     /\ row'[j].key = row[j].key /\ row'[j].parent = row[j].parent
                     /\ row'[j].super = row[j].super /\ row'[j].hash = row[j].hash
                     /\ row'[j].applied = row[j].applied
  BY DEF Edited
<1>2. \A j \in Id \ ids : /\ row'[j].status = row[j].status /\ row'[j].chosen = row[j].chosen
                          /\ row'[j].key = row[j].key /\ row'[j].parent = row[j].parent
                          /\ row'[j].hash = row[j].hash /\ row'[j].applied = row[j].applied
                          /\ by[j] = 0 => row'[j] = row[j]
                          /\ by[j] # 0 => row'[j].super = by[j]
  BY Zenon DEF Edited
<1>3. RowTypes'
  <2>1. \A i \in Id : i > last' => row'[i] = NoRow
    <3> SUFFICES ASSUME NEW i \in Id, i > last PROVE row'[i] = NoRow
      OBVIOUS
    <3>1. row[i] = NoRow
      BY DEF TableInv, RowTypes
    <3>2. i \notin ids /\ by[i] = 0
      <4>1. i \notin ids
        BY <3>1, NoRowFields
      <4>2. ASSUME by[i] # 0 PROVE FALSE
        <5>1. by[i] \in Id /\ row[by[i]].parent = i
          BY <4>2
        <5>2. row[i].status = "decided"
          BY <5>1 DEF TableInv, ChainIsWhole
        <5> QED
          BY <5>2, <3>1, NoRowFields
      <4> QED
        BY <4>1, <4>2
    <3> QED
      BY <1>2, <3>1, <3>2
  <2>2. \A i \in Id : row'[i].chosen # None <=> row'[i].status = "decided"
    BY <1>1, <1>2 DEF TableInv, RowTypes
  <2> QED
    BY <1>0, <2>1, <2>2 DEF TableInv, RowTypes
<1>4. KeyInv'
  BY <1>1, <1>2 DEF TableInv, KeyInv, Menu
<1>5. InboxIsQuiet'
  BY <1>1, <1>2 DEF TableInv, InboxIsQuiet
<1>6. ChainIsWhole'
  <2> SUFFICES ASSUME NEW i \in Id
               PROVE  /\ row'[i].parent # 0 =>
                           /\ row'[i].parent < i
                           /\ row'[row'[i].parent].key = row'[i].key
                           /\ row'[row'[i].parent].status = "decided"
                      /\ row'[i].super # 0 =>
                           /\ row'[row'[i].super].parent = i
                           /\ row'[row'[i].super].status = "decided"
    BY DEF ChainIsWhole
  <2>1. row[i].parent \in Id \cup {0} /\ row[i].super \in Id \cup {0}
    BY <1>0, RowFields
  <2>2. row[i].parent # 0 =>
          /\ row[i].parent < i
          /\ row[row[i].parent].key = row[i].key
          /\ row[row[i].parent].status = "decided"
    BY DEF TableInv, ChainIsWhole
  <2>3. row[i].super # 0 => row[row[i].super].parent = i /\ row[row[i].super].status = "decided"
    BY DEF TableInv, ChainIsWhole
  <2>4. row'[i].parent = row[i].parent /\ row'[i].key = row[i].key
    BY <1>1, <1>2
  <2>5. row[i].parent # 0 => row'[row[i].parent].key = row[row[i].parent].key
                             /\ row'[row[i].parent].status = "decided"
    BY <1>1, <1>2, <2>1, <2>2
  <2>6. CASE row'[i].super = row[i].super
    BY <1>1, <1>2, <2>1, <2>2, <2>3, <2>4, <2>5, <2>6
  <2>7. CASE row'[i].super # row[i].super
    <3>1. by[i] # 0 /\ row'[i].super = by[i]
      BY <1>1, <1>2, <2>7
    <3>2. by[i] \in ids /\ row[by[i]].parent = i
      BY <3>1
    <3> QED
      BY <1>1, <3>1, <3>2, <2>2, <2>4, <2>5
  <2> QED
    BY <2>6, <2>7
<1>7. Keeps
  BY <1>1, <1>2 DEF TableInv, RowTypes, Keeps
<1> QED
  BY <1>3, <1>4, <1>5, <1>6, <1>7 DEF TableInv

\* A receipt for an answer that stands.
LEMMA StampEdit ==
  ASSUME TableInv, last' = last, NEW i \in Id, row[i].status = "decided",
         row' = [row EXCEPT ![i].applied = TRUE]
  PROVE  TableInv' /\ Keeps
<1>a. row \in [Id -> Row] /\ row'[i] = [row[i] EXCEPT !.applied = TRUE]
      /\ \A j \in Id : j # i => row'[j] = row[j]
  BY DEF TableInv, RowTypes
<1>c. Stamped([row[i] EXCEPT !.applied = TRUE], row[i])
  <2>1. row[i] \in Row
    BY <1>a
  <2> QED
    BY <2>1, RowStamped, Zenon
<1>d. Stamped(row'[i], row[i])
  BY <1>a, <1>c, Zenon
<1>b. /\ row'[i] \in Row
      /\ row'[i].status = row[i].status /\ row'[i].chosen = row[i].chosen
      /\ row'[i].key = row[i].key /\ row'[i].parent = row[i].parent
      /\ row'[i].hash = row[i].hash /\ row'[i].super = row[i].super
      /\ row'[i].applied = TRUE
  BY <1>d DEF Stamped
<1>0. row \in [Id -> Row] /\ row' \in [Id -> Row]
  BY <1>a, <1>b
<1>1. \A j \in Id : /\ row'[j].status = row[j].status /\ row'[j].chosen = row[j].chosen
                    /\ row'[j].key = row[j].key /\ row'[j].parent = row[j].parent
                    /\ row'[j].hash = row[j].hash /\ row'[j].super = row[j].super
                    /\ row[j].applied => row'[j].applied
  BY <1>a, <1>b
<1>2. \A j \in Id : j > last => row'[j] = NoRow
  BY <1>a, NoRowFields DEF TableInv, RowTypes
<1>3. RowTypes'
  BY <1>0, <1>1, <1>2 DEF TableInv, RowTypes
<1>4. KeyInv' /\ InboxIsQuiet'
  BY <1>1 DEF TableInv, KeyInv, InboxIsQuiet, Menu
<1>5. ChainIsWhole'
  BY <1>0, <1>1 DEF TableInv, ChainIsWhole
<1>6. Keeps
  BY <1>1 DEF TableInv, RowTypes, Keeps
<1> QED
  BY <1>3, <1>4, <1>5, <1>6 DEF TableInv

\* An open question is dismissed or expires.
LEMMA CloseEdit ==
  ASSUME TableInv, last' = last, NEW i \in Id, row[i].status = "open",
         NEW how \in {"dismissed", "expired"},
         row' = [row EXCEPT ![i].status = how]
  PROVE  TableInv' /\ Keeps
<1>a. row \in [Id -> Row] /\ row'[i] = [row[i] EXCEPT !.status = how]
      /\ \A j \in Id : j # i => row'[j] = row[j]
  BY DEF TableInv, RowTypes
<1>b. /\ row'[i] \in Row
      /\ row'[i].status = how /\ row'[i].chosen = row[i].chosen
      /\ row'[i].key = row[i].key /\ row'[i].parent = row[i].parent
      /\ row'[i].hash = row[i].hash /\ row'[i].super = row[i].super
      /\ row'[i].applied = row[i].applied
  BY <1>a, RowClosed
<1>0. row \in [Id -> Row] /\ row' \in [Id -> Row]
  BY <1>a, <1>b
<1>1. \A j \in Id : /\ row'[j].status = (IF j = i THEN how ELSE row[j].status)
                    /\ row'[j].chosen = row[j].chosen
                    /\ row'[j].key = row[j].key /\ row'[j].parent = row[j].parent
                    /\ row'[j].hash = row[j].hash /\ row'[j].super = row[j].super
                    /\ row'[j].applied = row[j].applied
  BY <1>a, <1>b
<1>2. \A j \in Id : j > last => row'[j] = NoRow
  BY <1>a, NoRowFields DEF TableInv, RowTypes
<1>3. RowTypes'
  BY <1>0, <1>1, <1>2 DEF TableInv, RowTypes
<1>4. KeyInv' /\ InboxIsQuiet'
  BY <1>1 DEF TableInv, KeyInv, InboxIsQuiet, Menu
<1>5. ChainIsWhole'
  BY <1>0, <1>1 DEF TableInv, ChainIsWhole
<1>6. Keeps
  BY <1>1 DEF TableInv, RowTypes, Keeps
<1> QED
  BY <1>3, <1>4, <1>5, <1>6 DEF TableInv

\* Rows nobody refers to are collected.
LEMMA GarbageEdit ==
  ASSUME TableInv, last' = last, NEW S \in SUBSET Garbage,
         row' = [i \in Id |-> IF i \in S THEN NoRow ELSE row[i]]
  PROVE  TableInv' /\ Keeps
<1>0. row \in [Id -> Row] /\ row' \in [Id -> Row]
  BY NoRowFields DEF TableInv, RowTypes
<1>1. \A j \in Id : row'[j] = IF j \in S THEN NoRow ELSE row[j]
  OBVIOUS
<1>2. \A j \in S : j \in Id /\ row[j].status \in {"expired", "dismissed"}
  BY DEF Garbage
<1>3. RowTypes'
  BY <1>0, <1>1, NoRowFields DEF TableInv, RowTypes
<1>4. KeyInv'
  BY <1>1, NoRowFields DEF TableInv, KeyInv, Menu
<1>5. InboxIsQuiet'
  <2>1. \A j \in Id : row'[j].status = "open" => row'[j].key # None
    BY <1>1, NoRowFields DEF TableInv, KeyInv
  <2> QED
    BY <1>1, <2>1, NoRowFields DEF TableInv, InboxIsQuiet
<1>6. ChainIsWhole'
  <2> SUFFICES ASSUME NEW i \in Id
               PROVE  /\ row'[i].parent # 0 =>
                           /\ row'[i].parent < i
                           /\ row'[row'[i].parent].key = row'[i].key
                           /\ row'[row'[i].parent].status = "decided"
                      /\ row'[i].super # 0 =>
                           /\ row'[row'[i].super].parent = i
                           /\ row'[row'[i].super].status = "decided"
    BY DEF ChainIsWhole
  <2>1. \A q \in Id : row[q].status = "decided" => row'[q] = row[q]
    BY <1>1, <1>2
  <2>2. CASE i \in S
    BY <1>1, <2>2, NoRowFields
  <2>3. CASE i \notin S
    <3>1. row'[i] = row[i] /\ row[i].parent \in Id \cup {0} /\ row[i].super \in Id \cup {0}
      BY <1>0, <1>1, <2>3, RowFields
    <3> QED
      BY <2>1, <3>1 DEF TableInv, ChainIsWhole
  <2> QED
    BY <2>2, <2>3
<1>7. Keeps
  <2>1. last \in Nat
    BY DEF TableInv, RowTypes
  <2>2. \A i \in Id : row'[i].status # "none" => row'[i] = row[i]
    BY <1>1, NoRowFields
  <2> QED
    BY <1>1, <1>2, <2>1, <2>2 DEF Keeps
<1> QED
  BY <1>3, <1>4, <1>5, <1>6, <1>7 DEF TableInv

\* A question is appended, perhaps as a revision of an answer.
LEMMA AskEdit ==
  ASSUME TableInv, last < MaxRows, last' = last + 1,
         NEW k \in Key, NEW hash \in Category \cup {None}, NEW menu \in BOOLEAN,
         NEW p \in Id \cup {0}, Insertable(k, hash),
         p # 0 => row[p].status = "decided" /\ row[p].key = k,
         row' = [row EXCEPT ![last + 1] = NewRow(k, hash, menu, p)]
  PROVE  TableInv' /\ Keeps
<1>0. row \in [Id -> Row] /\ row' \in [Id -> Row] /\ last \in Nat /\ last + 1 \in Id
  BY NewRowFields DEF TableInv, RowTypes
<1>1. \A j \in Id : j # last + 1 => row'[j] = row[j]
  BY <1>0
<1>2. /\ row'[last + 1].status = "open" /\ row'[last + 1].chosen = None
      /\ row'[last + 1].key = k /\ row'[last + 1].parent = p
      /\ row'[last + 1].super = 0 /\ row'[last + 1].hash = hash
  <2>1. row'[last + 1] = NewRow(k, hash, menu, p)
    BY <1>0
  <2> QED
    BY <2>1, NewRowFields
<1>3. row[last + 1] = NoRow /\ row[last + 1].status = "none"
  BY <1>0, NoRowFields DEF TableInv, RowTypes
<1>4. RowTypes'
  BY <1>0, <1>1, <1>2 DEF TableInv, RowTypes
<1>5. KeyInv'
  BY <1>1, <1>2 DEF TableInv, KeyInv, Menu
<1>6. InboxIsQuiet'
  <2> SUFFICES ASSUME NEW i \in Id, NEW j \in Id, row'[i].status = "open", i # j,
                      row'[j].key = row'[i].key
               PROVE  /\ row'[j].status # "open"
                      /\ ~(row'[j].status = "dismissed" /\ row'[j].hash = row'[i].hash)
    BY DEF InboxIsQuiet
  <2>1. CASE i = last + 1
    BY <1>1, <1>2, <2>1 DEF Insertable
  <2>2. CASE j = last + 1
    BY <1>1, <1>2, <2>2 DEF Insertable
  <2>3. CASE i # last + 1 /\ j # last + 1
    BY <1>1, <2>3 DEF TableInv, InboxIsQuiet
  <2> QED
    BY <2>1, <2>2, <2>3
<1>7. ChainIsWhole'
  <2> SUFFICES ASSUME NEW i \in Id
               PROVE  /\ row'[i].parent # 0 =>
                           /\ row'[i].parent < i
                           /\ row'[row'[i].parent].key = row'[i].key
                           /\ row'[row'[i].parent].status = "decided"
                      /\ row'[i].super # 0 =>
                           /\ row'[row'[i].super].parent = i
                           /\ row'[row'[i].super].status = "decided"
    BY DEF ChainIsWhole
  <2>1. \A q \in Id : row[q].status = "decided" => q <= last /\ row'[q] = row[q]
    BY <1>0, <1>1, <1>3, NoRowFields DEF TableInv, RowTypes
  <2>2. CASE i = last + 1
    BY <1>0, <1>2, <2>1, <2>2
  <2>3. CASE i # last + 1
    <3>1. row'[i] = row[i] /\ row[i].parent \in Id \cup {0} /\ row[i].super \in Id \cup {0}
      BY <1>0, <1>1, <2>3, RowFields
    <3> QED
      BY <2>1, <3>1 DEF TableInv, ChainIsWhole
  <2> QED
    BY <2>2, <2>3
<1>8. Keeps
  BY <1>0, <1>1, <1>3 DEF Keeps
<1> QED
  BY <1>4, <1>5, <1>6, <1>7, <1>8 DEF TableInv

\* Answers without a past are inserted: a note, or what the back-fill imports.
LEMMA ImportEdit ==
  ASSUME TableInv, NEW n \in Nat, last + n <= MaxRows, last' = last + n,
         NEW new \in [last + 1 .. last + n -> Row],
         \A i \in last + 1 .. last + n :
           /\ new[i].status = "decided" /\ new[i].key \in Key
           /\ new[i].chosen \in Menu(new[i].key) /\ new[i].chosen # None
           /\ new[i].parent = 0 /\ new[i].super = 0
           /\ \A j \in Id : row[j].key = new[i].key => row[j].status # "open",
         row' = [i \in Id |-> IF i \in last + 1 .. last + n THEN new[i] ELSE row[i]]
  PROVE  TableInv' /\ Keeps
<1> DEFINE N == last + 1 .. last + n
<1>0. row \in [Id -> Row] /\ row' \in [Id -> Row] /\ last \in Nat /\ N \subseteq Id
  BY DEF TableInv, RowTypes
<1>1. (\A j \in Id \ N : row'[j] = row[j]) /\ (\A j \in N : row'[j] = new[j])
  BY <1>0
<1>2. \A j \in N : row[j] = NoRow /\ row[j].status = "none"
  BY <1>0, NoRowFields DEF TableInv, RowTypes
<1>3. RowTypes'
  <2>1. \A i \in Id : i > last' => row'[i] = NoRow
    BY <1>0, <1>1 DEF TableInv, RowTypes
  <2>2. \A i \in Id : row'[i].chosen # None <=> row'[i].status = "decided"
    BY <1>0, <1>1 DEF TableInv, RowTypes
  <2>3. last' \in Id \cup {0}
    BY <1>0
  <2> QED
    BY <1>0, <2>1, <2>2, <2>3 DEF RowTypes
<1>4. KeyInv'
  BY <1>0, <1>1 DEF TableInv, KeyInv, Menu
<1>5. InboxIsQuiet'
  BY <1>0, <1>1 DEF TableInv, InboxIsQuiet
<1>6. ChainIsWhole'
  <2> SUFFICES ASSUME NEW i \in Id
               PROVE  /\ row'[i].parent # 0 =>
                           /\ row'[i].parent < i
                           /\ row'[row'[i].parent].key = row'[i].key
                           /\ row'[row'[i].parent].status = "decided"
                      /\ row'[i].super # 0 =>
                           /\ row'[row'[i].super].parent = i
                           /\ row'[row'[i].super].status = "decided"
    BY DEF ChainIsWhole
  <2>1. \A q \in Id : row[q].status = "decided" => row'[q] = row[q]
    BY <1>0, <1>1, <1>2
  <2>2. CASE i \in N
    BY <1>1, <2>2
  <2>3. CASE i \notin N
    <3>1. row'[i] = row[i] /\ row[i].parent \in Id \cup {0} /\ row[i].super \in Id \cup {0}
      BY <1>0, <1>1, <2>3, RowFields
    <3> QED
      BY <2>1, <3>1 DEF TableInv, ChainIsWhole
  <2> QED
    BY <2>2, <2>3
<1>7. Keeps
  BY <1>0, <1>1, <1>2 DEF Keeps
<1> QED
  BY <1>3, <1>4, <1>5, <1>6, <1>7 DEF TableInv

-----------------------------------------------------------------------------
(* Memories.                                                                *)

\* A surface that does not move loses nothing by what others do.
LEMMA Bystander ==
  ASSUME LedgerInv, TableInv', Keeps, NEW s \in Surface,
         op'[s] = op[s], todo'[s] = todo[s]
  PROVE  OpInv(s)' /\ TodoInv(s)'
<1>0. op[s] \in Op /\ todo[s] \in SUBSET Id /\ last \in Nat /\ OpInv(s) /\ TodoInv(s)
  BY DEF LedgerInv, SurfaceInv, SurfaceTypes, TableInv, RowTypes
<1>1. TodoInv(s)'
  BY <1>0 DEF TodoInv, Keeps
<1>2. op[s].id \in Id \cup {0} /\ op[s].parent \in Id \cup {0}
  BY <1>0, OpFields
<1>3. OpInv(s)'
  BY <1>0, <1>2 DEF OpInv, Keeps
<1> QED
  BY <1>1, <1>3

LEMMA Moved ==
  ASSUME LedgerInv, NEW s \in Surface, NEW o, op' = [op EXCEPT ![s] = o]
  PROVE  op'[s] = o
BY DEF LedgerInv, SurfaceInv, SurfaceTypes

LEMMA Listed ==
  ASSUME LedgerInv, NEW s \in Surface, NEW S, todo' = [todo EXCEPT ![s] = S]
  PROVE  todo'[s] = S
BY DEF LedgerInv, SurfaceInv, SurfaceTypes

LEMMA Still ==
  ASSUME LedgerInv, NEW s \in Surface, todo' = todo
  PROVE  todo' = [todo EXCEPT ![s] = todo[s]] /\ todo'[s] = todo[s] /\ todo[s] \in SUBSET Id
BY DEF LedgerInv, SurfaceInv, SurfaceTypes

\* What a surface lists stays answered.
LEMMA ListStays ==
  ASSUME LedgerInv, Keeps, NEW s \in Surface, todo'[s] \subseteq todo[s]
  PROVE  TodoInv(s)'
BY DEF TodoInv, Keeps, LedgerInv, SurfaceInv, SurfaceTypes

\* A surface that is idle or projects holds nothing else.
LEMMA HoldsNothing ==
  ASSUME NEW s \in Surface, op'[s].pc \in {"idle", "project"}
  PROVE  OpInv(s)'
BY DEF OpInv

\* So a step of s is sound if the table and s are.
LEMMA OneMoves ==
  ASSUME LedgerInv, TableInv', Keeps, NEW s \in Surface,
         NEW o \in Op, NEW S \in SUBSET Id,
         op' = [op EXCEPT ![s] = o], todo' = [todo EXCEPT ![s] = S],
         cls' \in [Folder -> Answer \cup {None}], present' \subseteq Folder,
         hint' \in [Folder -> Category], byHand' \subseteq Folder, overlapped' \in BOOLEAN,
         OpInv(s)', TodoInv(s)'
  PROVE  LedgerInv'
<1>1. SurfaceTypes'
  BY DEF LedgerInv, SurfaceInv, SurfaceTypes
<1>2. \A t \in Surface : OpInv(t)' /\ TodoInv(t)'
  <2> SUFFICES ASSUME NEW t \in Surface, t # s PROVE OpInv(t)' /\ TodoInv(t)'
    OBVIOUS
  <2>1. op'[t] = op[t] /\ todo'[t] = todo[t]
    BY DEF LedgerInv, SurfaceInv, SurfaceTypes
  <2> QED
    BY <2>1, Bystander
<1> QED
  BY <1>1, <1>2 DEF LedgerInv, SurfaceInv

-----------------------------------------------------------------------------
(* Steps.                                                                   *)

LEMMA HistoryTypes ==
  ASSUME LedgerInv, NEW s \in Surface, NEW hand \in SUBSET Folder, Watched(s, hand)
  PROVE  byHand' \subseteq Folder /\ overlapped' \in BOOLEAN
BY DEF LedgerInv, SurfaceInv, SurfaceTypes, Watched

\* Reading, taking the first step of an answer or a repair, projecting.
LEMMA QuietStep ==
  ASSUME LedgerInv, NEW s \in Surface, UNCHANGED <<row, last, present, hint>>,
         NEW o \in Op, NEW S \in SUBSET Id,
         op' = [op EXCEPT ![s] = o], todo' = [todo EXCEPT ![s] = S],
         cls' \in [Folder -> Answer \cup {None}],
         NEW hand \in SUBSET Folder, Watched(s, hand), OpInv(s)', TodoInv(s)'
  PROVE  LedgerInv' /\ Keeps
<1>1. TableInv' /\ Keeps
  BY NoEdit DEF LedgerInv
<1>2. present' \subseteq Folder /\ hint' \in [Folder -> Category]
  BY DEF LedgerInv, SurfaceInv, SurfaceTypes
<1>3. byHand' \subseteq Folder /\ overlapped' \in BOOLEAN
  BY HistoryTypes
<1> QED
  BY <1>1, <1>2, <1>3, OneMoves

LEMMA BeginAnswerStep ==
  ASSUME LedgerInv, NEW s \in Surface, NEW i \in Id, NEW v \in Answer \cup {Note},
         BeginAnswer(s, i, v)
  PROVE  LedgerInv' /\ Keeps
<1> DEFINE o == ToCommit(i, v)
<1>1. o \in Op /\ o.pc = "commit" /\ o.id = i /\ o.value = v
  BY OpToCommit
<1>2. /\ op' = [op EXCEPT ![s] = o] /\ UNCHANGED <<row, last, cls, present, hint, todo>>
      /\ Watched(s, byHand) /\ row[i].status = "open" /\ v \in Menu(row[i].key)
  BY DEF BeginAnswer, ToCommit
<1> HIDE DEF o
<1>3. op'[s] = o
  BY <1>2, Moved
<1>4. todo' = [todo EXCEPT ![s] = todo[s]] /\ todo'[s] = todo[s] /\ todo[s] \in SUBSET Id
  BY <1>2, Still
<1>5. i <= last
  BY <1>2, NoRowFields DEF LedgerInv, TableInv, RowTypes
<1>6. v # None
  OBVIOUS
<1>7. OpInv(s)'
  BY <1>1, <1>2, <1>3, <1>5, <1>6 DEF OpInv, Menu
<1>8. TodoInv(s)'
  BY <1>2, <1>4 DEF TodoInv, LedgerInv, SurfaceInv
<1>9. cls' \in [Folder -> Answer \cup {None}] /\ byHand \in SUBSET Folder
  BY <1>2 DEF LedgerInv, SurfaceInv, SurfaceTypes
<1> QED
  BY <1>1, <1>2, <1>4, <1>7, <1>8, <1>9, QuietStep

LEMMA CommitStep ==
  ASSUME LedgerInv, NEW s \in Surface, Commit(s)
  PROVE  LedgerInv' /\ Keeps
<1> DEFINE i == op[s].id
           v == op[s].value
<1>a. op[s] \in Op /\ op[s].pc = "commit" /\ OpInv(s) /\ TableInv
  BY DEF Commit, LedgerInv, SurfaceInv, SurfaceTypes
<1>0. /\ i \in Id /\ v # None /\ v \in Answer \cup {Note}
      /\ row[i].status = "open" => v \in Menu(row[i].key)
  BY <1>a, OpFields DEF OpInv
<1>b. /\ UNCHANGED <<last, cls, present, hint>> /\ Watched(s, byHand)
      /\ byHand \in SUBSET Folder /\ cls' \in [Folder -> Answer \cup {None}]
      /\ present' \subseteq Folder /\ hint' \in [Folder -> Category]
  BY DEF Commit, LedgerInv, SurfaceInv, SurfaceTypes
<1>1. CASE row[i].status = "open"
  <2> DEFINE o == [Idle EXCEPT !.pc = "project"]
  <2>0. row' = Decided(i, v) /\ op' = [op EXCEPT ![s] = o] /\ todo' = [todo EXCEPT ![s] = {i}]
    BY <1>1 DEF Commit
  <2> HIDE DEF i, v
  <2>1. PICK by \in [Id -> Id \cup {0}] : Revised({i}, by) /\ Edited({i}, by, v)
    BY <1>0, <1>a, <2>0, CommitForm
  <2>6. TableInv' /\ Keeps
    <3>1. {i} \in SUBSET Id /\ last' = last
      BY <1>0, <1>b
    <3>2. \A j \in {i} : row[j].status = "open" /\ v \in Menu(row[j].key)
      BY <1>0, <1>1 DEF i
    <3> QED
      BY <1>0, <1>a, <2>1, <3>1, <3>2, AnswerEdit DEF Revised
  <2>7. o \in Op /\ o.pc = "project"
    BY IdleFields, OpAt DEF Pc
  <2> HIDE DEF o
  <2>8. op'[s] = o /\ todo'[s] = {i} /\ {i} \in SUBSET Id
    BY <1>0, <2>0, Moved, Listed
  <2>9. OpInv(s)'
    BY <2>7, <2>8, HoldsNothing
  <2>10. TodoInv(s)'
    BY <2>1, <2>8 DEF TodoInv, Edited
  <2>11. byHand' \subseteq Folder /\ overlapped' \in BOOLEAN
    BY <1>b, HistoryTypes
  <2> QED
    BY <1>b, <2>0, <2>6, <2>7, <2>8, <2>9, <2>10, <2>11, OneMoves
<1>2. CASE row[i].status # "open"
  <2>1. op' = [op EXCEPT ![s] = Idle] /\ UNCHANGED <<row, todo>>
    BY <1>2 DEF Commit
  <2>2. op'[s] = Idle
    BY <2>1, Moved
  <2>3. todo' = [todo EXCEPT ![s] = todo[s]] /\ todo'[s] = todo[s] /\ todo[s] \in SUBSET Id
    BY <2>1, Still
  <2>4. OpInv(s)'
    BY <2>2, IdleFields, HoldsNothing
  <2>5. TodoInv(s)'
    BY <2>1, <2>3 DEF TodoInv, LedgerInv, SurfaceInv
  <2> QED
    BY <1>b, <2>1, <2>3, <2>4, <2>5, IdleFields, QuietStep
<1> QED
  BY <1>1, <1>2

LEMMA CommitBatchStep ==
  ASSUME LedgerInv, NEW s \in Surface, NEW F \in SUBSET Folder, NEW v \in Answer,
         CommitBatch(s, F, v)
  PROVE  LedgerInv' /\ Keeps
<1> DEFINE ids == AskedUnder(F)
           o   == [Idle EXCEPT !.pc = "project"]
<1>0. ids \in SUBSET Id /\ \A i \in ids : row[i].status = "open" /\ v \in Menu(row[i].key)
  BY DEF AskedUnder, Menu
<1>2. op' = [op EXCEPT ![s] = o] /\ todo' = [todo EXCEPT ![s] = ids]
  BY DEF CommitBatch, AskedUnder
<1>6. /\ UNCHANGED <<last, cls, present, hint>> /\ Watched(s, byHand)
      /\ byHand \in SUBSET Folder /\ cls' \in [Folder -> Answer \cup {None}]
      /\ present' \subseteq Folder /\ hint' \in [Folder -> Category] /\ TableInv
  BY DEF CommitBatch, LedgerInv, SurfaceInv, SurfaceTypes
<1>8. o \in Op /\ o.pc = "project"
  BY IdleFields, OpAt DEF Pc
<1> HIDE DEF ids, o
<1>11. v # None /\ v \in Answer \cup {Note}
  OBVIOUS
<1>12. PICK by \in [Id -> Id \cup {0}] : Revised(ids, by) /\ Edited(ids, by, v)
  BY <1>6, CommitBatchForm DEF ids
<1>13. TableInv' /\ Keeps
  BY <1>0, <1>6, <1>11, <1>12, AnswerEdit DEF Revised
<1>14. op'[s] = o /\ todo'[s] = ids
  BY <1>2, Moved, Listed
<1>15. OpInv(s)'
  BY <1>8, <1>14, HoldsNothing
<1>16. TodoInv(s)'
  BY <1>12, <1>14 DEF TodoInv, Edited
<1>17. byHand' \subseteq Folder /\ overlapped' \in BOOLEAN
  BY <1>6, HistoryTypes
<1> QED
  BY <1>0, <1>2, <1>6, <1>8, <1>13, <1>15, <1>16, <1>17, OneMoves

LEMMA RepairStep ==
  ASSUME LedgerInv, NEW s \in Surface, Repair(s)
  PROVE  LedgerInv' /\ Keeps
<1> DEFINE o == [Idle EXCEPT !.pc = "project"]
<1>1. /\ op' = [op EXCEPT ![s] = o] /\ todo' = [todo EXCEPT ![s] = Unapplied]
      /\ UNCHANGED <<row, last, cls, present, hint>> /\ Watched(s, byHand)
  BY DEF Repair
<1>2. o \in Op /\ o.pc = "project"
  BY IdleFields, OpAt DEF Pc
<1> HIDE DEF o
<1>3. op'[s] = o /\ todo'[s] = Unapplied
  BY <1>1, Moved, Listed
<1>4. OpInv(s)'
  BY <1>2, <1>3, HoldsNothing
<1>5. TodoInv(s)' /\ Unapplied \in SUBSET Id
  BY <1>1, <1>3 DEF TodoInv, Unapplied
<1>6. cls' \in [Folder -> Answer \cup {None}] /\ byHand \in SUBSET Folder
  BY <1>1 DEF LedgerInv, SurfaceInv, SurfaceTypes
<1> QED
  BY <1>1, <1>2, <1>4, <1>5, <1>6, QuietStep

LEMMA ProjectStep ==
  ASSUME LedgerInv, NEW s \in Surface, Project(s)
  PROVE  LedgerInv' /\ Keeps
<1>0. PICK i \in todo[s] :
        /\ cls' = [f \in Folder |-> IF f = row[i].key THEN row[i].chosen ELSE cls[f]]
        /\ op' = [op EXCEPT ![s] = [Idle EXCEPT !.pc = "stamp", !.id = i]]
        /\ UNCHANGED <<row, last, present, hint, todo>>
        /\ Watched(s, byHand \ {row[i].key})
  BY DEF Project
<1> DEFINE o == [Idle EXCEPT !.pc = "stamp", !.id = i]
<1>1. i \in Id /\ row[i].status = "decided" /\ row[i].chosen \in Menu(row[i].key)
  BY DEF LedgerInv, SurfaceInv, SurfaceTypes, TodoInv, TableInv, KeyInv
<1>2. o \in Op /\ o.pc = "stamp" /\ o.id = i
  BY <1>1, OpOnRow DEF Pc
<1>a. op' = [op EXCEPT ![s] = o]
  BY <1>0
<1> HIDE DEF o
<1>3. op'[s] = o
  BY <1>a, Moved
<1>4. todo' = [todo EXCEPT ![s] = todo[s]] /\ todo'[s] = todo[s] /\ todo[s] \in SUBSET Id
  BY <1>0, Still
<1>5. OpInv(s)'
  BY <1>0, <1>1, <1>2, <1>3 DEF OpInv
<1>6. TodoInv(s)'
  BY <1>0, <1>4 DEF TodoInv, LedgerInv, SurfaceInv
<1>7. cls' \in [Folder -> Answer \cup {None}]
  BY <1>0, <1>1 DEF Menu, LedgerInv, SurfaceInv, SurfaceTypes
<1>8. byHand \ {row[i].key} \in SUBSET Folder
  BY DEF LedgerInv, SurfaceInv, SurfaceTypes
<1> QED
  BY <1>0, <1>2, <1>a, <1>4, <1>5, <1>6, <1>7, <1>8, QuietStep

LEMMA StampStep ==
  ASSUME LedgerInv, NEW s \in Surface, Stamp(s)
  PROVE  LedgerInv' /\ Keeps
<1> DEFINE i == op[s].id
           pc == IF todo[s] = {op[s].id} THEN "idle" ELSE "project"
           o == [Idle EXCEPT !.pc = pc]
<1>1. i \in Id /\ row[i].status = "decided" /\ TableInv /\ last' = last
      /\ row' = [row EXCEPT ![i].applied = TRUE]
  BY DEF Stamp, LedgerInv, SurfaceInv, OpInv
<1>2. TableInv' /\ Keeps
  BY <1>1, StampEdit
<1>3. op' = [op EXCEPT ![s] = o] /\ todo' = [todo EXCEPT ![s] = todo[s] \ {i}] /\ Watched(s, byHand)
  BY DEF Stamp
<1>4. /\ byHand \in SUBSET Folder /\ cls' \in [Folder -> Answer \cup {None}]
      /\ present' \subseteq Folder /\ hint' \in [Folder -> Category]
      /\ todo[s] \in SUBSET Id
  BY DEF Stamp, LedgerInv, SurfaceInv, SurfaceTypes
<1>5. pc \in Pc /\ pc \in {"idle", "project"}
  BY DEF Pc
<1> HIDE DEF pc
<1>6. o \in Op /\ o.pc = pc
  BY <1>5, IdleFields, OpAt
<1> HIDE DEF o, i
<1>7. op'[s] = o /\ todo'[s] = todo[s] \ {i} /\ todo[s] \ {i} \in SUBSET Id
  BY <1>3, <1>4, Moved, Listed
<1>8. OpInv(s)'
  BY <1>5, <1>6, <1>7, HoldsNothing
<1>9. TodoInv(s)'
  BY <1>2, <1>7, ListStays
<1>10. byHand' \subseteq Folder /\ overlapped' \in BOOLEAN
  BY <1>3, <1>4, HistoryTypes
<1> QED
  BY <1>2, <1>3, <1>4, <1>6, <1>7, <1>8, <1>9, <1>10, OneMoves

\* A step that edits the table and nothing else.
LEMMA TableStep ==
  ASSUME LedgerInv, NEW s \in Surface, TableInv', Keeps,
         UNCHANGED <<cls, present, hint, todo>>, NEW hand \in SUBSET Folder, Watched(s, hand),
         op' = op \/ op' = [op EXCEPT ![s] = Idle]
  PROVE  LedgerInv' /\ Keeps
<1>0. Idle \in Op /\ op[s] \in Op /\ todo[s] \in SUBSET Id
  BY IdleFields DEF LedgerInv, SurfaceInv, SurfaceTypes
<1>1. PICK o \in {op[s], Idle} : op' = [op EXCEPT ![s] = o]
  BY DEF LedgerInv, SurfaceInv, SurfaceTypes
<1>2. todo' = [todo EXCEPT ![s] = todo[s]] /\ todo'[s] = todo[s] /\ op'[s] = o /\ o \in Op
  BY <1>0, <1>1 DEF LedgerInv, SurfaceInv, SurfaceTypes
<1>3. OpInv(s)'
  <2>1. CASE o = op[s]
    BY <1>2, <2>1, Bystander
  <2>2. CASE o = Idle
    BY <1>2, <2>2, IdleFields, HoldsNothing
  <2> QED
    BY <2>1, <2>2
<1>4. TodoInv(s)'
  BY <1>0, <1>2 DEF TodoInv, Keeps, LedgerInv, SurfaceInv
<1>5. /\ cls' \in [Folder -> Answer \cup {None}] /\ present' \subseteq Folder
      /\ hint' \in [Folder -> Category]
  BY DEF LedgerInv, SurfaceInv, SurfaceTypes
<1>6. byHand' \subseteq Folder /\ overlapped' \in BOOLEAN
  BY HistoryTypes
<1> QED
  BY <1>0, <1>1, <1>2, <1>3, <1>4, <1>5, <1>6, OneMoves

LEMMA AnnotateStep ==
  ASSUME LedgerInv, NEW s \in Surface, NEW k \in Topic, Annotate(s, k)
  PROVE  LedgerInv' /\ Keeps
<1> DEFINE r   == Noted(k)
           new == [i \in last + 1 .. last + 1 |-> r]
<1>0. TableInv /\ row \in [Id -> Row] /\ last \in Nat /\ last + 1 \in Id /\ last + 1 <= MaxRows
  BY DEF Annotate, LedgerInv, TableInv, RowTypes
<1>1. r \in Row /\ r.status = "decided" /\ r.key = k /\ r.chosen = Note /\ r.parent = 0 /\ r.super = 0
  <2>1. k \in Key
    OBVIOUS
  <2> QED
    BY <2>1, RowRecorded
<1>2. k \in Key /\ Note \in Menu(k) /\ Note # None
  BY DEF Menu
<1>3. /\ row' = [row EXCEPT ![last + 1] = r] /\ last' = last + 1
      /\ UNCHANGED <<cls, present, hint, op, todo>> /\ Watched(s, byHand)
      /\ Insertable(k, None)
  BY DEF Annotate, Noted
<1> HIDE DEF r
<1>4. row' = [i \in Id |-> IF i \in last + 1 .. last + 1 THEN new[i] ELSE row[i]]
  <2>1. \A i \in Id : i \in last + 1 .. last + 1 <=> i = last + 1
    BY <1>0
  <2>2. \A i \in last + 1 .. last + 1 : new[i] = r
    OBVIOUS
  <2>3. [row EXCEPT ![last + 1] = r] = [i \in Id |-> IF i = last + 1 THEN r ELSE row[i]]
    BY <1>0
  <2> HIDE DEF new
  <2>4. \A i \in Id : (IF i = last + 1 THEN r ELSE row[i])
                    = (IF i \in last + 1 .. last + 1 THEN new[i] ELSE row[i])
    BY <2>1, <2>2
  <2> QED
    BY <1>3, <2>3, <2>4, Zenon
<1>5. \A j \in Id : row[j].key = k => row[j].status # "open"
  BY <1>3 DEF Insertable
<1>6. TableInv' /\ Keeps
  <2>1. new \in [last + 1 .. last + 1 -> Row] /\ 1 \in Nat
    BY <1>1
  <2>2. \A i \in last + 1 .. last + 1 : new[i] = r
    OBVIOUS
  <2> HIDE DEF new
  <2>3. \A i \in last + 1 .. last + 1 :
           /\ new[i].status = "decided" /\ new[i].key \in Key
           /\ new[i].chosen \in Menu(new[i].key) /\ new[i].chosen # None
           /\ new[i].parent = 0 /\ new[i].super = 0
           /\ \A j \in Id : row[j].key = new[i].key => row[j].status # "open"
    <3> SUFFICES ASSUME NEW i \in last + 1 .. last + 1, new[i] = r
                 PROVE  /\ new[i].status = "decided" /\ new[i].key \in Key
                        /\ new[i].chosen \in Menu(new[i].key) /\ new[i].chosen # None
                        /\ new[i].parent = 0 /\ new[i].super = 0
                        /\ \A j \in Id : row[j].key = new[i].key => row[j].status # "open"
      BY <2>2
    <3> QED
      BY <1>1, <1>2, <1>5
  <2> QED
    BY <1>0, <1>3, <1>4, <2>1, <2>3, ImportEdit
<1>7. byHand \in SUBSET Folder
  BY DEF LedgerInv, SurfaceInv, SurfaceTypes
<1> QED
  BY <1>3, <1>6, <1>7, TableStep

LEMMA DismissStep ==
  ASSUME LedgerInv, NEW s \in Surface, NEW i \in Id, Dismiss(s, i)
  PROVE  LedgerInv' /\ Keeps
<1>1. TableInv' /\ Keeps
  BY CloseEdit DEF Dismiss, LedgerInv
<1>2. byHand \in SUBSET Folder
  BY DEF LedgerInv, SurfaceInv, SurfaceTypes
<1> QED
  BY <1>1, <1>2, TableStep DEF Dismiss

LEMMA ExpireStep ==
  ASSUME LedgerInv, NEW s \in Surface, Expire(s)
  PROVE  LedgerInv' /\ Keeps
<1>0. op[s].id \in Id
  BY DEF Expire, LedgerInv, SurfaceInv, OpInv
<1>1. TableInv' /\ Keeps
  BY <1>0, CloseEdit, NoEdit DEF Expire, LedgerInv
<1>2. byHand \in SUBSET Folder
  BY DEF LedgerInv, SurfaceInv, SurfaceTypes
<1> QED
  BY <1>1, <1>2, TableStep DEF Expire

LEMMA CollectStep ==
  ASSUME LedgerInv, NEW s \in Surface, CollectGarbage(s)
  PROVE  LedgerInv' /\ Keeps
<1>1. TableInv' /\ Keeps
  BY GarbageEdit DEF CollectGarbage, LedgerInv
<1>2. byHand \in SUBSET Folder
  BY DEF LedgerInv, SurfaceInv, SurfaceTypes
<1> QED
  BY <1>1, <1>2, TableStep DEF CollectGarbage

LEMMA BackfillEdit ==
  ASSUME LedgerInv, Backfill
  PROVE  TableInv' /\ Keeps
<1> DEFINE old == {g \in Folder : cls[g] # None}
           n   == Cardinality(old)
           N   == last + 1 .. last + n
<1>1. CASE UNCHANGED <<row, last>>
  BY <1>1, NoEdit DEF LedgerInv
<1>2. CASE ~((\E i \in Id : row[i].key \in Folder) \/ old = {})
  <2>1. n \in Nat
    BY FS_Subset, FS_CardinalityType
  <2>2. PICK of \in [N -> old] :
          row' = [i \in Id |-> IF i \in N THEN Imported(of[i], cls[of[i]]) ELSE row[i]]
    BY <1>2 DEF Backfill
  <2> DEFINE new == [i \in N |-> Imported(of[i], cls[of[i]])]
  <2>3. cls \in [Folder -> Answer \cup {None}] /\ TableInv /\ last \in Nat
    BY DEF LedgerInv, SurfaceInv, SurfaceTypes, TableInv, RowTypes
  <2>4. \A i \in N : of[i] \in Folder /\ cls[of[i]] \in Answer
    BY <2>3
  <2>5. \A i \in N : /\ new[i] \in Row /\ new[i].status = "decided" /\ new[i].key = of[i]
                     /\ new[i].chosen = cls[of[i]] /\ new[i].parent = 0 /\ new[i].super = 0
    <3> SUFFICES ASSUME NEW i \in N
                 PROVE  /\ new[i] \in Row /\ new[i].status = "decided" /\ new[i].key = of[i]
                        /\ new[i].chosen = cls[of[i]] /\ new[i].parent = 0 /\ new[i].super = 0
      OBVIOUS
    <3>1. of[i] \in Folder /\ cls[of[i]] \in Answer
      BY <2>4
    <3>2. new[i] = Imported(of[i], cls[of[i]])
      OBVIOUS
    <3> HIDE DEF new
    <3> QED
      BY <3>1, <3>2, ImportedFields
  <2>6. \A i \in N : new[i].key \in Key /\ new[i].chosen \in Menu(new[i].key) /\ new[i].chosen # None
    BY <2>4, <2>5 DEF Menu
  <2>7. \A i \in N : \A j \in Id : row[j].key = new[i].key => row[j].status # "open"
    BY <1>2, <2>4, <2>5
  <2>8. row' = [i \in Id |-> IF i \in N THEN new[i] ELSE row[i]]
    BY <2>2
  <2>9. last + n <= MaxRows /\ last' = last + n
    BY <1>2 DEF Backfill
  <2>10. new \in [N -> Row]
    BY <2>5
  <2> HIDE DEF new, n
  <2> QED
    BY <2>1, <2>3, <2>5, <2>6, <2>7, <2>8, <2>9, <2>10, ImportEdit
<1> QED
  BY <1>1, <1>2 DEF Backfill

LEMMA BeginClassifyStep ==
  ASSUME LedgerInv, NEW s \in Surface, NEW f \in Folder, BeginClassify(s, f)
  PROVE  LedgerInv' /\ Keeps
<1> DEFINE o == ToAsk(f, hint[f], cls[f])
<1>1. TableInv' /\ Keeps
  BY BackfillEdit DEF BeginClassify
<1>2. /\ op' = [op EXCEPT ![s] = o] /\ UNCHANGED <<cls, present, hint, todo>> /\ Watched(s, byHand)
  BY DEF BeginClassify, ToAsk
<1>3. /\ hint[f] \in Category /\ cls[f] \in Answer \cup {None} /\ byHand \in SUBSET Folder
      /\ cls' \in [Folder -> Answer \cup {None}] /\ present' \subseteq Folder
      /\ hint' \in [Folder -> Category]
  BY <1>2 DEF LedgerInv, SurfaceInv, SurfaceTypes
<1>4. o \in Op /\ o.pc = "head" /\ o.key = f /\ o.hash = hint[f]
  BY <1>3, OpToAsk
<1> HIDE DEF o
<1>5. op'[s] = o
  BY <1>2, Moved
<1>6. todo' = [todo EXCEPT ![s] = todo[s]] /\ todo'[s] = todo[s] /\ todo[s] \in SUBSET Id
  BY <1>2, Still
<1>7. OpInv(s)'
  BY <1>3, <1>4, <1>5 DEF OpInv
<1>8. TodoInv(s)'
  BY <1>1, <1>6, ListStays
<1>9. byHand' \subseteq Folder /\ overlapped' \in BOOLEAN
  BY <1>2, <1>3, HistoryTypes
<1> QED
  BY <1>1, <1>2, <1>3, <1>4, <1>6, <1>7, <1>8, <1>9, OneMoves

\* Having read the standing answer i, a surface gives up, asks, or restores i.
LEMMA ReadHeadForm ==
  ASSUME LedgerInv, NEW s \in Surface, ReadHead(s)
  PROVE  \E i \in Id \cup {0}, o \in Op :
           /\ IsLatest(i, op[s].key)
           /\ op' = [op EXCEPT ![s] = o]
           /\ \/ o = Idle
              \/ o.pc = "append" /\ o.key = op[s].key /\ o.value = None /\ o.parent = i
              \/ o.pc = "restore" /\ o.key = op[s].key /\ o.value = None /\ o.parent = i /\ i # 0
<1>0. PICK i \in Id \cup {0} :
        /\ IsLatest(i, op[s].key)
        /\ op' = [op EXCEPT ![s] =
             IF op[s].value = Ignore \/ (op[s].value # None /\ i = 0) THEN Idle
             ELSE IF op[s].value # None
             THEN IF Contradicts(i, s) /\ row[i].hash # op[s].hash
                  THEN [op[s] EXCEPT !.pc = "append", !.parent = i, !.value = None] ELSE Idle
             ELSE [op[s] EXCEPT !.pc = IF i = 0 THEN "append" ELSE "restore", !.parent = i]]
  BY DEF ReadHead
<1>1. op[s] \in Op /\ op[s].key \in Folder
  BY DEF ReadHead, LedgerInv, SurfaceInv, SurfaceTypes, OpInv
<1> DEFINE pc == IF i = 0 THEN "append" ELSE "restore"
           a == ToContradict(op[s], i)
           b == ToRevise(op[s], pc, i)
<1>4. a \in Op /\ a.pc = "append" /\ a.key = op[s].key /\ a.value = None /\ a.parent = i
  BY <1>1, OpContradicts
<1>5. pc \in Pc /\ (pc = "append" \/ (pc = "restore" /\ i # 0))
  BY DEF Pc
<1> HIDE DEF pc
<1>6. b \in Op /\ b.pc = pc /\ b.key = op[s].key /\ b.value = op[s].value /\ b.parent = i
  BY <1>1, <1>5, OpAfterHead
<1>7. \/ op' = [op EXCEPT ![s] = Idle]
      \/ op' = [op EXCEPT ![s] = a]
      \/ op' = [op EXCEPT ![s] = b] /\ op[s].value = None
  <2> HIDE DEF a, b
  <2>1. CASE op[s].value = Ignore \/ (op[s].value # None /\ i = 0)
    BY <1>0, <2>1
  <2>2. CASE ~(op[s].value = Ignore \/ (op[s].value # None /\ i = 0)) /\ op[s].value # None
    <3>1. CASE Contradicts(i, s) /\ row[i].hash # op[s].hash
      BY <1>0, <2>2, <3>1 DEF a, ToContradict
    <3>2. CASE ~(Contradicts(i, s) /\ row[i].hash # op[s].hash)
      BY <1>0, <2>2, <3>2
    <3> QED
      BY <3>1, <3>2
  <2>3. CASE ~(op[s].value = Ignore \/ (op[s].value # None /\ i = 0)) /\ op[s].value = None
    BY <1>0, <2>3 DEF b, pc, ToRevise
  <2> QED
    BY <2>1, <2>2, <2>3
<1> HIDE DEF a, b
<1>8. \E o \in Op :
        /\ op' = [op EXCEPT ![s] = o]
        /\ \/ o = Idle
           \/ o.pc = "append" /\ o.key = op[s].key /\ o.value = None /\ o.parent = i
           \/ o.pc = "restore" /\ o.key = op[s].key /\ o.value = None /\ o.parent = i /\ i # 0
  <2>1. CASE op' = [op EXCEPT ![s] = Idle]
    BY <2>1, IdleFields
  <2>2. CASE op' = [op EXCEPT ![s] = a]
    BY <1>4, <2>2
  <2>3. CASE op' = [op EXCEPT ![s] = b] /\ op[s].value = None
    BY <1>5, <1>6, <2>3
  <2> QED
    BY <1>7, <2>1, <2>2, <2>3
<1> QED
  BY <1>0, <1>8

LEMMA ReadHeadStep ==
  ASSUME LedgerInv, NEW s \in Surface, ReadHead(s)
  PROVE  LedgerInv' /\ Keeps
<1>0. PICK i \in Id \cup {0}, o \in Op :
        /\ IsLatest(i, op[s].key)
        /\ op' = [op EXCEPT ![s] = o]
        /\ \/ o = Idle
           \/ o.pc = "append" /\ o.key = op[s].key /\ o.value = None /\ o.parent = i
           \/ o.pc = "restore" /\ o.key = op[s].key /\ o.value = None /\ o.parent = i /\ i # 0
  BY ReadHeadForm
<1>1. op[s] \in Op /\ op[s].key \in Folder
  BY DEF ReadHead, LedgerInv, SurfaceInv, SurfaceTypes, OpInv
<1>2. i # 0 => row[i].status = "decided" /\ row[i].key = op[s].key
  BY <1>0 DEF IsLatest, IsHead
<1>3. /\ UNCHANGED <<row, last, cls, present, hint, todo>> /\ Watched(s, byHand)
  BY DEF ReadHead
<1>9. op'[s] = o
  BY <1>0, Moved
<1>10. todo' = [todo EXCEPT ![s] = todo[s]] /\ todo'[s] = todo[s] /\ todo[s] \in SUBSET Id
  BY <1>3, Still
<1>11. OpInv(s)'
  <2>1. CASE o = Idle
    BY <1>9, <2>1, IdleFields, HoldsNothing
  <2>2. CASE o # Idle
    BY <1>1, <1>2, <1>3, <1>0, <1>9, <2>2 DEF OpInv
  <2> QED
    BY <2>1, <2>2
<1>12. TodoInv(s)'
  BY <1>3, <1>10 DEF TodoInv, LedgerInv, SurfaceInv
<1>13. cls' \in [Folder -> Answer \cup {None}] /\ byHand \in SUBSET Folder
  BY <1>3 DEF LedgerInv, SurfaceInv, SurfaceTypes
<1> QED
  BY <1>3, <1>0, <1>10, <1>11, <1>12, <1>13, QuietStep

LEMMA RestoreStep ==
  ASSUME LedgerInv, NEW s \in Surface, Restore(s)
  PROVE  LedgerInv' /\ Keeps
<1> DEFINE v == row[op[s].parent].chosen
           a == [op[s] EXCEPT !.pc = "append"]
<1>a. op[s] \in Op /\ op[s].pc = "restore" /\ OpInv(s) /\ TableInv
  BY DEF Restore, LedgerInv, SurfaceInv, SurfaceTypes
<1>1. /\ op[s].key \in Folder /\ op[s].parent \in Id
      /\ row[op[s].parent].status = "decided" /\ row[op[s].parent].key = op[s].key
      /\ op[s].value # None => op[s].value \in Menu(op[s].key)
  BY <1>a, OpFields DEF OpInv
<1>2. v \in Answer
  BY <1>a, <1>1 DEF TableInv, KeyInv, Menu
<1>3. a \in Op /\ a.pc = "append" /\ a.key = op[s].key /\ a.value = op[s].value
      /\ a.parent = op[s].parent
  <2>1. "append" \in Pc
    BY DEF Pc
  <2> QED
    BY <1>a, <2>1, OpAt
<1>4. /\ UNCHANGED <<row, last, present, hint, todo>> /\ cls' = [cls EXCEPT ![op[s].key] = v]
      /\ Watched(s, byHand \ {op[s].key})
      /\ op' = [op EXCEPT ![s] = a] \/ op' = [op EXCEPT ![s] = Idle]
  BY DEF Restore
<1> HIDE DEF a, v
<1>5. PICK o \in {a, Idle} : op' = [op EXCEPT ![s] = o]
  BY <1>4
<1>6. o \in Op /\ op'[s] = o
  BY <1>3, <1>5, IdleFields, Moved
<1>7. todo' = [todo EXCEPT ![s] = todo[s]] /\ todo'[s] = todo[s] /\ todo[s] \in SUBSET Id
  BY <1>4, Still
<1>8. OpInv(s)'
  <2>1. CASE o = a
    BY <1>1, <1>3, <1>4, <1>6, <2>1 DEF OpInv, Menu
  <2>2. CASE o = Idle
    BY <1>6, <2>2, IdleFields, HoldsNothing
  <2> QED
    BY <2>1, <2>2
<1>9. TodoInv(s)'
  BY <1>4, <1>7 DEF TodoInv, LedgerInv, SurfaceInv
<1>10. cls' \in [Folder -> Answer \cup {None}] /\ byHand \ {op[s].key} \in SUBSET Folder
  BY <1>2, <1>4 DEF LedgerInv, SurfaceInv, SurfaceTypes
<1> QED
  BY <1>4, <1>5, <1>6, <1>7, <1>8, <1>9, <1>10, QuietStep

LEMMA BeginRevertStep ==
  ASSUME LedgerInv, NEW s \in Surface, NEW i \in Id, BeginRevert(s, i)
  PROVE  LedgerInv' /\ Keeps
<1>0. PICK p \in Id :
        /\ RevisionOf(i, p)
        /\ op' = [op EXCEPT ![s] =
             [Idle EXCEPT !.pc = "append", !.key = row[i].key, !.hash = row[i].hash,
                          !.menu = row[i].menu, !.parent = p, !.value = row[i].chosen]]
  BY DEF BeginRevert
<1> DEFINE o == [Idle EXCEPT !.pc = "append", !.key = row[i].key, !.hash = row[i].hash,
                             !.menu = row[i].menu, !.parent = p, !.value = row[i].chosen]
<1>1. /\ row[i] \in Row /\ row[i].status = "decided" /\ row[i].key \in Key
      /\ row[i].chosen \in Menu(row[i].key)
  BY DEF BeginRevert, LedgerInv, TableInv, RowTypes, KeyInv
<1>2. row[p].status = "decided" /\ row[p].key = row[i].key
  BY <1>0, <1>1 DEF RevisionOf, IsLatest, IsHead
<1>3. /\ o \in Op /\ o.pc = "append" /\ o.key = row[i].key /\ o.value = row[i].chosen
      /\ o.parent = p
  BY <1>1, OpToRevert
<1>4. op' = [op EXCEPT ![s] = o] /\ UNCHANGED <<row, last, cls, present, hint, todo>> /\ Watched(s, byHand)
  BY <1>0 DEF BeginRevert
<1> HIDE DEF o
<1>5. op'[s] = o
  BY <1>4, Moved
<1>6. todo' = [todo EXCEPT ![s] = todo[s]] /\ todo'[s] = todo[s] /\ todo[s] \in SUBSET Id
  BY <1>4, Still
<1>7. OpInv(s)'
  BY <1>1, <1>2, <1>3, <1>4, <1>5 DEF OpInv, Menu
<1>8. TodoInv(s)'
  BY <1>4, <1>6 DEF TodoInv, LedgerInv, SurfaceInv
<1>9. cls' \in [Folder -> Answer \cup {None}] /\ byHand \in SUBSET Folder
  BY <1>4 DEF LedgerInv, SurfaceInv, SurfaceTypes
<1> QED
  BY <1>3, <1>4, <1>6, <1>7, <1>8, <1>9, QuietStep

LEMMA AppendStep ==
  ASSUME LedgerInv, NEW s \in Surface, Append(s)
  PROVE  LedgerInv' /\ Keeps
<1> DEFINE k == op[s].key
           v == op[s].value
           new == NewRow(k, op[s].hash, op[s].menu, op[s].parent)
<1>a. op[s] \in Op /\ op[s].pc = "append" /\ OpInv(s) /\ TableInv
  BY DEF Append, LedgerInv, SurfaceInv, SurfaceTypes
<1>0. /\ k \in Key /\ op[s].hash \in Category \cup {None} /\ op[s].menu \in BOOLEAN
      /\ op[s].parent \in Id \cup {0} /\ v \in Answer \cup {Note, None}
      /\ v # None => v \in Menu(k)
      /\ op[s].parent # 0 => row[op[s].parent].status = "decided" /\ row[op[s].parent].key = k
  BY <1>a, OpFields DEF OpInv
<1>b. /\ UNCHANGED <<cls, present, hint, todo>> /\ Watched(s, byHand)
      /\ byHand \in SUBSET Folder /\ cls' \in [Folder -> Answer \cup {None}]
      /\ present' \subseteq Folder /\ hint' \in [Folder -> Category]
  BY DEF Append, LedgerInv, SurfaceInv, SurfaceTypes
<1>1. CASE Insertable(k, op[s].hash)
  <2> DEFINE a == ToCommit(last + 1, v)
  <2>1. last < MaxRows /\ last' = last + 1 /\ row' = [row EXCEPT ![last + 1] = new]
    BY <1>1 DEF Append
  <2>2. \/ op' = [op EXCEPT ![s] = Idle]
        \/ op' = [op EXCEPT ![s] = a] /\ v # None
    BY <1>1 DEF Append, ToCommit
  <2>3. last \in Nat /\ last + 1 \in Id /\ row \in [Id -> Row]
    BY <1>a, <2>1 DEF TableInv, RowTypes
  <2>4. new.key = k
    BY <1>0, NewRowFields
  <2>5. a \in Op /\ a.pc = "commit" /\ a.id = last + 1 /\ a.value = v
    BY <1>0, <2>3, OpToCommit
  <2>6. TableInv' /\ Keeps
    BY <1>a, <1>0, <1>1, <2>1, AskEdit
  <2> HIDE DEF a, new, k, v
  <2>7. row'[last + 1].key = k
    BY <2>1, <2>3, <2>4
  <2>8. PICK o \in {a, Idle} : op' = [op EXCEPT ![s] = o] /\ (v # None \/ o = Idle)
    BY <2>2
  <2>9. o \in Op /\ op'[s] = o
    BY <2>5, <2>8, IdleFields, Moved
  <2>10. todo' = [todo EXCEPT ![s] = todo[s]] /\ todo'[s] = todo[s] /\ todo[s] \in SUBSET Id
    BY <1>b, Still
  <2>11. OpInv(s)'
    <3>1. CASE o = Idle
      BY <2>9, <3>1, IdleFields, HoldsNothing
    <3>2. CASE o # Idle
      <4>1. o = a /\ v # None /\ v \in Menu(k)
        BY <1>0, <2>8, <3>2
      <4> QED
        BY <2>1, <2>3, <2>5, <2>7, <2>9, <4>1 DEF OpInv, Menu
    <3> QED
      BY <3>1, <3>2
  <2>12. TodoInv(s)'
    BY <2>6, <2>10, ListStays
  <2>13. byHand' \subseteq Folder /\ overlapped' \in BOOLEAN
    BY <1>b, HistoryTypes
  <2> QED
    BY <1>b, <2>6, <2>8, <2>9, <2>10, <2>11, <2>12, <2>13, OneMoves
<1>2. CASE ~Insertable(k, op[s].hash)
  <2>1. UNCHANGED <<row, last>> /\ op' = [op EXCEPT ![s] = Idle]
    BY <1>2 DEF Append
  <2>2. TableInv' /\ Keeps
    BY <1>a, <2>1, NoEdit
  <2> QED
    BY <1>b, <2>1, <2>2, TableStep
<1> QED
  BY <1>1, <1>2

\* The steps that only read, set a category, or give up.
LEMMA OtherStep ==
  ASSUME LedgerInv, NEW s \in Surface,
         \/ Skip(s) \/ Crash(s)
         \/ \E i \in Id : BeginExpire(s, i)
         \/ \E f \in Folder, v \in Answer \cup {None} : SetByHand(s, f, v)
  PROVE  LedgerInv' /\ Keeps
<1>0. byHand \in SUBSET Folder /\ todo[s] \in SUBSET Id /\ {} \in SUBSET Id /\ op[s] \in Op
      /\ Idle \in Op
  BY IdleFields DEF LedgerInv, SurfaceInv, SurfaceTypes
<1>1. CASE Skip(s)
  <2>1. TableInv' /\ Keeps
    BY <1>1, NoEdit DEF Skip, LedgerInv
  <2> QED
    BY <1>0, <1>1, <2>1, TableStep DEF Skip
<1>2. CASE Crash(s)
  <2>1. TableInv' /\ Keeps
    BY <1>2, NoEdit DEF Crash, LedgerInv
  <2>2. op'[s] = Idle /\ todo'[s] = {}
    BY <1>2 DEF Crash, LedgerInv, SurfaceInv, SurfaceTypes
  <2>3. OpInv(s)' /\ TodoInv(s)'
    BY <2>2, IdleFields, HoldsNothing DEF TodoInv
  <2>4. /\ cls' \in [Folder -> Answer \cup {None}] /\ present' \subseteq Folder
        /\ hint' \in [Folder -> Category] /\ byHand' \subseteq Folder /\ overlapped' \in BOOLEAN
    BY <1>2 DEF Crash, LedgerInv, SurfaceInv, SurfaceTypes
  <2> QED
    BY <1>0, <1>2, <2>1, <2>3, <2>4, OneMoves DEF Crash
<1>3. ASSUME NEW i \in Id, BeginExpire(s, i) PROVE LedgerInv' /\ Keeps
  <2> DEFINE o == [Idle EXCEPT !.pc = "expire", !.id = i]
  <2>1. op' = [op EXCEPT ![s] = o] /\ UNCHANGED <<row, last, cls, present, hint, todo>> /\ Watched(s, byHand)
    BY <1>3 DEF BeginExpire
  <2>2. o \in Op /\ o.pc = "expire" /\ o.id = i
    BY OpOnRow DEF Pc
  <2> HIDE DEF o
  <2>3. op'[s] = o
    BY <2>1, Moved
  <2>4. todo' = [todo EXCEPT ![s] = todo[s]] /\ todo'[s] = todo[s]
    BY <2>1, Still
  <2>5. OpInv(s)'
    BY <2>2, <2>3 DEF OpInv
  <2>6. TodoInv(s)'
    BY <2>1, <2>4 DEF TodoInv, LedgerInv, SurfaceInv
  <2>7. cls' \in [Folder -> Answer \cup {None}]
    BY <2>1 DEF LedgerInv, SurfaceInv, SurfaceTypes
  <2> QED
    BY <1>0, <2>1, <2>2, <2>4, <2>5, <2>6, <2>7, QuietStep
<1>4. ASSUME NEW f \in Folder, NEW v \in Answer \cup {None}, SetByHand(s, f, v)
      PROVE  LedgerInv' /\ Keeps
  <2>1. /\ op' = [op EXCEPT ![s] = op[s]] /\ todo' = [todo EXCEPT ![s] = todo[s]]
        /\ op'[s] = op[s] /\ todo'[s] = todo[s]
    BY <1>4 DEF SetByHand, LedgerInv, SurfaceInv, SurfaceTypes
  <2>2. OpInv(s)' /\ TodoInv(s)'
    BY <1>4, <2>1 DEF OpInv, TodoInv, SetByHand, LedgerInv, SurfaceInv
  <2>3. cls' \in [Folder -> Answer \cup {None}] /\ byHand \cup {f} \in SUBSET Folder
    BY <1>0, <1>4 DEF SetByHand, LedgerInv, SurfaceInv, SurfaceTypes
  <2> QED
    BY <1>0, <1>4, <2>1, <2>2, <2>3, QuietStep DEF SetByHand
<1> QED
  BY <1>1, <1>2, <1>3, <1>4

LEMMA SurfaceStep ==
  ASSUME LedgerInv, NEW s \in Surface, Step(s)
  PROVE  LedgerInv' /\ Keeps
<1>1. ASSUME NEW i \in Id, NEW v \in Answer \cup {Note}, BeginAnswer(s, i, v)
      PROVE  LedgerInv' /\ Keeps
  BY <1>1, BeginAnswerStep
<1>2. ASSUME NEW F \in SUBSET Folder, NEW v \in Answer, CommitBatch(s, F, v)
      PROVE  LedgerInv' /\ Keeps
  BY <1>2, CommitBatchStep
<1>3. CASE Commit(s) \/ Repair(s) \/ Project(s) \/ Stamp(s)
  BY <1>3, CommitStep, RepairStep, ProjectStep, StampStep
<1>4. CASE (\E k \in Topic : Annotate(s, k)) \/ (\E f \in Folder : BeginClassify(s, f))
  BY <1>4, AnnotateStep, BeginClassifyStep
<1>5. CASE ReadHead(s) \/ Restore(s) \/ Append(s) \/ Expire(s) \/ CollectGarbage(s)
  BY <1>5, ReadHeadStep, RestoreStep, AppendStep, ExpireStep, CollectStep
<1>6. CASE \E i \in Id : BeginRevert(s, i) \/ Dismiss(s, i)
  BY <1>6, BeginRevertStep, DismissStep
<1>7. CASE \/ Skip(s) \/ Crash(s)
           \/ \E i \in Id : BeginExpire(s, i)
           \/ \E f \in Folder, v \in Answer \cup {None} : SetByHand(s, f, v)
  BY <1>7, OtherStep
<1> QED
  BY <1>1, <1>2, <1>3, <1>4, <1>5, <1>6, <1>7 DEF Step

LEMMA NextStep == LedgerInv /\ [Next]_vars => LedgerInv' /\ Keeps
<1> SUFFICES ASSUME LedgerInv, [Next]_vars PROVE LedgerInv' /\ Keeps
  OBVIOUS
<1>1. ASSUME NEW s \in Surface, Step(s) PROVE LedgerInv' /\ Keeps
  BY <1>1, SurfaceStep
<1>2. CASE \/ UNCHANGED vars
           \/ \E f \in Folder : Leave(f) \/ Return(f) \/ Shift(f)
  <2>1. UNCHANGED <<row, last, op, todo>>
    BY <1>2 DEF vars, Leave, Return, Shift
  <2>2. TableInv' /\ Keeps
    BY <2>1, NoEdit DEF LedgerInv
  <2>3. SurfaceTypes'
    BY <1>2 DEF vars, Leave, Return, Shift, LedgerInv, SurfaceInv, SurfaceTypes
  <2>4. \A s \in Surface : OpInv(s)' /\ TodoInv(s)'
    BY <2>1, <2>2, Bystander
  <2> QED
    BY <2>2, <2>3, <2>4 DEF LedgerInv, SurfaceInv
<1> QED
  BY <1>1, <1>2 DEF Next

LEMMA InitInv == Init => LedgerInv
<1> SUFFICES ASSUME Init PROVE LedgerInv
  OBVIOUS
<1>0. \A i \in Id : row[i] = NoRow
  BY DEF Init
<1>1. RowTypes
  BY NoRowFields DEF Init, RowTypes
<1>2. KeyInv /\ InboxIsQuiet /\ ChainIsWhole
  BY <1>0, NoRowFields DEF KeyInv, InboxIsQuiet, ChainIsWhole
<1>3. SurfaceTypes
  BY IdleFields DEF Init, SurfaceTypes
<1>4. \A s \in Surface : op[s] = Idle /\ todo[s] = {}
  BY DEF Init
<1>5. \A s \in Surface : OpInv(s) /\ TodoInv(s)
  BY <1>4, IdleFields DEF OpInv, TodoInv
<1> QED
  BY <1>1, <1>2, <1>3, <1>5 DEF LedgerInv, TableInv, SurfaceInv

LEMMA LedgerInvHolds == Spec => []LedgerInv
BY InitInv, NextStep, PTL DEF Spec

-----------------------------------------------------------------------------
(* The standing answer rules.                                               *)

\* A folder has one standing answer at most; an open question has no receipt, and if it
\* is about a folder it revises the standing answer.
OneHead == \A f \in Folder : \A i, j \in Id : IsHead(i, f) /\ IsHead(j, f) => i = j
OpenRows ==
  \A i \in Id : row[i].status = "open" =>
    /\ ~row[i].applied
    /\ \A f \in Folder, j \in Id : row[i].key = f /\ IsHead(j, f) => j = row[i].parent

\* A classification that no hand has set is the standing answer, or that is still to be
\* projected; in contrast to StandingAnswerRules, also while a surface is at work.
Rules(f) ==
  cls[f] # None /\ f \notin byHand =>
    \E i \in Id : IsHead(i, f) /\ (cls[f] = row[i].chosen \/ ~row[i].applied)

\* What a surface that is alone holds between two of its steps: it lists standing
\* answers only, revises no other, and has projected what it is about to stamp.
InHand(s) ==
  /\ todo[s] # {} => op[s].pc \in {"project", "stamp"}
  /\ \A i \in todo[s], f \in Folder : row[i].key = f => IsHead(i, f)
  /\ op[s].pc \in {"restore", "append"} =>
       \A f \in Folder, j \in Id : op[s].key = f /\ IsHead(j, f) => j = op[s].parent
  /\ op[s].pc = "restore" => \A f \in Folder : op[s].key = f => IsHead(op[s].parent, f)
  /\ op[s].pc = "stamp" =>
       /\ op[s].id \in todo[s]
       /\ \A f \in Folder : row[op[s].id].key = f /\ cls[f] # None => cls[f] = row[op[s].id].chosen

OneAtATime == \A s, t \in Surface : Busy(s) /\ Busy(t) => s = t

Standing == OneHead /\ OpenRows /\ \A f \in Folder : Rules(f)
RulesInv == ~overlapped => OneAtATime /\ Standing /\ \A s \in Surface : InHand(s)

LEMMA OpenStands ==
  ASSUME TableInv, NEW i \in Id, row[i].status = "open"
  PROVE  row[i].super = 0
<1>1. row[i].super \in Id \cup {0}
  BY RowFields DEF TableInv, RowTypes
<1>2. ASSUME row[i].super # 0 PROVE FALSE
  <2>1. PICK n \in Id : n = row[i].super
    BY <1>1, <1>2
  <2>2. row[n].parent = i
    BY <1>2, <2>1 DEF TableInv, ChainIsWhole
  <2>3. row[i].status = "decided"
    BY <2>2 DEF TableInv, ChainIsWhole
  <2> QED
    BY <2>3
<1> QED
  BY <1>2

\* Answers to open questions become the standing ones, and supersede those before.
LEMMA AnswerRules ==
  ASSUME TableInv, Standing, NEW ids \in SUBSET Id, NEW v,
         \A i \in ids : row[i].status = "open",
         NEW by \in [Id -> Id \cup {0}],
         \A j \in Id : by[j] # 0 => by[j] \in ids /\ row[by[j]].parent = j,
         \A j \in Id, i \in ids : row[i].parent = j /\ row[j].super = 0 => by[j] # 0,
         Edited(ids, by, v), UNCHANGED <<cls, byHand>>
  PROVE  Standing' /\ \A i \in ids, f \in Folder : row'[i].key = f => IsHead(i, f)'
<1>1. \A j \in ids : /\ row'[j].status = "decided" /\ row'[j].chosen = v
                     /\ row'[j].key = row[j].key /\ row'[j].parent = row[j].parent
                     /\ row'[j].super = row[j].super
                     /\ row'[j].applied = row[j].applied
  BY DEF Edited
<1>2. \A j \in Id \ ids : /\ row'[j].status = row[j].status /\ row'[j].chosen = row[j].chosen
                          /\ row'[j].key = row[j].key /\ row'[j].parent = row[j].parent
                          /\ row'[j].applied = row[j].applied
                          /\ by[j] = 0 => row'[j] = row[j]
                          /\ by[j] # 0 => row'[j].super = by[j]
  BY Zenon DEF Edited
<1>3. \A i \in ids : row'[i].super = 0 /\ ~row'[i].applied /\ i # 0
  <2> SUFFICES ASSUME NEW i \in ids PROVE row'[i].super = 0 /\ ~row'[i].applied
    OBVIOUS
  <2>1. i \in Id /\ row[i].status = "open"
    OBVIOUS
  <2>2. row[i].super = 0
    BY <2>1, OpenStands
  <2>3. ~row[i].applied
    BY <2>1 DEF Standing, OpenRows
  <2> QED
    BY <1>1, <2>2, <2>3
<1>4. \A i \in ids, f \in Folder : row'[i].key = f => IsHead(i, f)'
  BY <1>1, <1>3 DEF IsHead
<1>5. ASSUME NEW f \in Folder, NEW j \in Id \ ids, IsHead(j, f)'
      PROVE  IsHead(j, f) /\ \A i \in ids : row[i].key # f
  <2>1. by[j] = 0
    BY <1>2, <1>5 DEF IsHead
  <2>2. IsHead(j, f)
    BY <1>2, <1>5, <2>1 DEF IsHead
  <2>3. ASSUME NEW i \in ids, row[i].key = f PROVE FALSE
    <3>1. j = row[i].parent
      BY <2>2, <2>3 DEF Standing, OpenRows
    <3> QED
      BY <2>1, <2>2, <3>1 DEF IsHead
  <2> QED
    BY <2>2, <2>3
<1>6. ASSUME NEW f \in Folder, NEW j \in Id, IsHead(j, f), \A i \in ids : row[i].key # f
      PROVE  IsHead(j, f)' /\ row'[j].chosen = row[j].chosen /\ row'[j].applied = row[j].applied
  <2>1. j \notin ids
    BY <1>6 DEF IsHead
  <2>2. ASSUME by[j] # 0 PROVE FALSE
    <3>1. by[j] \in ids /\ row[by[j]].parent = j /\ j # 0
      BY <2>2
    <3>2. row[j].key = row[by[j]].key
      BY <3>1 DEF TableInv, ChainIsWhole
    <3> QED
      BY <1>6, <3>1, <3>2 DEF IsHead
  <2> QED
    BY <1>2, <1>6, <2>1, <2>2 DEF IsHead
<1>7. OneHead'
  <2> SUFFICES ASSUME NEW f \in Folder, NEW i \in Id, NEW j \in Id, IsHead(i, f)', IsHead(j, f)'
               PROVE  i = j
    BY DEF OneHead
  <2>1. CASE i \in ids /\ j \in ids
    BY <1>1, <2>1 DEF IsHead, TableInv, InboxIsQuiet
  <2>2. CASE i \notin ids /\ j \notin ids
    BY <1>5, <2>2 DEF Standing, OneHead
  <2>3. CASE i \in ids /\ j \notin ids
    BY <1>1, <1>5, <2>3 DEF IsHead
  <2>4. CASE i \notin ids /\ j \in ids
    BY <1>1, <1>5, <2>4 DEF IsHead
  <2> QED
    BY <2>1, <2>2, <2>3, <2>4
<1>8. OpenRows'
  <2> SUFFICES ASSUME NEW i \in Id, row'[i].status = "open"
               PROVE  /\ ~row'[i].applied
                      /\ \A f \in Folder, j \in Id : row'[i].key = f /\ IsHead(j, f)'
                           => j = row'[i].parent
    BY DEF OpenRows
  <2>1. /\ i \notin ids /\ row[i].status = "open" /\ row'[i].key = row[i].key
        /\ row'[i].parent = row[i].parent /\ row'[i].applied = row[i].applied
    BY <1>1, <1>2
  <2>2. ASSUME NEW f \in Folder, NEW j \in Id, row[i].key = f, IsHead(j, f)'
        PROVE  j = row[i].parent
    <3>1. j \notin ids
      BY <1>1, <2>1, <2>2 DEF IsHead, TableInv, InboxIsQuiet
    <3>2. IsHead(j, f)
      BY <1>5, <2>2, <3>1
    <3> QED
      BY <2>1, <2>2, <3>2 DEF Standing, OpenRows
  <2> QED
    BY <2>1, <2>2 DEF Standing, OpenRows
<1>9. ASSUME NEW f \in Folder PROVE Rules(f)'
  <2> SUFFICES ASSUME cls[f] # None, f \notin byHand
               PROVE  \E i \in Id : IsHead(i, f)' /\ (cls[f] = row'[i].chosen \/ ~row'[i].applied)
    BY DEF Rules
  <2>1. CASE \E i \in ids : row[i].key = f
    BY <1>1, <1>3, <1>4, <2>1
  <2>2. CASE \A i \in ids : row[i].key # f
    <3>1. PICK j \in Id : IsHead(j, f) /\ (cls[f] = row[j].chosen \/ ~row[j].applied)
      BY DEF Standing, Rules
    <3> QED
      BY <1>6, <2>2, <3>1
  <2> QED
    BY <2>1, <2>2
<1> QED
  BY <1>4, <1>7, <1>8, <1>9 DEF Standing

\* Edits that leave the standing answers and the classifications alone: a dismissal, an
\* expiry, a collection, a note; and a question that revises the standing answer.
LEMMA EditRules ==
  ASSUME Standing, UNCHANGED <<cls, byHand>>,
         \A f \in Folder, i \in Id :
           /\ IsHead(i, f)' <=> IsHead(i, f)
           /\ IsHead(i, f) => row'[i] = row[i],
         \A i \in Id : row'[i].status = "open" /\ row'[i] # row[i] =>
           /\ ~row'[i].applied
           /\ \A f \in Folder, j \in Id : row'[i].key = f /\ IsHead(j, f) => j = row'[i].parent
  PROVE  Standing'
<1>1. OneHead'
  BY DEF Standing, OneHead
<1>2. OpenRows'
  <2> SUFFICES ASSUME NEW i \in Id, row'[i].status = "open"
               PROVE  /\ ~row'[i].applied
                      /\ \A f \in Folder, j \in Id : row'[i].key = f /\ IsHead(j, f)'
                           => j = row'[i].parent
    BY DEF OpenRows
  <2> QED
    BY DEF Standing, OpenRows
<1>3. ASSUME NEW f \in Folder PROVE Rules(f)'
  <2> SUFFICES ASSUME cls[f] # None, f \notin byHand
               PROVE  \E i \in Id : IsHead(i, f)' /\ (cls[f] = row'[i].chosen \/ ~row'[i].applied)
    BY DEF Rules
  <2> QED
    BY DEF Standing, Rules
<1> QED
  BY <1>1, <1>2, <1>3 DEF Standing

LEMMA NewRowUnstamped ==
  ASSUME NEW k, NEW hash, NEW menu, NEW p
  PROVE  ~NewRow(k, hash, menu, p).applied
BY DEF NoRow, NewRow

\* While no surfaces overlap, the one that moves is alone.
LEMMA Before ==
  ASSUME RulesInv, NEW s \in Surface, NEW hand, Watched(s, hand), ~overlapped'
  PROVE  /\ Standing /\ InHand(s) /\ byHand' = hand
         /\ \A t \in Surface \ {s} : ~Busy(t) /\ InHand(t)
BY DEF RulesInv, Watched

LEMMA EmptyHand ==
  ASSUME NEW s \in Surface, InHand(s), op[s].pc \notin {"project", "stamp"}
  PROVE  todo[s] = {}
BY DEF InHand

\* So if it leaves the standing answers sound, and what it holds, all is sound.
LEMMA Alone ==
  ASSUME LedgerInv, RulesInv, NEW s \in Surface, NEW hand, Watched(s, hand), ~overlapped',
         \A t \in Surface \ {s} : op'[t] = op[t] /\ todo'[t] = todo[t],
         Standing', InHand(s)'
  PROVE  RulesInv'
<1>1. ASSUME NEW t \in Surface \ {s} PROVE ~Busy(t)' /\ InHand(t)'
  <2>1. ~Busy(t) /\ InHand(t)
    BY Before
  <2>2. op[t].pc = "idle" /\ todo[t] = {}
    BY <2>1, EmptyHand DEF Busy
  <2>3. op'[t].pc = "idle" /\ todo'[t] = {}
    BY <2>2
  <2> QED
    BY <2>3 DEF Busy, InHand
<1>2. OneAtATime'
  BY <1>1 DEF OneAtATime
<1> QED
  BY <1>1, <1>2 DEF RulesInv

LEMMA OthersRest ==
  ASSUME LedgerInv, NEW s \in Surface
  PROVE  /\ \A o : op' = [op EXCEPT ![s] = o] =>
              op'[s] = o /\ \A t \in Surface \ {s} : op'[t] = op[t]
         /\ \A S : todo' = [todo EXCEPT ![s] = S] =>
              todo'[s] = S /\ \A t \in Surface \ {s} : todo'[t] = todo[t]
BY DEF LedgerInv, SurfaceInv, SurfaceTypes

\* A surface with nothing listed, that is not about to revise, holds nothing.
LEMMA HoldsNoAnswer ==
  ASSUME NEW s \in Surface, todo'[s] = {},
         op'[s].pc \in {"idle", "commit", "head", "expire", "project"}
  PROVE  InHand(s)'
BY DEF InHand

LEMMA SameStanding ==
  ASSUME Standing, UNCHANGED <<row, cls, byHand>>
  PROVE  Standing'
BY DEF Standing, OneHead, OpenRows, Rules, IsHead

\* The steps that change neither the table nor a classification.
LEMMA QuietRules ==
  ASSUME LedgerInv, RulesInv, NEW s \in Surface, UNCHANGED <<row, cls>>,
         \A t \in Surface \ {s} : op'[t] = op[t] /\ todo'[t] = todo[t],
         Watched(s, byHand), ~overlapped', InHand(s)'
  PROVE  RulesInv'
<1>1. Standing /\ byHand' = byHand
  BY Before
<1>2. Standing'
  BY <1>1, SameStanding
<1> QED
  BY <1>2, Alone

\* Looking at a row, or giving up, before anything is written.
LEMMA GivesUpOrLooks ==
  ASSUME LedgerInv, RulesInv, NEW s \in Surface, UNCHANGED <<row, cls, todo>>,
         Watched(s, byHand), op[s].pc \notin {"project", "stamp"},
         NEW o, op' = [op EXCEPT ![s] = o], o.pc \in {"idle", "commit", "head", "expire"},
         ~overlapped'
  PROVE  RulesInv'
<1>1. InHand(s)
  BY Before
<1>2. todo[s] = {}
  BY <1>1, EmptyHand
<1>3. op'[s] = o /\ todo'[s] = {} /\ \A t \in Surface \ {s} : op'[t] = op[t] /\ todo'[t] = todo[t]
  BY <1>2, OthersRest
<1>4. InHand(s)'
  BY <1>3, HoldsNoAnswer
<1> QED
  BY <1>3, <1>4, QuietRules

LEMMA BeginRules ==
  ASSUME LedgerInv, RulesInv, NEW s \in Surface,
         \/ \E i \in Id, v \in Answer \cup {Note} : BeginAnswer(s, i, v)
         \/ \E i \in Id : BeginExpire(s, i)
         \/ Skip(s)
  PROVE  RulesInv'
<1> SUFFICES ASSUME ~overlapped' PROVE RulesInv'
  BY DEF RulesInv
<1>1. ASSUME NEW i \in Id, NEW v \in Answer \cup {Note}, BeginAnswer(s, i, v) PROVE RulesInv'
  <2> DEFINE o == ToCommit(i, v)
  <2>1. op' = [op EXCEPT ![s] = o] /\ UNCHANGED <<row, cls, todo>> /\ Watched(s, byHand)
        /\ op[s].pc = "idle"
    BY <1>1 DEF BeginAnswer, Busy, ToCommit
  <2>2. o.pc = "commit"
    BY OpToCommit
  <2> HIDE DEF o
  <2> QED
    BY <2>1, <2>2, GivesUpOrLooks
<1>2. ASSUME NEW i \in Id, BeginExpire(s, i) PROVE RulesInv'
  <2> DEFINE o == [Idle EXCEPT !.pc = "expire", !.id = i]
  <2>1. op' = [op EXCEPT ![s] = o] /\ UNCHANGED <<row, cls, todo>> /\ Watched(s, byHand)
        /\ op[s].pc = "idle"
    BY <1>2 DEF BeginExpire, Busy
  <2>2. o.pc = "expire"
    BY OpOnRow DEF Pc
  <2> HIDE DEF o
  <2> QED
    BY <2>1, <2>2, GivesUpOrLooks
<1>3. CASE Skip(s)
  BY <1>3, IdleFields, GivesUpOrLooks DEF Skip
<1> QED
  BY <1>1, <1>2, <1>3

LEMMA RepairRules ==
  ASSUME LedgerInv, RulesInv, NEW s \in Surface, Repair(s)
  PROVE  RulesInv'
<1> SUFFICES ASSUME ~overlapped' PROVE RulesInv'
  BY DEF RulesInv
<1> DEFINE o == [Idle EXCEPT !.pc = "project"]
<1>1. /\ UNCHANGED <<row, cls>> /\ Watched(s, byHand) /\ op' = [op EXCEPT ![s] = o]
      /\ todo' = [todo EXCEPT ![s] = Unapplied] /\ o.pc = "project"
  BY DEF Repair, Idle
<1> HIDE DEF o
<1>2. op'[s].pc = "project" /\ todo'[s] = Unapplied
  BY <1>1, OthersRest
<1>3. \A i \in todo'[s], f \in Folder : row'[i].key = f => IsHead(i, f)'
  BY <1>1, <1>2 DEF IsHead, Unapplied
<1>4. InHand(s)'
  BY <1>2, <1>3 DEF InHand
<1> QED
  BY <1>1, <1>4, OthersRest, QuietRules

LEMMA ReadHeadRules ==
  ASSUME LedgerInv, RulesInv, NEW s \in Surface, ReadHead(s)
  PROVE  RulesInv'
<1> SUFFICES ASSUME ~overlapped' PROVE RulesInv'
  BY DEF RulesInv
<1>1. /\ UNCHANGED <<row, cls, todo>> /\ Watched(s, byHand) /\ op[s].pc = "head"
  BY DEF ReadHead
<1>2. PICK i \in Id \cup {0}, o \in Op :
        /\ IsLatest(i, op[s].key)
        /\ op' = [op EXCEPT ![s] = o]
        /\ \/ o = Idle
           \/ o.pc = "append" /\ o.key = op[s].key /\ o.value = None /\ o.parent = i
           \/ o.pc = "restore" /\ o.key = op[s].key /\ o.value = None /\ o.parent = i /\ i # 0
  BY ReadHeadForm
<1>3. Standing /\ InHand(s)
  BY <1>1, Before
<1>4. todo[s] = {}
  BY <1>1, <1>3, EmptyHand
<1>5. op'[s] = o /\ todo'[s] = {} /\ \A t \in Surface \ {s} : op'[t] = op[t] /\ todo'[t] = todo[t]
  BY <1>1, <1>2, <1>4, OthersRest
<1>6. CASE o = Idle
  BY <1>1, <1>5, <1>6, IdleFields, HoldsNoAnswer, QuietRules
<1>7. CASE o # Idle
  <2>1. ASSUME NEW f \in Folder, NEW j \in Id, o.key = f, IsHead(j, f) PROVE j = i
    BY <1>2, <1>3, <1>7, <2>1 DEF IsLatest, Standing, OneHead
  <2>2. \A f \in Folder, j \in Id : IsHead(j, f)' <=> IsHead(j, f)
    BY <1>1 DEF IsHead
  <2>3. o.pc = "restore" => \A f \in Folder : o.key = f => i \in Id /\ IsHead(i, f)
    BY <1>2, <1>7, IdleFields DEF IsLatest
  <2>4. InHand(s)'
    BY <1>2, <1>5, <1>7, <2>1, <2>2, <2>3 DEF InHand
  <2> QED
    BY <1>1, <1>5, <2>4, QuietRules
<1> QED
  BY <1>6, <1>7

LEMMA BeginRevertRules ==
  ASSUME LedgerInv, RulesInv, NEW s \in Surface, NEW i \in Id, BeginRevert(s, i)
  PROVE  RulesInv'
<1> SUFFICES ASSUME ~overlapped' PROVE RulesInv'
  BY DEF RulesInv
<1>0. PICK p \in Id :
        /\ RevisionOf(i, p)
        /\ op' = [op EXCEPT ![s] =
             [Idle EXCEPT !.pc = "append", !.key = row[i].key, !.hash = row[i].hash,
                          !.menu = row[i].menu, !.parent = p, !.value = row[i].chosen]]
  BY DEF BeginRevert
<1> DEFINE o == [Idle EXCEPT !.pc = "append", !.key = row[i].key, !.hash = row[i].hash,
                             !.menu = row[i].menu, !.parent = p, !.value = row[i].chosen]
<1>1. row[i] \in Row /\ row[i].key \in Key
  BY DEF BeginRevert, LedgerInv, TableInv, RowTypes, KeyInv
<1>2. o.pc = "append" /\ o.key = row[i].key /\ o.parent = p
  BY <1>1, OpToRevert
<1>3. UNCHANGED <<row, cls, todo>> /\ Watched(s, byHand) /\ op[s].pc = "idle"
      /\ op' = [op EXCEPT ![s] = o]
  BY <1>0 DEF BeginRevert, Busy
<1> HIDE DEF o
<1>4. Standing /\ InHand(s)
  BY <1>3, Before
<1>5. todo[s] = {}
  BY <1>3, <1>4, EmptyHand
<1>6. op'[s] = o /\ todo'[s] = {} /\ \A t \in Surface \ {s} : op'[t] = op[t] /\ todo'[t] = todo[t]
  BY <1>3, <1>5, OthersRest
<1>7. ASSUME NEW f \in Folder, NEW j \in Id, row[i].key = f, IsHead(j, f) PROVE j = p
  BY <1>0, <1>4, <1>7 DEF RevisionOf, IsLatest, Standing, OneHead
<1>8. \A f \in Folder, j \in Id : IsHead(j, f)' <=> IsHead(j, f)
  BY <1>3 DEF IsHead
<1>9. InHand(s)'
  BY <1>2, <1>3, <1>6, <1>7, <1>8 DEF InHand
<1> QED
  BY <1>3, <1>6, <1>9, QuietRules

LEMMA CommitRules ==
  ASSUME LedgerInv, RulesInv, NEW s \in Surface, Commit(s)
  PROVE  RulesInv'
<1> SUFFICES ASSUME ~overlapped' PROVE RulesInv'
  BY DEF RulesInv
<1> DEFINE i == op[s].id
           v == op[s].value
<1>1. /\ TableInv /\ i \in Id /\ v \in Answer \cup {Note} /\ Watched(s, byHand) /\ cls' = cls
      /\ op[s].pc = "commit"
  <2>1. op[s] \in Op /\ op[s].pc = "commit" /\ OpInv(s)
    BY DEF Commit, LedgerInv, SurfaceInv, SurfaceTypes
  <2> QED
    BY <2>1, OpFields DEF OpInv, Commit, LedgerInv
<1>2. Standing /\ InHand(s) /\ byHand' = byHand
  BY <1>1, Before
<1>3. todo[s] = {}
  BY <1>1, <1>2, EmptyHand
<1>4. CASE row[i].status = "open"
  <2> DEFINE o == [Idle EXCEPT !.pc = "project"]
  <2>1. /\ row' = Decided(i, v) /\ op' = [op EXCEPT ![s] = o] /\ todo' = [todo EXCEPT ![s] = {i}]
        /\ o.pc = "project"
    BY <1>4 DEF Commit, Idle
  <2> HIDE DEF i, v, o
  <2>2. PICK by \in [Id -> Id \cup {0}] : Revised({i}, by) /\ Edited({i}, by, v)
    BY <1>1, <2>1, CommitForm
  <2>3. {i} \in SUBSET Id /\ \A j \in {i} : row[j].status = "open"
    BY <1>1, <1>4
  <2>4. Standing' /\ \A j \in {i}, f \in Folder : row'[j].key = f => IsHead(j, f)'
    BY <1>1, <1>2, <2>2, <2>3, AnswerRules DEF Revised
  <2>5. op'[s].pc = "project" /\ todo'[s] = {i}
    BY <2>1, OthersRest
  <2>6. InHand(s)'
    BY <2>4, <2>5 DEF InHand
  <2> QED
    BY <1>1, <2>1, <2>4, <2>6, OthersRest, Alone
<1>5. CASE row[i].status # "open"
  <2>1. op' = [op EXCEPT ![s] = Idle] /\ UNCHANGED <<row, todo>>
    BY <1>5 DEF Commit
  <2>2. InHand(s)'
    BY <1>3, <2>1, OthersRest, IdleFields, HoldsNoAnswer
  <2> QED
    BY <1>1, <2>1, <2>2, OthersRest, QuietRules
<1> QED
  BY <1>4, <1>5

LEMMA CommitBatchRules ==
  ASSUME LedgerInv, RulesInv, NEW s \in Surface, NEW F \in SUBSET Folder, NEW v \in Answer,
         CommitBatch(s, F, v)
  PROVE  RulesInv'
<1> SUFFICES ASSUME ~overlapped' PROVE RulesInv'
  BY DEF RulesInv
<1> DEFINE ids == AskedUnder(F)
           o   == [Idle EXCEPT !.pc = "project"]
<1>1. ids \in SUBSET Id /\ \A i \in ids : row[i].status = "open"
  BY DEF AskedUnder
<1>2. /\ op' = [op EXCEPT ![s] = o] /\ todo' = [todo EXCEPT ![s] = ids] /\ o.pc = "project"
      /\ cls' = cls /\ Watched(s, byHand) /\ TableInv
  BY DEF CommitBatch, AskedUnder, Idle, LedgerInv
<1> HIDE DEF ids, o
<1>3. PICK by \in [Id -> Id \cup {0}] : Revised(ids, by) /\ Edited(ids, by, v)
  BY <1>2, CommitBatchForm DEF ids
<1>4. Standing /\ byHand' = byHand
  BY <1>2, Before
<1>5. Standing' /\ \A i \in ids, f \in Folder : row'[i].key = f => IsHead(i, f)'
  BY <1>1, <1>2, <1>3, <1>4, AnswerRules DEF Revised
<1>6. op'[s].pc = "project" /\ todo'[s] = ids
  BY <1>2, OthersRest
<1>7. InHand(s)'
  BY <1>5, <1>6 DEF InHand
<1> QED
  BY <1>2, <1>5, <1>7, OthersRest, Alone

\* A standing answer that is projected, or put back.
LEMMA ProjectedRules ==
  ASSUME LedgerInv, Standing, UNCHANGED row, NEW i \in Id,
         \A f \in Folder : row[i].key = f => IsHead(i, f),
         cls' = [f \in Folder |-> IF f = row[i].key THEN row[i].chosen ELSE cls[f]],
         byHand' = byHand \ {row[i].key}
  PROVE  Standing'
<1>1. OneHead' /\ OpenRows'
  BY DEF Standing, OneHead, OpenRows, IsHead
<1>2. ASSUME NEW f \in Folder PROVE Rules(f)'
  <2>1. CASE f = row[i].key
    <3>1. IsHead(i, f)' /\ cls'[f] = row'[i].chosen
      BY <2>1 DEF IsHead
    <3> QED
      BY <3>1 DEF Rules
  <2>2. CASE f # row[i].key
    <3>1. cls'[f] = cls[f] /\ (f \in byHand' <=> f \in byHand)
      BY <2>2
    <3>2. Rules(f)
      BY DEF Standing
    <3> QED
      BY <3>1, <3>2 DEF Rules, IsHead
  <2> QED
    BY <2>1, <2>2
<1> QED
  BY <1>1, <1>2 DEF Standing

LEMMA ProjectRules ==
  ASSUME LedgerInv, RulesInv, NEW s \in Surface, Project(s)
  PROVE  RulesInv'
<1> SUFFICES ASSUME ~overlapped' PROVE RulesInv'
  BY DEF RulesInv
<1>0. PICK i \in todo[s] :
        /\ cls' = [f \in Folder |-> IF f = row[i].key THEN row[i].chosen ELSE cls[f]]
        /\ op' = [op EXCEPT ![s] = [Idle EXCEPT !.pc = "stamp", !.id = i]]
        /\ UNCHANGED <<row, last, present, hint, todo>>
        /\ Watched(s, byHand \ {row[i].key})
  BY DEF Project
<1> DEFINE o == [Idle EXCEPT !.pc = "stamp", !.id = i]
<1>1. i \in Id
  BY DEF LedgerInv, SurfaceInv, SurfaceTypes
<1>2. o.pc = "stamp" /\ o.id = i
  BY <1>1, OpOnRow DEF Pc
<1>3. op' = [op EXCEPT ![s] = o]
  BY <1>0
<1> HIDE DEF o
<1>4. Standing /\ InHand(s) /\ byHand' = byHand \ {row[i].key}
  BY <1>0, Before
<1>5. \A j \in todo[s], f \in Folder : row[j].key = f => IsHead(j, f)
  BY <1>4 DEF InHand
<1>6. Standing'
  BY <1>0, <1>1, <1>4, <1>5, ProjectedRules
<1>7. op'[s] = o /\ todo'[s] = todo[s] /\ \A t \in Surface \ {s} : op'[t] = op[t] /\ todo'[t] = todo[t]
  BY <1>0, <1>3, OthersRest
<1>8. \A f \in Folder : row'[i].key = f => cls'[f] = row'[i].chosen
  BY <1>0
<1>9. \A j \in todo'[s], f \in Folder : row'[j].key = f => IsHead(j, f)'
  BY <1>0, <1>5 DEF IsHead
<1>10. InHand(s)'
  BY <1>2, <1>7, <1>8, <1>9 DEF InHand
<1> QED
  BY <1>0, <1>6, <1>7, <1>10, Alone

LEMMA RestoreRules ==
  ASSUME LedgerInv, RulesInv, NEW s \in Surface, Restore(s)
  PROVE  RulesInv'
<1> SUFFICES ASSUME ~overlapped' PROVE RulesInv'
  BY DEF RulesInv
<1> DEFINE p == op[s].parent
           a == [op[s] EXCEPT !.pc = "append"]
<1>a. op[s] \in Op /\ op[s].pc = "restore" /\ OpInv(s) /\ TableInv
  BY DEF Restore, LedgerInv, SurfaceInv, SurfaceTypes
<1>1. op[s].key \in Folder /\ p \in Id /\ row[p].key = op[s].key
  BY <1>a, OpFields DEF OpInv
<1>2. a.pc = "append" /\ a.key = op[s].key /\ a.parent = p
  <2>1. "append" \in Pc
    BY DEF Pc
  <2> QED
    BY <1>a, <2>1, OpAt
<1>3. /\ UNCHANGED <<row, todo>> /\ cls' = [cls EXCEPT ![op[s].key] = row[p].chosen]
      /\ Watched(s, byHand \ {op[s].key})
      /\ op' = [op EXCEPT ![s] = a] \/ op' = [op EXCEPT ![s] = Idle]
  BY DEF Restore
<1> HIDE DEF a, p
<1>4. PICK o \in {a, Idle} : op' = [op EXCEPT ![s] = o]
  BY <1>3
<1>5. Standing /\ InHand(s) /\ byHand' = byHand \ {op[s].key}
  BY <1>3, Before
<1>6. todo[s] = {}
  BY <1>a, <1>5, EmptyHand
<1>7. \A f \in Folder : row[p].key = f => IsHead(p, f)
  BY <1>a, <1>1, <1>5 DEF InHand, p
<1>8. cls' = [f \in Folder |-> IF f = row[p].key THEN row[p].chosen ELSE cls[f]]
  BY <1>1, <1>3 DEF LedgerInv, SurfaceInv, SurfaceTypes
<1>9. Standing'
  BY <1>1, <1>3, <1>5, <1>7, <1>8, ProjectedRules
<1>10. op'[s] = o /\ todo'[s] = {} /\ \A t \in Surface \ {s} : op'[t] = op[t] /\ todo'[t] = todo[t]
  BY <1>3, <1>4, <1>6, OthersRest
<1>11. ASSUME NEW f \in Folder, NEW j \in Id, op[s].key = f, IsHead(j, f)' PROVE j = p
  <2>1. IsHead(j, f)
    BY <1>3, <1>11 DEF IsHead
  <2> QED
    BY <1>a, <1>5, <1>11, <2>1 DEF InHand, p
<1>12. InHand(s)'
  <2>1. CASE o = Idle
    BY <1>10, <2>1, IdleFields, HoldsNoAnswer
  <2>2. CASE o = a
    BY <1>2, <1>10, <1>11, <2>2 DEF InHand
  <2> QED
    BY <2>1, <2>2
<1> QED
  BY <1>3, <1>9, <1>10, <1>12, Alone

LEMMA StampRules ==
  ASSUME LedgerInv, RulesInv, NEW s \in Surface, Stamp(s)
  PROVE  RulesInv'
<1> SUFFICES ASSUME ~overlapped' PROVE RulesInv'
  BY DEF RulesInv
<1> DEFINE i == op[s].id
           pc == IF todo[s] = {op[s].id} THEN "idle" ELSE "project"
           o == [Idle EXCEPT !.pc = pc]
<1>1. /\ i \in Id /\ row[i].status = "decided" /\ row \in [Id -> Row] /\ op[s].pc = "stamp"
      /\ row' = [row EXCEPT ![i].applied = TRUE] /\ cls' = cls /\ todo[s] \subseteq Id
  BY DEF Stamp, LedgerInv, SurfaceInv, OpInv, TableInv, RowTypes, SurfaceTypes
<1>2. op' = [op EXCEPT ![s] = o] /\ todo' = [todo EXCEPT ![s] = todo[s] \ {i}] /\ Watched(s, byHand)
  BY DEF Stamp
<1>3. pc \in Pc /\ pc \in {"idle", "project"} /\ (pc = "idle" => todo[s] \ {i} = {})
  BY DEF Pc
<1> HIDE DEF pc
<1>4. o.pc = pc
  BY <1>3, IdleFields, OpAt
<1>5. Standing /\ InHand(s) /\ byHand' = byHand
  BY <1>2, Before
<1>6. \A f \in Folder : row[i].key = f => IsHead(i, f) /\ (cls[f] # None => cls[f] = row[i].chosen)
  BY <1>1, <1>5 DEF InHand
<1> HIDE DEF o, i
<1>7. /\ row'[i].status = row[i].status /\ row'[i].chosen = row[i].chosen /\ row'[i].key = row[i].key
      /\ row'[i].super = row[i].super /\ \A j \in Id : j # i => row'[j] = row[j]
  <2>1. row[i] \in Row /\ row'[i] = [row[i] EXCEPT !.applied = TRUE]
        /\ \A j \in Id : j # i => row'[j] = row[j]
    BY <1>1
  <2>2. Stamped([row[i] EXCEPT !.applied = TRUE], row[i])
    BY <2>1, RowStamped, Zenon
  <2>3. Stamped(row'[i], row[i])
    BY <2>1, <2>2, Zenon
  <2> QED
    BY <2>1, <2>3 DEF Stamped
<1>8. \A f \in Folder, j \in Id : IsHead(j, f)' <=> IsHead(j, f)
  BY <1>7 DEF IsHead
<1>9. OneHead'
  BY <1>5, <1>8 DEF Standing, OneHead
<1>10. OpenRows'
  <2> SUFFICES ASSUME NEW j \in Id, row'[j].status = "open"
               PROVE  /\ ~row'[j].applied
                      /\ \A f \in Folder, h \in Id : row'[j].key = f /\ IsHead(h, f)'
                           => h = row'[j].parent
    BY DEF OpenRows
  <2>1. row'[j] = row[j]
    BY <1>1, <1>7
  <2> QED
    BY <1>5, <1>8, <2>1 DEF Standing, OpenRows
<1>11. ASSUME NEW f \in Folder PROVE Rules(f)'
  <2> SUFFICES ASSUME cls[f] # None, f \notin byHand
               PROVE  \E j \in Id : IsHead(j, f)' /\ (cls[f] = row'[j].chosen \/ ~row'[j].applied)
    BY <1>1, <1>5 DEF Rules
  <2>1. PICK j \in Id : IsHead(j, f) /\ (cls[f] = row[j].chosen \/ ~row[j].applied)
    BY <1>5 DEF Standing, Rules
  <2>2. CASE j = i
    <3>1. row[i].key = f
      BY <2>1, <2>2 DEF IsHead
    <3>2. cls[f] = row'[i].chosen
      BY <1>6, <1>7, <3>1
    <3> QED
      BY <1>8, <2>1, <2>2, <3>2
  <2>3. CASE j # i
    <3>1. row'[j] = row[j]
      BY <1>7, <2>3
    <3> QED
      BY <1>8, <2>1, <3>1
  <2> QED
    BY <2>2, <2>3
<1>12. op'[s] = o /\ todo'[s] = todo[s] \ {i} /\ \A t \in Surface \ {s} : op'[t] = op[t] /\ todo'[t] = todo[t]
  BY <1>2, OthersRest
<1>13. \A j \in todo'[s], f \in Folder : row'[j].key = f => IsHead(j, f)'
  BY <1>1, <1>5, <1>7, <1>8, <1>12 DEF InHand
<1>14. InHand(s)'
  BY <1>3, <1>4, <1>12, <1>13 DEF InHand
<1>15. Standing'
  BY <1>9, <1>10, <1>11 DEF Standing
<1> QED
  BY <1>1, <1>2, <1>12, <1>14, <1>15, Alone

LEMMA SetByHandRules ==
  ASSUME LedgerInv, RulesInv, NEW s \in Surface, NEW f \in Folder, NEW v, SetByHand(s, f, v)
  PROVE  RulesInv'
<1> SUFFICES ASSUME ~overlapped' PROVE RulesInv'
  BY DEF RulesInv
<1>1. /\ UNCHANGED <<row, op, todo>> /\ cls' = [cls EXCEPT ![f] = v] /\ Watched(s, byHand \cup {f})
      /\ op[s].pc = "idle" /\ cls \in [Folder -> Answer \cup {None}]
  BY DEF SetByHand, Busy, LedgerInv, SurfaceInv, SurfaceTypes
<1>2. Standing /\ InHand(s) /\ byHand' = byHand \cup {f}
  BY <1>1, Before
<1>3. OneHead' /\ OpenRows'
  BY <1>1, <1>2 DEF Standing, OneHead, OpenRows, IsHead
<1>4. ASSUME NEW g \in Folder PROVE Rules(g)'
  <2>1. CASE g = f
    BY <1>2, <2>1 DEF Rules
  <2>2. CASE g # f
    <3>1. cls'[g] = cls[g] /\ (g \in byHand' <=> g \in byHand) /\ Rules(g)
      BY <1>1, <1>2, <2>2 DEF Standing
    <3> QED
      BY <1>1, <3>1 DEF Rules, IsHead
  <2> QED
    BY <2>1, <2>2
<1>5. Standing'
  BY <1>3, <1>4 DEF Standing
<1>6. todo'[s] = {} /\ op'[s].pc = "idle"
  BY <1>1, <1>2, EmptyHand
<1>7. InHand(s)'
  BY <1>6, HoldsNoAnswer
<1> QED
  BY <1>1, <1>5, <1>7, Alone

\* A kill, and what the world does, while any surface may be at work.
LEMMA CrashRules ==
  ASSUME LedgerInv, RulesInv, NEW s \in Surface, Crash(s)
  PROVE  RulesInv'
<1> SUFFICES ASSUME ~overlapped' PROVE RulesInv'
  BY DEF RulesInv
<1>1. /\ UNCHANGED <<row, cls, byHand, overlapped>> /\ op' = [op EXCEPT ![s] = Idle]
      /\ todo' = [todo EXCEPT ![s] = {}]
  BY DEF Crash
<1>2. Standing /\ OneAtATime /\ \A t \in Surface : InHand(t)
  BY <1>1 DEF RulesInv
<1>3. Standing'
  BY <1>1, <1>2, SameStanding
<1>4. op'[s] = Idle /\ todo'[s] = {} /\ \A t \in Surface \ {s} : op'[t] = op[t] /\ todo'[t] = todo[t]
  BY <1>1, OthersRest
<1>5. OneAtATime'
  BY <1>2, <1>4, IdleFields DEF OneAtATime, Busy
<1>6. InHand(s)'
  BY <1>4, IdleFields, HoldsNoAnswer
<1>7. ASSUME NEW t \in Surface \ {s} PROVE InHand(t)'
  BY <1>1, <1>2, <1>4 DEF InHand, IsHead
<1> QED
  BY <1>3, <1>5, <1>6, <1>7 DEF RulesInv

LEMMA WorldRules ==
  ASSUME LedgerInv, RulesInv,
         UNCHANGED vars \/ \E f \in Folder : Leave(f) \/ Return(f) \/ Shift(f)
  PROVE  RulesInv'
<1>1. CASE UNCHANGED vars \/ \E f \in Folder : Return(f) \/ Shift(f)
  <2>1. UNCHANGED <<row, cls, byHand, overlapped, op, todo>>
    BY <1>1 DEF vars, Return, Shift
  <2> QED
    BY <2>1 DEF RulesInv, OneAtATime, Busy, InHand, Standing, OneHead, OpenRows, Rules, IsHead
<1>2. ASSUME NEW f \in Folder, Leave(f) PROVE RulesInv'
  <2> SUFFICES ASSUME ~overlapped' PROVE RulesInv'
    BY DEF RulesInv
  <2>1. /\ UNCHANGED <<row, op, todo, overlapped>> /\ cls' = [cls EXCEPT ![f] = None]
        /\ byHand' = byHand \ {f} /\ cls \in [Folder -> Answer \cup {None}]
    BY <1>2 DEF Leave, LedgerInv, SurfaceInv, SurfaceTypes
  <2>2. Standing /\ OneAtATime /\ \A t \in Surface : InHand(t)
    BY <2>1 DEF RulesInv
  <2>3. OneHead' /\ OpenRows' /\ OneAtATime'
    BY <2>1, <2>2 DEF Standing, OneHead, OpenRows, IsHead, OneAtATime, Busy
  <2>4. \A g \in Folder : cls'[g] = None \/ (cls'[g] = cls[g] /\ (g \in byHand' <=> g \in byHand))
    BY <2>1
  <2>5. \A g \in Folder : Rules(g)'
    BY <2>1, <2>2, <2>4 DEF Standing, Rules, IsHead
  <2>6. ASSUME NEW t \in Surface PROVE InHand(t)'
    BY <2>1, <2>2, <2>4 DEF InHand, IsHead
  <2> QED
    BY <2>2, <2>3, <2>5, <2>6 DEF RulesInv, Standing
<1> QED
  BY <1>1, <1>2

\* An edit of the table by a surface that lists nothing and then rests, or goes on to commit.
LEMMA EditMoves ==
  ASSUME LedgerInv, RulesInv, NEW s \in Surface, Watched(s, byHand), ~overlapped',
         cls' = cls, todo' = todo, op[s].pc \notin {"project", "stamp"},
         NEW o, op' = [op EXCEPT ![s] = o], o.pc \in {"idle", "commit", "head"},
         Standing'
  PROVE  RulesInv'
<1>1. InHand(s)
  BY Before
<1>2. todo[s] = {}
  BY <1>1, EmptyHand
<1>3. op'[s] = o /\ todo'[s] = {} /\ \A t \in Surface \ {s} : op'[t] = op[t] /\ todo'[t] = todo[t]
  BY <1>2, OthersRest
<1>4. InHand(s)'
  BY <1>3, HoldsNoAnswer
<1> QED
  BY <1>3, <1>4, Alone

LEMMA OpStays ==
  ASSUME LedgerInv, NEW s \in Surface, op' = op
  PROVE  op' = [op EXCEPT ![s] = op[s]]
BY DEF LedgerInv, SurfaceInv, SurfaceTypes

\* A question that is dismissed or expires was not a standing answer.
LEMMA CloseRules ==
  ASSUME LedgerInv, Standing, UNCHANGED <<cls, byHand>>, NEW i \in Id, row[i].status = "open",
         NEW how \in {"dismissed", "expired"},
         row' = [row EXCEPT ![i].status = how]
  PROVE  Standing'
<1>1. row \in [Id -> Row]
  BY DEF LedgerInv, TableInv, RowTypes
<1>2. row'[i] = [row[i] EXCEPT !.status = how] /\ \A j \in Id : j # i => row'[j] = row[j]
  BY <1>1
<1>3. row'[i].status = how
  BY <1>1, <1>2, RowClosed
<1>4. \A f \in Folder, j \in Id : /\ IsHead(j, f)' <=> IsHead(j, f)
                                  /\ IsHead(j, f) => row'[j] = row[j]
  BY <1>2, <1>3 DEF IsHead
<1>5. \A j \in Id : row'[j].status = "open" => row'[j] = row[j]
  BY <1>2, <1>3
<1> QED
  BY <1>4, <1>5, EditRules

LEMMA DismissRules ==
  ASSUME LedgerInv, RulesInv, NEW s \in Surface, NEW i \in Id, Dismiss(s, i)
  PROVE  RulesInv'
<1> SUFFICES ASSUME ~overlapped' PROVE RulesInv'
  BY DEF RulesInv
<1>1. /\ Watched(s, byHand) /\ UNCHANGED <<cls, op, todo>> /\ row[i].status = "open"
      /\ row' = [row EXCEPT ![i].status = "dismissed"] /\ op[s].pc = "idle"
  BY DEF Dismiss, Busy
<1>2. Standing /\ byHand' = byHand
  BY <1>1, Before
<1>3. Standing'
  BY <1>1, <1>2, CloseRules
<1> QED
  BY <1>1, <1>3, OpStays, EditMoves

LEMMA ExpireRules ==
  ASSUME LedgerInv, RulesInv, NEW s \in Surface, Expire(s)
  PROVE  RulesInv'
<1> SUFFICES ASSUME ~overlapped' PROVE RulesInv'
  BY DEF RulesInv
<1> DEFINE i == op[s].id
<1>1. /\ Watched(s, byHand) /\ UNCHANGED <<cls, todo>> /\ i \in Id
      /\ row' = IF row[i].status = "open" THEN [row EXCEPT ![i].status = "expired"] ELSE row
      /\ op[s].pc = "expire" /\ op' = [op EXCEPT ![s] = Idle]
  BY DEF Expire, LedgerInv, SurfaceInv, OpInv
<1> HIDE DEF i
<1>2. Standing /\ byHand' = byHand
  BY <1>1, Before
<1>3. Standing'
  BY <1>1, <1>2, CloseRules, SameStanding
<1> QED
  BY <1>1, <1>3, IdleFields, EditMoves

LEMMA CollectRules ==
  ASSUME LedgerInv, RulesInv, NEW s \in Surface, CollectGarbage(s)
  PROVE  RulesInv'
<1> SUFFICES ASSUME ~overlapped' PROVE RulesInv'
  BY DEF RulesInv
<1>1. /\ Watched(s, byHand) /\ UNCHANGED <<cls, op, todo>> /\ op[s].pc = "idle"
  BY DEF CollectGarbage, Busy
<1>2. PICK S \in SUBSET Garbage : row' = [i \in Id |-> IF i \in S THEN NoRow ELSE row[i]]
  BY DEF CollectGarbage
<1>3. Standing /\ byHand' = byHand
  BY <1>1, Before
<1>4. \A i \in S : row[i].status \in {"expired", "dismissed"}
  BY DEF Garbage
<1>5. \A f \in Folder, j \in Id : /\ IsHead(j, f)' <=> IsHead(j, f)
                                  /\ IsHead(j, f) => row'[j] = row[j]
  BY <1>2, <1>4, NoRowFields DEF IsHead
<1>6. \A j \in Id : row'[j].status = "open" => row'[j] = row[j]
  BY <1>2, NoRowFields
<1>7. Standing'
  BY <1>1, <1>3, <1>5, <1>6, EditRules
<1> QED
  BY <1>1, <1>7, OpStays, EditMoves

\* A row is inserted that is no standing answer of a folder.
LEMMA InsertRules ==
  ASSUME LedgerInv, Standing, UNCHANGED <<cls, byHand>>, last < MaxRows,
         NEW r, row' = [row EXCEPT ![last + 1] = r],
         r.status = "open" \/ r.key \notin Folder,
         r.status = "open" =>
           /\ ~r.applied
           /\ \A f \in Folder, j \in Id : r.key = f /\ IsHead(j, f) => j = r.parent
  PROVE  Standing'
<1>1. row \in [Id -> Row] /\ last + 1 \in Id /\ row[last + 1] = NoRow
  BY DEF LedgerInv, TableInv, RowTypes
<1>2. row'[last + 1] = r /\ \A j \in Id : j # last + 1 => row'[j] = row[j]
  BY <1>1
<1>3. \A f \in Folder, j \in Id : /\ IsHead(j, f)' <=> IsHead(j, f)
                                  /\ IsHead(j, f) => row'[j] = row[j]
  BY <1>1, <1>2, NoRowFields DEF IsHead
<1>4. \A j \in Id : row'[j].status = "open" /\ row'[j] # row[j] =>
        /\ ~row'[j].applied
        /\ \A f \in Folder, h \in Id : row'[j].key = f /\ IsHead(h, f) => h = row'[j].parent
  BY <1>2
<1> QED
  BY <1>3, <1>4, EditRules

LEMMA AnnotateRules ==
  ASSUME LedgerInv, RulesInv, NEW s \in Surface, NEW k \in Topic, Annotate(s, k)
  PROVE  RulesInv'
<1> SUFFICES ASSUME ~overlapped' PROVE RulesInv'
  BY DEF RulesInv
<1> DEFINE r == Noted(k)
<1>1. /\ Watched(s, byHand) /\ UNCHANGED <<cls, op, todo>> /\ op[s].pc = "idle"
      /\ row' = [row EXCEPT ![last + 1] = r] /\ last < MaxRows
  BY DEF Annotate, Busy, Noted
<1>2. r.status = "decided" /\ r.key \notin Folder
  <2>1. k \in Key /\ k \notin Folder
    OBVIOUS
  <2> QED
    BY <2>1, RowRecorded
<1> HIDE DEF r
<1>3. Standing /\ byHand' = byHand
  BY <1>1, Before
<1>4. Standing'
  BY <1>1, <1>2, <1>3, InsertRules
<1> QED
  BY <1>1, <1>4, OpStays, EditMoves

LEMMA AppendRules ==
  ASSUME LedgerInv, RulesInv, NEW s \in Surface, Append(s)
  PROVE  RulesInv'
<1> SUFFICES ASSUME ~overlapped' PROVE RulesInv'
  BY DEF RulesInv
<1> DEFINE k == op[s].key
           p == op[s].parent
           r == NewRow(k, op[s].hash, op[s].menu, p)
           a == ToCommit(last + 1, op[s].value)
<1>1. /\ op[s] \in Op /\ op[s].pc = "append" /\ k \in Key /\ op[s].hash \in Category \cup {None}
      /\ op[s].menu \in BOOLEAN /\ p \in Id \cup {0} /\ op[s].value \in Answer \cup {Note, None}
  <2>1. op[s] \in Op /\ op[s].pc = "append" /\ OpInv(s)
    BY DEF Append, LedgerInv, SurfaceInv, SurfaceTypes
  <2> QED
    BY <2>1, OpFields DEF OpInv
<1>2. UNCHANGED <<cls, todo>> /\ Watched(s, byHand)
  BY DEF Append
<1>3. Standing /\ InHand(s) /\ byHand' = byHand
  BY <1>2, Before
<1>4. CASE Insertable(k, op[s].hash)
  <2>1. last < MaxRows /\ row' = [row EXCEPT ![last + 1] = r]
        /\ (op' = [op EXCEPT ![s] = Idle] \/ op' = [op EXCEPT ![s] = a])
    BY <1>4 DEF Append, ToCommit
  <2>2. r.key = k /\ r.status = "open" /\ r.parent = p
    BY <1>1, NewRowFields
  <2>3. ~r.applied
    BY NewRowUnstamped
  <2>4. last + 1 \in Id
    BY <2>1 DEF LedgerInv, TableInv, RowTypes
  <2>5. a.pc = "commit"
    BY <1>1, <2>4, OpToCommit
  <2>6. \A f \in Folder, j \in Id : k = f /\ IsHead(j, f) => j = p
    BY <1>1, <1>3 DEF InHand
  <2> HIDE DEF r, a, k, p
  <2>7. Standing'
    BY <1>2, <1>3, <2>1, <2>2, <2>3, <2>6, InsertRules
  <2>8. PICK o \in {a, Idle} : op' = [op EXCEPT ![s] = o]
    BY <2>1
  <2> QED
    BY <1>1, <1>2, <2>5, <2>7, <2>8, IdleFields, EditMoves
<1>5. CASE ~Insertable(k, op[s].hash)
  <2>1. row' = row /\ op' = [op EXCEPT ![s] = Idle]
    BY <1>5 DEF Append
  <2> QED
    BY <1>1, <1>2, <2>1, IdleFields, GivesUpOrLooks
<1> QED
  BY <1>4, <1>5

\* The ids an insertion of n rows takes.
LEMMA IntervalSize ==
  ASSUME NEW a \in Nat, NEW n \in Nat
  PROVE  IsFiniteSet(a + 1 .. a + n) /\ Cardinality(a + 1 .. a + n) = n
<1> DEFINE p == a + 1
           q == a + n
<1>1. p \in Int /\ q \in Int
  OBVIOUS
<1>2. IF p > q THEN 0 = n ELSE q - p + 1 = n
  OBVIOUS
<1> HIDE DEF p, q
<1>3. IsFiniteSet(p..q) /\ Cardinality(p..q) = IF p > q THEN 0 ELSE q - p + 1
  BY <1>1, FS_Interval
<1>4. Cardinality(p..q) = n
  <2>1. CASE p > q
    BY <1>2, <1>3, <2>1
  <2>2. CASE ~(p > q)
    BY <1>2, <1>3, <2>2
  <2> QED
    BY <2>1, <2>2
<1> QED
  BY <1>3, <1>4 DEF p, q

\* An injection between sets of one size reaches everything.
LEMMA Onto ==
  ASSUME NEW S, IsFiniteSet(S), NEW T, IsFiniteSet(T), Cardinality(S) = Cardinality(T),
         NEW g \in [S -> T], \A i, j \in S : g[i] = g[j] => i = j
  PROVE  \A t \in T : \E i \in S : g[i] = t
<1>1. g \in Injection(S, T)
  BY DEF Injection, IsInjective
<1>2. g \in Surjection(S, T)
  BY <1>1, FS_Injection
<1> QED
  BY <1>2 DEF Surjection

\* The back-fill makes every classification the one standing answer of its folder.
LEMMA BackfillRules ==
  ASSUME LedgerInv, Standing, Backfill, UNCHANGED <<cls, byHand>>
  PROVE  Standing'
<1> DEFINE old == {g \in Folder : cls[g] # None}
           n   == Cardinality(old)
           N   == last + 1 .. last + n
<1>1. CASE UNCHANGED <<row, last>>
  BY <1>1, SameStanding
<1>2. CASE ~((\E i \in Id : row[i].key \in Folder) \/ old = {})
  <2>1. n \in Nat /\ IsFiniteSet(old)
    BY FS_Subset, FS_CardinalityType
  <2>2. PICK of \in [N -> old] :
          /\ \A i, j \in N : of[i] = of[j] => i = j
          /\ row' = [i \in Id |-> IF i \in N THEN Imported(of[i], cls[of[i]]) ELSE row[i]]
    BY <1>2 DEF Backfill
  <2>3. /\ cls \in [Folder -> Answer \cup {None}] /\ last \in Nat
        /\ last + n <= MaxRows
    BY <1>2 DEF Backfill, LedgerInv, SurfaceInv, SurfaceTypes, TableInv, RowTypes
  <2>4. N \subseteq Id /\ IsFiniteSet(N) /\ Cardinality(N) = n
    <3> HIDE DEF n
    <3>1. IsFiniteSet(N) /\ Cardinality(N) = n
      BY <2>1, <2>3, IntervalSize
    <3> QED
      BY <2>1, <2>3, <3>1
  <2>5. \A g \in old : \E i \in N : of[i] = g
    <3>1. IsFiniteSet(N) /\ Cardinality(N) = Cardinality(old)
      BY <2>4
    <3> HIDE DEF N, old
    <3> QED
      BY <2>1, <2>2, <3>1, Onto
  <2>6. \A i \in N : of[i] \in Folder /\ of[i] \in old /\ cls[of[i]] \in Answer
    BY <2>3
  <2>7. \A i \in N : /\ row'[i].status = "decided" /\ row'[i].key = of[i]
                     /\ row'[i].chosen = cls[of[i]] /\ row'[i].super = 0
    <3> SUFFICES ASSUME NEW i \in N
                 PROVE  /\ row'[i].status = "decided" /\ row'[i].key = of[i]
                        /\ row'[i].chosen = cls[of[i]] /\ row'[i].super = 0
      OBVIOUS
    <3>1. of[i] \in Folder /\ cls[of[i]] \in Answer
      BY <2>6
    <3>2. row'[i] = Imported(of[i], cls[of[i]])
      BY <2>2, <2>4
    <3> QED
      BY <3>1, <3>2, ImportedFields
  <2>8. \A i \in Id \ N : row'[i] = row[i]
    BY <2>2
  <2>9. \A i \in Id : row[i].key \notin Folder
    BY <1>2
  <2> HIDE DEF N, old, n
  <2>10. \A f \in Folder, i \in Id : IsHead(i, f)' <=> i \in N /\ of[i] = f
    BY <2>4, <2>7, <2>8, <2>9 DEF IsHead
  <2>11. OneHead'
    BY <2>2, <2>10 DEF OneHead
  <2>12. OpenRows'
    BY <2>7, <2>8, <2>9 DEF Standing, OpenRows
  <2>13. ASSUME NEW f \in Folder PROVE Rules(f)'
    <3> SUFFICES ASSUME cls[f] # None
                 PROVE  \E i \in Id : IsHead(i, f)' /\ (cls[f] = row'[i].chosen \/ ~row'[i].applied)
      BY DEF Rules
    <3>1. PICK i \in N : of[i] = f
      BY <2>5 DEF old
    <3> QED
      BY <2>4, <2>7, <2>10, <3>1
  <2> QED
    BY <2>11, <2>12, <2>13 DEF Standing
<1> QED
  BY <1>1, <1>2 DEF Backfill

LEMMA BeginClassifyRules ==
  ASSUME LedgerInv, RulesInv, NEW s \in Surface, NEW f \in Folder, BeginClassify(s, f)
  PROVE  RulesInv'
<1> SUFFICES ASSUME ~overlapped' PROVE RulesInv'
  BY DEF RulesInv
<1> DEFINE o == ToAsk(f, hint[f], cls[f])
<1>1. /\ op' = [op EXCEPT ![s] = o] /\ UNCHANGED <<cls, todo>> /\ Watched(s, byHand)
      /\ op[s].pc = "idle" /\ Backfill
  BY DEF BeginClassify, ToAsk, Busy
<1>2. hint[f] \in Category /\ cls[f] \in Answer \cup {None}
  BY DEF LedgerInv, SurfaceInv, SurfaceTypes
<1>3. o.pc = "head"
  BY <1>2, OpToAsk
<1> HIDE DEF o
<1>4. Standing /\ byHand' = byHand
  BY <1>1, Before
<1>5. Standing'
  BY <1>1, <1>4, BackfillRules
<1> QED
  BY <1>1, <1>3, <1>5, EditMoves

-----------------------------------------------------------------------------
(* Every step.                                                              *)

LEMMA NextRules ==
  ASSUME LedgerInv, RulesInv, [Next]_vars
  PROVE  RulesInv'
<1>1. ASSUME NEW s \in Surface, Step(s) PROVE RulesInv'
  <2>1. ASSUME NEW F \in SUBSET Folder, NEW v \in Answer, CommitBatch(s, F, v) PROVE RulesInv'
    BY <2>1, CommitBatchRules
  <2>2. CASE Commit(s) \/ Repair(s) \/ Project(s) \/ Stamp(s)
    BY <2>2, CommitRules, RepairRules, ProjectRules, StampRules
  <2>3. ASSUME NEW k \in Topic, Annotate(s, k) PROVE RulesInv'
    BY <2>3, AnnotateRules
  <2>4. ASSUME NEW f \in Folder, BeginClassify(s, f) PROVE RulesInv'
    BY <2>4, BeginClassifyRules
  <2>5. ASSUME NEW f \in Folder, NEW v \in Answer \cup {None}, SetByHand(s, f, v) PROVE RulesInv'
    BY <2>5, SetByHandRules
  <2>6. CASE ReadHead(s) \/ Restore(s) \/ Append(s) \/ Expire(s) \/ CollectGarbage(s) \/ Crash(s)
    BY <2>6, ReadHeadRules, RestoreRules, AppendRules, ExpireRules, CollectRules, CrashRules
  <2>7. ASSUME NEW i \in Id, BeginRevert(s, i) \/ Dismiss(s, i) PROVE RulesInv'
    BY <2>7, BeginRevertRules, DismissRules
  <2>8. CASE \/ \E i \in Id, v \in Answer \cup {Note} : BeginAnswer(s, i, v)
             \/ \E i \in Id : BeginExpire(s, i)
             \/ Skip(s)
    BY <2>8, BeginRules
  <2> QED
    BY <1>1, <2>1, <2>2, <2>3, <2>4, <2>5, <2>6, <2>7, <2>8 DEF Step
<1>2. CASE UNCHANGED vars \/ \E f \in Folder : Leave(f) \/ Return(f) \/ Shift(f)
  BY <1>2, WorldRules
<1> QED
  BY <1>1, <1>2 DEF Next

LEMMA InitRules == Init => RulesInv
<1> SUFFICES ASSUME Init PROVE RulesInv
  OBVIOUS
<1>1. /\ \A i \in Id : row[i] = NoRow
      /\ \A f \in Folder : cls[f] = None
      /\ \A s \in Surface : op[s] = Idle /\ todo[s] = {}
  BY DEF Init
<1>2. Standing
  BY <1>1, NoRowFields DEF Standing, OneHead, OpenRows, Rules, IsHead
<1>3. OneAtATime /\ \A s \in Surface : InHand(s)
  BY <1>1, IdleFields DEF OneAtATime, Busy, InHand
<1> QED
  BY <1>2, <1>3 DEF RulesInv

-----------------------------------------------------------------------------
(* Theorems.                                                                *)

\* The types; ids are given in order, and what is answered has an answer.
THEOREM LedgerTypes == Spec => []LedgerTypeOK
<1>1. LedgerInv => LedgerTypeOK
  BY DEF LedgerInv, TableInv, RowTypes, SurfaceInv, SurfaceTypes, LedgerTypeOK
<1> QED
  BY <1>1, LedgerInvHolds, PTL

\* No question is open twice, or again after it was dismissed on the same
\* evidence.
THEOREM QuietInbox == Spec => []InboxIsQuiet
<1>1. LedgerInv => InboxIsQuiet
  BY DEF LedgerInv, TableInv
<1> QED
  BY <1>1, LedgerInvHolds, PTL

\* Revisions name each other, and nothing a chain refers to is collected.
THEOREM WholeChains == Spec => []ChainIsWhole
<1>1. LedgerInv => ChainIsWhole
  BY DEF LedgerInv, TableInv
<1> QED
  BY <1>1, LedgerInvHolds, PTL

\* No step of any surface takes an answer back or names another successor.
THEOREM StandingAnswers == Spec => AnswersStand
<1> DEFINE Stand == \A i \in Id : row[i].status = "decided" =>
             /\ row'[i].status = "decided"
             /\ row'[i].chosen = row[i].chosen
             /\ row[i].super # 0 => row'[i].super = row[i].super
             /\ row[i].applied => row'[i].applied
<1>1. LedgerInv /\ [Next]_vars => [Stand]_vars
  BY NextStep DEF Keeps
<1> QED
  BY <1>1, LedgerInvHolds, PTL DEF Spec, AnswersStand

\* While no two surfaces have overlapped, and whatever was killed, a folder has one standing
\* answer, and the classification no hand has set is that answer or is to be repaired.
THEOREM OneStandingAnswer == Spec => []StandingAnswerRules
<1>1. RulesInv => StandingAnswerRules
  BY DEF RulesInv, Standing, OneHead, Rules, StandingAnswerRules
<1>2. LedgerInv /\ RulesInv /\ [Next]_vars => RulesInv'
  BY NextRules
<1> QED
  BY <1>1, <1>2, InitRules, LedgerInvHolds, PTL DEF Spec
=============================================================================
