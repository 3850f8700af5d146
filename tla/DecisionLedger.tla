--------------------------- MODULE DecisionLedger ---------------------------
(***************************************************************************)
(* The decision ledger for questions about a folder's category             *)
(* (crates/core/src/store/decisions.rs, crates/core/src/decisions/), its   *)
(* projection onto the classifications table, and the notes that share the *)
(* table.                                                                  *)
(*                                                                         *)
(* The surfaces (command line, web server, MCP server) are processes with  *)
(* a connection each.  An action is a transaction or a statement of one of *)
(* them: an answer is committed, then projected, then stamped; a question  *)
(* is asked by reading the standing answer and inserting a row.  Any       *)
(* surface may be killed between two steps.                                *)
(***************************************************************************)
EXTENDS Naturals, FiniteSets

CONSTANTS
  Surface,     \* processes that open the ledger
  Terminal,    \* those that are commands; the rest are servers (web, MCP)
  Folder,      \* subjects of classification questions
  Topic,       \* subjects of notes
  Category,    \* what a folder may be: its evidence is told by what it suggests
  Ignore,      \* the answer "ignore"
  Note,        \* the text of a note
  None,
  MaxRows,     \* bound: rows inserted
  MaxRaced     \* bound: rows inserted before surfaces that overlap come to rest

ASSUME LedgerAssumption ==
  /\ Terminal \subseteq Surface
  /\ Folder \cap Topic = {} /\ IsFiniteSet(Folder)
  /\ Ignore \notin Category
  /\ Note \notin Category \cup {Ignore}
  /\ None \notin Category \cup {Ignore, Note} \cup Folder \cup Topic
  /\ MaxRows \in Nat
  /\ MaxRaced \in Nat

VARIABLES
  row,         \* the decisions table
  last,        \* its AUTOINCREMENT
  cls,         \* classifications: the user's value of a folder, None if it has none
  present,     \* the folders the index holds
  hint,        \* what the first tier suggests for a folder
  op,          \* what each surface is doing
  todo,        \* the answers it has still to project
  overlapped,  \* history: one surface has moved while another was busy
  byHand       \* history, until then: folders whose value was set by hand last

vars == <<row, last, cls, present, hint, op, todo, byHand, overlapped>>

Key    == Folder \cup Topic
Answer == Category \cup {Ignore}
Id     == 1..MaxRows
Status == {"none", "open", "decided", "dismissed", "expired"}
\* menu: the row records the answers it may be given
Row == [key : Key \cup {None}, status : Status, chosen : Answer \cup {Note, None},
        parent : Id \cup {0}, super : Id \cup {0}, hash : Category \cup {None},
        menu : BOOLEAN, applied : BOOLEAN]
NoRow == [key |-> None, status |-> "none", chosen |-> None, parent |-> 0, super |-> 0,
          hash |-> None, menu |-> FALSE, applied |-> FALSE]
Pc == {"idle", "commit", "head", "restore", "append", "project", "stamp", "expire"}
\* value: the answer to give, or the folder's value as it was listed
Op == [pc : Pc, id : Id \cup {0}, key : Key \cup {None}, hash : Category \cup {None},
       menu : BOOLEAN, parent : Id \cup {0}, value : Answer \cup {Note, None}]
Idle == [pc |-> "idle", id |-> 0, key |-> None, hash |-> None, menu |-> FALSE, parent |-> 0,
         value |-> None]

LedgerTypeOK ==
  /\ row \in [Id -> Row]
  /\ last \in Id \cup {0}
  /\ \A i \in Id : i > last => row[i] = NoRow
  /\ \A i \in Id : row[i].chosen # None <=> row[i].status = "decided"
  /\ cls \in [Folder -> Answer \cup {None}]
  /\ present \subseteq Folder
  /\ hint \in [Folder -> Category]
  /\ op \in [Surface -> Op]
  /\ todo \in [Surface -> SUBSET Id]
  /\ byHand \subseteq Folder
  /\ overlapped \in BOOLEAN

Init ==
  /\ row = [i \in Id |-> NoRow]
  /\ last = 0
  /\ cls = [f \in Folder |-> None]
  /\ present = Folder
  /\ hint \in [Folder -> Category]
  /\ op = [s \in Surface |-> Idle]
  /\ todo = [s \in Surface |-> {}]
  /\ byHand = {}
  /\ overlapped = FALSE

-----------------------------------------------------------------------------
(* The table.                                                               *)

Busy(s) == op[s].pc # "idle"
\* What the histories make of a step of s: the folders set by hand are now hand.
Watched(s, hand) ==
  /\ overlapped' = (overlapped \/ \E t \in Surface \ {s} : Busy(t))
  /\ byHand' = IF overlapped' THEN {} ELSE hand
  /\ overlapped' => last' <= MaxRaced

\* Decided and not superseded.
IsHead(i, k) == row[i].key = k /\ row[i].status = "decided" /\ row[i].super = 0
\* latest_decided: the newest head, 0 if there is none.
IsLatest(i, k) ==
  IF i = 0 THEN \A j \in Id : ~IsHead(j, k)
  ELSE IsHead(i, k) /\ \A j \in Id : IsHead(j, k) => j <= i

\* Slip: an old dismissal is forgotten.
InsertableNagging(k, hash) == \A i \in Id : row[i].key = k => row[i].status # "open"
\* insert_decision_row goes through unless the question is open already, or was
\* dismissed on the same evidence.
Insertable(k, hash) ==
  \A i \in Id : row[i].key = k =>
    /\ row[i].status # "open"
    /\ ~(row[i].status = "dismissed" /\ row[i].hash = hash)

NewRow(k, hash, menu, parent) ==
  [NoRow EXCEPT !.key = k, !.status = "open", !.hash = hash, !.menu = menu, !.parent = parent]

\* decide_row: the answer, and the parent stamped once.
Decided(i, v) ==
  [j \in Id |-> IF j = i THEN [row[j] EXCEPT !.status = "decided", !.chosen = v]
                ELSE IF j = row[i].parent /\ row[j].super = 0 THEN [row[j] EXCEPT !.super = i]
                ELSE row[j]]

-----------------------------------------------------------------------------
(* Answers: committed, projected, stamped.                                  *)

Menu(k) == IF k \in Folder THEN Answer ELSE {Note}

\* decide_and_apply looks at the row first: it is open and the answer on its menu.
BeginAnswer(s, i, v) ==
  /\ ~Busy(s)
  /\ row[i].status = "open"
  /\ row[i].menu /\ v \in Menu(row[i].key)
  /\ op' = [op EXCEPT ![s] = [Idle EXCEPT !.pc = "commit", !.id = i, !.value = v]]
  /\ UNCHANGED <<row, last, cls, present, hint, todo>>
  /\ Watched(s, byHand)

\* Slip: the row is not looked at again.
CommitAnyway(s) ==
  /\ op[s].pc = "commit"
  /\ row' = Decided(op[s].id, op[s].value)
  /\ op' = [op EXCEPT ![s] = [Idle EXCEPT !.pc = "project"]]
  /\ todo' = [todo EXCEPT ![s] = {op[s].id}]
  /\ UNCHANGED <<last, cls, present, hint>>
  /\ Watched(s, byHand)

\* answer_decision: an error unless the row is still open.
Commit(s) ==
  /\ op[s].pc = "commit"
  /\ IF row[op[s].id].status = "open"
     THEN /\ row' = Decided(op[s].id, op[s].value)
          /\ op' = [op EXCEPT ![s] = [Idle EXCEPT !.pc = "project"]]
          /\ todo' = [todo EXCEPT ![s] = {op[s].id}]
     ELSE /\ op' = [op EXCEPT ![s] = Idle]
          /\ UNCHANGED <<row, todo>>
  /\ UNCHANGED <<last, cls, present, hint>>
  /\ Watched(s, byHand)

\* answer_decisions_under, for the open questions of a subtree, in one transaction.
CommitBatch(s, F, v) ==
  LET ids == {i \in Id : row[i].status = "open" /\ row[i].key \in F} IN
  /\ ~Busy(s)
  /\ ids # {}
  /\ row' = [j \in Id |->
       IF j \in ids THEN [row[j] EXCEPT !.status = "decided", !.chosen = v]
       ELSE IF row[j].super = 0 /\ \E i \in ids : row[i].parent = j
       THEN [row[j] EXCEPT !.super = CHOOSE i \in ids : row[i].parent = j]
       ELSE row[j]]
  /\ op' = [op EXCEPT ![s] = [Idle EXCEPT !.pc = "project"]]
  /\ todo' = [todo EXCEPT ![s] = ids]
  /\ UNCHANGED <<last, cls, present, hint>>
  /\ Watched(s, byHand)

\* Slip: superseded answers are repaired like any other.
UnappliedAll == {i \in Id : row[i].status = "decided" /\ ~row[i].applied}
\* unapplied_decided
Unapplied == {i \in Id : row[i].status = "decided" /\ ~row[i].applied /\ row[i].super = 0}

\* repair_unapplied reads the list once.
Repair(s) ==
  /\ s \in Terminal
  /\ ~Busy(s)
  /\ Unapplied # {}
  /\ todo' = [todo EXCEPT ![s] = Unapplied]
  /\ op' = [op EXCEPT ![s] = [Idle EXCEPT !.pc = "project"]]
  /\ UNCHANGED <<row, last, cls, present, hint>>
  /\ Watched(s, byHand)

\* apply_decision_effects for the next row of the list, in the order of the ids.
Project(s) ==
  /\ op[s].pc = "project"
  /\ \E i \in todo[s] :
       /\ \A j \in todo[s] : i <= j
       /\ cls' = [f \in Folder |-> IF f = row[i].key THEN row[i].chosen ELSE cls[f]]
       /\ op' = [op EXCEPT ![s] = [Idle EXCEPT !.pc = "stamp", !.id = i]]
       /\ UNCHANGED <<row, last, present, hint, todo>>
       /\ Watched(s, byHand \ {row[i].key})

\* mark_effects_applied
Stamp(s) ==
  /\ op[s].pc = "stamp"
  /\ row' = [row EXCEPT ![op[s].id].applied = TRUE]
  /\ todo' = [todo EXCEPT ![s] = @ \ {op[s].id}]
  /\ op' = [op EXCEPT ![s] =
              [Idle EXCEPT !.pc = IF todo[s] = {op[s].id} THEN "idle" ELSE "project"]]
  /\ UNCHANGED <<last, cls, present, hint>>
  /\ Watched(s, byHand)

\* record_annotation_decided: a note is inserted, answered and stamped at once.
Annotate(s, k) ==
  /\ s \notin Terminal
  /\ ~Busy(s)
  /\ last < MaxRows
  /\ Insertable(k, None)
  /\ last' = last + 1
  /\ row' = [row EXCEPT ![last + 1] =
               [NewRow(k, None, TRUE, 0) EXCEPT !.status = "decided", !.chosen = Note, !.applied = TRUE]]
  /\ UNCHANGED <<cls, present, hint, op, todo>>
  /\ Watched(s, byHand)

-----------------------------------------------------------------------------
(* Questions.                                                               *)

\* `indexa classify` of one folder: pre-ledger answers are imported once, and
\* the classifications are listed ...
Imported(g, v) ==
  [NewRow(g, None, FALSE, 0) EXCEPT !.status = "decided", !.chosen = v, !.applied = TRUE]

Backfill ==
  LET old == {g \in Folder : cls[g] # None}
      new == last + 1 .. last + Cardinality(old)
  IN IF (\E i \in Id : row[i].key \in Folder) \/ old = {}
     THEN UNCHANGED <<row, last>>
     ELSE /\ last + Cardinality(old) <= MaxRows
          /\ last' = last + Cardinality(old)
          /\ \E of \in [new -> old] :
               /\ \A i, j \in new : of[i] = of[j] => i = j
               /\ row' = [i \in Id |-> IF i \in new THEN Imported(of[i], cls[of[i]]) ELSE row[i]]

BeginClassify(s, f) ==
  /\ s \in Terminal
  /\ ~Busy(s)
  /\ f \in present
  /\ Backfill
  /\ op' = [op EXCEPT ![s] =
              [Idle EXCEPT !.pc = "head", !.key = f, !.hash = hint[f], !.menu = TRUE,
                           !.value = cls[f]]]
  /\ UNCHANGED <<cls, present, hint, todo>>
  /\ Watched(s, byHand)

\* ... and the standing answer decides whether there is something to ask.
Contradicts(i, s) == row[i].chosen # op[s].hash
ReadHead(s) ==
  /\ op[s].pc = "head"
  /\ \E i \in Id \cup {0} :
       /\ IsLatest(i, op[s].key)
       /\ op' = [op EXCEPT ![s] =
            IF op[s].value = Ignore \/ (op[s].value # None /\ i = 0) THEN Idle
            ELSE IF op[s].value # None
            THEN IF Contradicts(i, s) /\ row[i].hash # op[s].hash
                 THEN [op[s] EXCEPT !.pc = "append", !.parent = i, !.value = None] ELSE Idle
            ELSE [op[s] EXCEPT !.pc = IF i = 0 THEN "append" ELSE "restore", !.parent = i]]
  /\ UNCHANGED <<row, last, cls, present, hint, todo>>
  /\ Watched(s, byHand)

\* route_uncertain_classification puts the standing answer back before it asks
\* whether it still holds.
Restore(s) ==
  LET v == row[op[s].parent].chosen IN
  /\ op[s].pc = "restore"
  /\ cls' = [cls EXCEPT ![op[s].key] = v]
  /\ op' = [op EXCEPT ![s] = IF v \in {Ignore, op[s].hash} THEN Idle ELSE [@ EXCEPT !.pc = "append"]]
  /\ UNCHANGED <<row, last, present, hint, todo>>
  /\ Watched(s, byHand \ {op[s].key})

\* A suggestion outside the band of uncertain ones is not asked about.
Skip(s) ==
  /\ op[s].pc = "append"
  /\ op[s].parent = 0
  /\ op' = [op EXCEPT ![s] = Idle]
  /\ UNCHANGED <<row, last, cls, present, hint, todo>>
  /\ Watched(s, byHand)

\* The revision a revert of i is chained to: the head, or i if there is none.
RevisionOf(i, p) == IsLatest(p, row[i].key) \/ (p = i /\ IsLatest(0, row[i].key))

\* revert_decision
BeginRevert(s, i) ==
  /\ ~Busy(s)
  /\ row[i].status = "decided"
  /\ \E p \in Id :
       /\ RevisionOf(i, p)
       /\ op' = [op EXCEPT ![s] =
            [Idle EXCEPT !.pc = "append", !.key = row[i].key, !.hash = row[i].hash,
                         !.menu = row[i].menu, !.parent = p, !.value = row[i].chosen]]
  /\ UNCHANGED <<row, last, cls, present, hint, todo>>
  /\ Watched(s, byHand)

\* record_decision, supersede_with; a revert goes on to answer what it asked, which
\* decide_and_apply refuses when the row has no menu.
Append(s) ==
  /\ op[s].pc = "append"
  /\ IF Insertable(op[s].key, op[s].hash)
     THEN /\ last < MaxRows
          /\ last' = last + 1
          /\ row' = [row EXCEPT ![last + 1] = NewRow(op[s].key, op[s].hash, op[s].menu, op[s].parent)]
          /\ op' = [op EXCEPT ![s] =
               IF op[s].value = None \/ ~op[s].menu THEN Idle
               ELSE [Idle EXCEPT !.pc = "commit", !.id = last + 1, !.value = op[s].value]]
     ELSE /\ op' = [op EXCEPT ![s] = Idle]
          /\ UNCHANGED <<row, last>>
  /\ UNCHANGED <<cls, present, hint, todo>>
  /\ Watched(s, byHand)

\* dismiss_decision
Dismiss(s, i) ==
  /\ ~Busy(s)
  /\ row[i].status = "open"
  /\ row' = [row EXCEPT ![i].status = "dismissed"]
  /\ UNCHANGED <<last, cls, present, hint, op, todo>>
  /\ Watched(s, byHand)

\* expire_vanished_decisions: an open question whose folder has left the index ...
BeginExpire(s, i) ==
  /\ ~Busy(s)
  /\ row[i].status = "open"
  /\ row[i].key \notin present
  /\ op' = [op EXCEPT ![s] = [Idle EXCEPT !.pc = "expire", !.id = i]]
  /\ UNCHANGED <<row, last, cls, present, hint, todo>>
  /\ Watched(s, byHand)

\* Slip: the row is not looked at again.
ExpireAnyway(s) ==
  /\ op[s].pc = "expire"
  /\ row' = [row EXCEPT ![op[s].id].status = "expired"]
  /\ op' = [op EXCEPT ![s] = Idle]
  /\ UNCHANGED <<last, cls, present, hint, todo>>
  /\ Watched(s, byHand)

\* ... is expired if it is still open.
Expire(s) ==
  /\ op[s].pc = "expire"
  /\ row' = IF row[op[s].id].status = "open"
            THEN [row EXCEPT ![op[s].id].status = "expired"] ELSE row
  /\ op' = [op EXCEPT ![s] = Idle]
  /\ UNCHANGED <<last, cls, present, hint, todo>>
  /\ Watched(s, byHand)

\* Slip: superseded answers are old too.
GarbageWithHistory ==
  {i \in Id : row[i].status \in {"expired", "dismissed"} \/ row[i].super # 0}
\* gc_decisions: what was dismissed or expired long ago and is not referred to.
Garbage ==
  {i \in Id : /\ row[i].status \in {"expired", "dismissed"}
              /\ \A j \in Id : row[j].status # "none" => i \notin {row[j].parent, row[j].super}}

CollectGarbage(s) ==
  /\ s \in Terminal
  /\ ~Busy(s)
  /\ \E S \in SUBSET Garbage :
       /\ S # {}
       /\ row' = [i \in Id |-> IF i \in S THEN NoRow ELSE row[i]]
  /\ UNCHANGED <<last, cls, present, hint, op, todo>>
  /\ Watched(s, byHand)

-----------------------------------------------------------------------------
(* The rest of the program and the world.                                   *)

\* A category confirmed, ignored or cleared by hand, past the ledger.
SetByHand(s, f, v) ==
  /\ s \notin Terminal
  /\ ~Busy(s)
  /\ cls' = [cls EXCEPT ![f] = v]
  /\ UNCHANGED <<row, last, present, hint, op, todo>>
  /\ Watched(s, byHand \cup {f})

\* The folder leaves the index, and its classification with it.
Leave(f) ==
  /\ f \in present
  /\ present' = present \ {f}
  /\ cls' = [cls EXCEPT ![f] = None]
  /\ byHand' = byHand \ {f}
  /\ UNCHANGED <<row, last, hint, op, todo, overlapped>>

Return(f) ==
  /\ f \notin present
  /\ present' = present \cup {f}
  /\ UNCHANGED <<row, last, cls, hint, op, todo, byHand, overlapped>>

\* Its files change, and what they suggest.
Shift(f) ==
  /\ \E h \in Category \ {hint[f]} : hint' = [hint EXCEPT ![f] = h]
  /\ UNCHANGED <<row, last, cls, present, op, todo, byHand, overlapped>>

\* The surface is killed, or a step of it fails.
Crash(s) ==
  /\ Busy(s)
  /\ op' = [op EXCEPT ![s] = Idle]
  /\ todo' = [todo EXCEPT ![s] = {}]
  /\ UNCHANGED <<row, last, cls, present, hint, byHand, overlapped>>

Step(s) ==
  \/ \E i \in Id, v \in Answer \cup {Note} : BeginAnswer(s, i, v)
  \/ \E F \in SUBSET Folder, v \in Answer : CommitBatch(s, F, v)
  \/ Commit(s) \/ Repair(s) \/ Project(s) \/ Stamp(s)
  \/ \E k \in Topic : Annotate(s, k)
  \/ \E f \in Folder : BeginClassify(s, f) \/ \E v \in Answer \cup {None} : SetByHand(s, f, v)
  \/ ReadHead(s) \/ Restore(s) \/ Skip(s) \/ Append(s)
  \/ \E i \in Id : BeginRevert(s, i) \/ Dismiss(s, i) \/ BeginExpire(s, i)
  \/ Expire(s) \/ CollectGarbage(s) \/ Crash(s)

Next ==
  \/ \E s \in Surface : Step(s)
  \/ \E f \in Folder : Leave(f) \/ Return(f) \/ Shift(f)

Spec == Init /\ [][Next]_vars

-----------------------------------------------------------------------------
(* Properties.                                                              *)

\* The inbox holds a question once, and none that was dismissed on the same
\* evidence, whoever asks, reverts and dismisses at the same time.
InboxIsQuiet ==
  \A i, j \in Id :
    row[i].status = "open" /\ i # j /\ row[j].key = row[i].key =>
      /\ row[j].status # "open"
      /\ ~(row[j].status = "dismissed" /\ row[j].hash = row[i].hash)

\* Every revision a row names is there, of the same question and answered, and
\* was superseded by a row that names it: chains survive races and collection.
ChainIsWhole ==
  \A i \in Id :
    /\ row[i].parent # 0 =>
         LET p == row[i].parent IN
         p < i /\ row[p].key = row[i].key /\ row[p].status = "decided"
    /\ row[i].super # 0 =>
         LET n == row[i].super IN row[n].parent = i /\ row[n].status = "decided"

\* As long as no two surfaces overlap, and whatever was killed in between, a
\* folder has one standing answer, and the classification that no hand has set
\* is that answer, unless it is still to be repaired.
StandingAnswerRules ==
  ~overlapped =>
    \A f \in Folder :
      /\ \A i, j \in Id : IsHead(i, f) /\ IsHead(j, f) => i = j
      /\ cls[f] # None /\ f \notin byHand /\ (\A s \in Surface : ~Busy(s)) =>
           \E i \in Id : IsHead(i, f) /\ (cls[f] = row[i].chosen \/ ~row[i].applied)

\* An answer is given once and for all, by the first who commits it, and a
\* superseding revision is named once.
AnswersStand ==
  [][\A i \in Id : row[i].status = "decided" =>
       /\ row'[i].status = "decided"
       /\ row'[i].chosen = row[i].chosen
       /\ row[i].super # 0 => row'[i].super = row[i].super
       /\ row[i].applied => row'[i].applied]_vars

\* "Every open question is created with a populated menu"
\* (crates/core/src/decisions/mod.rs:185-186).
EveryQuestionHasMenu == \A i \in Id : row[i].status = "open" => row[i].menu
=============================================================================
