------------------------ MODULE SummaryQueue_refines ------------------------
(***************************************************************************)
(* Proof that SummaryQueue implements LeasedTasks, for every tree whose    *)
(* entries last, every set of processes and loops, and all caps.           *)
(*                                                                         *)
(* Every step of the queue is one operation of the lease manager, or shows *)
(* none of itself.  The holder of a task is the loop that has it in hand:  *)
(* ClaimExclusive makes it one.                                            *)
(***************************************************************************)
EXTENDS SummaryQueue_proofs

\* No deletion and no retry request reaches a row that is worked on.
AllSteady == Volatile = {} /\ Retryable = {}

\* The abstract state, without the choice of a holder.
View ==
  /\ holderOf \in [Path -> Worker \cup {None}]
  /\ \A p \in Path : \A w \in Worker : holderOf[p] = w <=> Holds(w, p)
  /\ \A p \in Path : holderOf[p] = None <=> ~Held(p)

LEMMA ViewNow ==
  ASSUME AllSteady, ExclusiveInv
  PROVE  View
<1> USE QueueAssumption DEF QueueAssumption
<1>1. ASSUME NEW p \in Path PROVE /\ holderOf[p] \in Worker \cup {None}
                                  /\ \A w \in Worker : holderOf[p] = w <=> Holds(w, p)
                                  /\ holderOf[p] = None <=> ~Held(p)
  <2>1. \A v, w \in Worker : Holds(v, p) /\ Holds(w, p) => v = w
    BY DEF AllSteady, ExclusiveInv, ClaimExclusive, Steady
  <2>2. CASE Held(p)
    <3>1. PICK w \in Worker : Holds(w, p)
      BY <2>2 DEF Held
    <3>2. holderOf[p] = CHOOSE v \in Worker : Holds(v, p)
      BY <2>2 DEF holderOf
    <3>3. holderOf[p] \in Worker /\ Holds(holderOf[p], p)
      BY <3>1, <3>2, Zenon
    <3> QED
      BY <2>1, <2>2, <3>3
  <2>3. CASE ~Held(p)
    BY <2>3 DEF holderOf, Held
  <2> QED
    BY <2>2, <2>3
<1>2. holderOf = [p \in Path |-> holderOf[p]]
  BY DEF holderOf
<1> QED
  BY <1>1, <1>2 DEF View

\* The same of the next state.
LEMMA ViewNext ==
  ASSUME AllSteady, ExclusiveInv'
  PROVE  View'
<1> USE QueueAssumption DEF QueueAssumption
<1>1. ASSUME NEW p \in Path PROVE /\ holderOf'[p] \in Worker \cup {None}
                                  /\ \A w \in Worker : holderOf'[p] = w <=> Holds(w, p)'
                                  /\ holderOf'[p] = None <=> ~Held(p)'
  <2>1. \A v, w \in Worker : Holds(v, p)' /\ Holds(w, p)' => v = w
    BY DEF AllSteady, ExclusiveInv, ClaimExclusive, Steady
  <2>2. CASE Held(p)'
    <3>1. PICK w \in Worker : Holds(w, p)'
      BY <2>2 DEF Held
    <3>2. holderOf'[p] = CHOOSE v \in Worker : Holds(v, p)'
      BY <2>2 DEF holderOf
    <3>3. holderOf'[p] \in Worker /\ \E v \in Worker : v = holderOf'[p] /\ Holds(v, p)'
      BY <3>1, <3>2, Zenon
    <3> QED
      BY <2>1, <2>2, <3>3
  <2>3. CASE ~Held(p)'
    BY <2>3 DEF holderOf, Held
  <2> QED
    BY <2>2, <2>3
<1>2. holderOf' = [p \in Path |-> holderOf'[p]]
  BY DEF holderOf
<1> QED
  BY <1>1, <1>2 DEF View

-----------------------------------------------------------------------------
(* What the hands of the loops show.                                        *)

LEMMA SameHands ==
  ASSUME View, View', \A p \in Path, w \in Worker : Holds(w, p)' <=> Holds(w, p)
  PROVE  holderOf' = holderOf /\ \A p \in Path : Held(p)' <=> Held(p)
<1>1. \A p \in Path : Held(p)' <=> Held(p)
  BY DEF Held
<1>2. \A p \in Path : holderOf'[p] = holderOf[p]
  <2> TAKE p \in Path
  <2>1. CASE holderOf[p] = None
    BY <1>1, <2>1 DEF View
  <2>2. CASE holderOf[p] # None
    <3>1. holderOf[p] \in Worker
      BY <2>2 DEF View
    <3> QED
      BY <3>1 DEF View
  <2> QED
    BY <2>1, <2>2
<1> QED
  BY <1>1, <1>2 DEF View

LEMMA Stutter ==
  ASSUME View, View', UNCHANGED state, \A p \in Path, w \in Worker : Holds(w, p)' <=> Holds(w, p)
  PROVE  UNCHANGED Leases!leaseVars
BY SameHands DEF Leases!leaseVars, Pending, lostItems

\* One loop lets go of what it had.
LEMMA LetGo ==
  ASSUME View, View', QueueAssumption, NEW w \in Worker, NEW q \in Path, Holds(w, q),
         \A p \in Path, v \in Worker : Holds(v, p)' <=> Holds(v, p) /\ v # w
  PROVE  /\ holderOf[q] = w /\ holderOf' = [holderOf EXCEPT ![q] = None]
         /\ Held(q) /\ ~Held(q)' /\ \A p \in Path \ {q} : Held(p)' <=> Held(p)
<1>1. holderOf[q] = w /\ Held(q)
  BY DEF View, Held
<1>2. \A v \in Worker : Holds(v, q) => v = w
  BY <1>1 DEF View
<1>3. ~Held(q)' /\ holderOf'[q] = None
  <2>1. ~Held(q)'
    BY <1>2 DEF Held
  <2> QED
    BY <2>1 DEF View
<1>4. \A p \in Path \ {q} : ~Holds(w, p)
  BY DEF Holds
<1>5. ASSUME NEW p \in Path \ {q} PROVE holderOf'[p] = holderOf[p] /\ (Held(p)' <=> Held(p))
  <2>1. \A v \in Worker : Holds(v, p)' <=> Holds(v, p)
    BY <1>4
  <2>2. Held(p)' <=> Held(p)
    BY <2>1 DEF Held
  <2>3. CASE holderOf[p] = None
    BY <2>2, <2>3 DEF View
  <2>4. CASE holderOf[p] # None
    <3>1. holderOf[p] \in Worker
      BY <2>4 DEF View
    <3> QED
      BY <2>1, <2>2, <3>1 DEF View
  <2> QED
    BY <2>2, <2>3, <2>4
<1>6. holderOf' = [holderOf EXCEPT ![q] = None]
  <2>1. /\ holderOf \in [Path -> Worker \cup {None}] /\ holderOf' \in [Path -> Worker \cup {None}]
        /\ \A p \in Path \ {q} : holderOf'[p] = holderOf[p]
    BY <1>5 DEF View
  <2> QED
    BY <1>3, <2>1
<1> QED
  BY <1>1, <1>3, <1>5, <1>6

\* Some loops are killed.
LEMMA Struck ==
  ASSUME View, View', QueueAssumption, NEW A \in SUBSET Worker, UNCHANGED state,
         \A p \in Path : Held(p) => state[p] = "in_flight",
         \A p \in Path, v \in Worker : Holds(v, p)' <=> Holds(v, p) /\ v \notin A
  PROVE  Leases!Vanish(A)
<1> DEFINE theirs == {p \in Path : holderOf[p] \in A}
<1>1. \A p \in Path : p \in theirs <=> \E v \in A : Holds(v, p)
  BY DEF View
<1>2. ASSUME NEW p \in Path PROVE /\ holderOf'[p] = IF p \in theirs THEN None ELSE holderOf[p]
                                  /\ Held(p)' <=> Held(p) /\ p \notin theirs
  <2>1. CASE p \in theirs
    <3>1. PICK a \in A : holderOf[p] = a /\ a \in Worker
      BY <2>1
    <3>2. \A v \in Worker : Holds(v, p) => v = a
      BY <3>1 DEF View
    <3>3. ~Held(p)'
      BY <3>1, <3>2 DEF Held
    <3> QED
      BY <2>1, <3>3 DEF View
  <2>2. CASE p \notin theirs
    <3>1. \A v \in Worker : Holds(v, p)' <=> Holds(v, p)
      BY <1>1, <2>2
    <3>2. Held(p)' <=> Held(p)
      BY <3>1 DEF Held
    <3>3. CASE holderOf[p] = None
      BY <2>2, <3>2, <3>3 DEF View
    <3>4. CASE holderOf[p] # None
      <4>1. holderOf[p] \in Worker
        BY <3>4 DEF View
      <4> QED
        BY <2>2, <3>1, <3>2, <4>1 DEF View
    <3> QED
      BY <2>2, <3>2, <3>3, <3>4
  <2> QED
    BY <2>1, <2>2
<1>3. holderOf' = [p \in Path |-> IF p \in theirs THEN None ELSE holderOf[p]]
  BY <1>2 DEF View
<1>4. \A p \in theirs : Held(p)
  BY <1>1 DEF Held
<1> HIDE DEF theirs
<1>5. theirs \subseteq Path
  BY DEF theirs
<1>6. lostItems' = lostItems \cup theirs /\ Pending' = Pending
  BY <1>2, <1>4, <1>5 DEF lostItems, Pending
<1> QED
  BY <1>3, <1>6 DEF Leases!Vanish, theirs

\* Nobody's hands change, and tasks are put up that were neither held nor lost.
LEMMA PutUp ==
  ASSUME AllSteady, ExclusiveInv, ExclusiveInv', QueueAssumption, NEW S \in SUBSET Path,
         \A p \in Path, w \in Worker : Holds(w, p)' <=> Holds(w, p),
         \A p \in S : state[p] # "in_flight" /\ state'[p] = "pending",
         \A p \in Path \ S : state'[p] = state[p]
  PROVE  Leases!Offer(S)
<1>1. View /\ View'
  BY ViewNow, ViewNext
<1>2. holderOf' = holderOf /\ \A p \in Path : Held(p)' <=> Held(p)
  BY <1>1, SameHands
<1>3. \A p \in S : ~Held(p)
  BY DEF Held, ExclusiveInv, HeldInFlight, Steady, AllSteady
<1>4. \A p \in S : holderOf[p] = None /\ p \notin lostItems
  BY <1>1, <1>3 DEF View, lostItems
<1>5. Pending' = Pending \cup S
  BY DEF Pending
<1>6. lostItems' = lostItems
  BY <1>2 DEF lostItems
<1> QED
  BY <1>2, <1>4, <1>5, <1>6 DEF Leases!Offer, Leases!Unleased

\* A loop ends with its item, whose row takes any state but in flight.
LEMMA Ends ==
  ASSUME AllSteady, ExclusiveInv, ExclusiveInv', QueueAssumption,
         NEW w \in Worker, NEW q \in Path, Holds(w, q), NEW s \in RowState \ {"in_flight"},
         \A p \in Path, v \in Worker : Holds(v, p)' <=> Holds(v, p) /\ v # w,
         state'[q] = s, \A p \in Path \ {q} : state'[p] = state[p]
  PROVE  IF s = "pending" THEN Leases!GiveBack(w, q) ELSE Leases!Settle(w, q)
<1>1. View /\ View'
  BY ViewNow, ViewNext
<1>2. /\ holderOf[q] = w /\ holderOf' = [holderOf EXCEPT ![q] = None]
      /\ Held(q) /\ ~Held(q)' /\ \A p \in Path \ {q} : Held(p)' <=> Held(p)
  BY <1>1, LetGo
<1>3. state[q] = "in_flight"
  BY DEF ExclusiveInv, HeldInFlight, Steady, AllSteady
<1>4. lostItems' = lostItems
  BY <1>2 DEF lostItems
<1>5. Pending' = IF s = "pending" THEN Pending \cup {q} ELSE Pending
  BY <1>3 DEF Pending
<1> QED
  BY <1>2, <1>4, <1>5 DEF Leases!GiveBack, Leases!Settle

-----------------------------------------------------------------------------
(* Every step of the queue is a step of the lease manager, or none.         *)

LEMMA ClaimTakes ==
  ASSUME AllSteady, ExclusiveInv, ExclusiveInv', NEW w \in Worker, Claim(w)
  PROVE  \E p \in Path : Leases!Take(w, p)
<1> USE QueueAssumption DEF QueueAssumption
<1>1. PICK q \in Pending : /\ state' = [state EXCEPT ![q] = "in_flight"]
                           /\ phase' = [phase EXCEPT ![w] = "claimed"]
                           /\ item' = [item EXCEPT ![w] = q]
  BY DEF Claim, Deepest
<1>2. /\ phase[w] = "idle" /\ q \in Path /\ state[q] = "pending" /\ TypeOK
  BY <1>1 DEF Claim, Pending, ExclusiveInv, TypeInv
<1>3. View /\ View'
  BY ViewNow, ViewNext
<1>4. \A p \in Path : ~Holds(w, p)
  BY <1>2 DEF Holds, Busy
<1>5. \A p \in Path : Holds(w, p)' <=> p = q
  BY <1>1, <1>2 DEF Holds, TypeOK, Busy, Phase
<1>6. \A p \in Path, v \in Worker \ {w} : Holds(v, p)' <=> Holds(v, p)
  BY <1>1, <1>2 DEF Holds, TypeOK
<1>7. ~Held(q)
  <2>1. \A v \in Worker : Holds(v, q) => state[q] = "in_flight"
    BY <1>2 DEF ExclusiveInv, HeldInFlight, Steady, AllSteady
  <2> QED
    BY <1>2, <2>1 DEF Held
<1>8. Held(q)' /\ \A p \in Path \ {q} : Held(p)' <=> Held(p)
  <2>1. Held(q)'
    BY <1>2, <1>5 DEF Held
  <2>2. ASSUME NEW p \in Path \ {q} PROVE Held(p)' <=> Held(p)
    <3>1. \A v \in Worker : Holds(v, p)' <=> Holds(v, p)
      BY <1>4, <1>5, <1>6
    <3> QED
      BY <3>1 DEF Held
  <2> QED
    BY <2>1, <2>2
<1>9. holderOf'[q] = w
  BY <1>2, <1>3, <1>5 DEF View
<1>10. ASSUME NEW p \in Path \ {q} PROVE holderOf'[p] = holderOf[p]
  <2>1. CASE holderOf[p] = None
    BY <1>3, <1>8, <2>1 DEF View
  <2>2. CASE holderOf[p] # None
    <3>1. holderOf[p] \in Worker \ {w}
      BY <1>3, <1>4, <2>2 DEF View
    <3> QED
      BY <1>3, <1>6, <3>1 DEF View
  <2> QED
    BY <2>1, <2>2
<1>11. holderOf' = [holderOf EXCEPT ![q] = w]
  <2>1. /\ holderOf \in [Path -> Worker \cup {None}] /\ holderOf' \in [Path -> Worker \cup {None}]
        /\ \A p \in Path \ {q} : holderOf'[p] = holderOf[p]
    BY <1>3, <1>10 DEF View
  <2> QED
    BY <1>9, <2>1
<1>12. Leases!Free(w) /\ q \in Pending
  BY <1>1, <1>3, <1>4 DEF Leases!Free, View
<1>13. Pending' = Pending \ {q}
  BY <1>1, <1>2 DEF Pending, TypeOK
<1>14. lostItems' = lostItems
  BY <1>1, <1>2, <1>8 DEF lostItems, TypeOK
<1> QED
  BY <1>2, <1>11, <1>12, <1>13, <1>14 DEF Leases!Take

\* A loop that only moves on shows nothing.
LEMMA MovesOn ==
  ASSUME AllSteady, ExclusiveInv, ExclusiveInv', UNCHANGED <<state, item>>,
         NEW w \in Worker, NEW s \in Phase, phase' = [phase EXCEPT ![w] = s],
         phase[w] \in Busy <=> s \in Busy
  PROVE  UNCHANGED Leases!leaseVars
<1>1. View /\ View'
  BY ViewNow, ViewNext
<1>2. \A p \in Path, v \in Worker : Holds(v, p)' <=> Holds(v, p)
  BY DEF Holds, ExclusiveInv, TypeInv, TypeOK
<1> QED
  BY <1>1, <1>2, Stutter

\* A loop lets go of its item: what Release does to the hands.
LEMMA Released ==
  ASSUME TypeOK, NEW w \in Worker, phase[w] \in Busy, Release(w)
  PROVE  /\ item[w] \in Path /\ Holds(w, item[w])
         /\ \A p \in Path, v \in Worker : Holds(v, p)' <=> Holds(v, p) /\ v # w
<1> USE QueueAssumption DEF QueueAssumption
<1>1. item[w] \in Path /\ Holds(w, item[w])
  BY DEF TypeOK, Holds
<1>2. \A v \in Worker : /\ v # w => phase'[v] = phase[v] /\ item'[v] = item[v]
                        /\ v = w => phase'[v] = "idle"
  BY DEF TypeOK, Release
<1> QED
  BY <1>1, <1>2 DEF Holds, Busy

\* A marked row was in flight, so marking it changes it.
LEMMA Marked ==
  ASSUME AllSteady, ExclusiveInv, NEW w \in Worker, NEW q \in Path, Holds(w, q),
         NEW s \in RowState, MarkRow(q, s)
  PROVE  state'[q] = s /\ \A p \in Path \ {q} : state'[p] = state[p]
<1>1. state[q] = "in_flight"
  BY DEF ExclusiveInv, HeldInFlight, Steady, AllSteady
<1> QED
  BY <1>1 DEF MarkRow, ExclusiveInv, TypeInv, TypeOK

LEMMA StepRefines ==
  ASSUME AllSteady, ExclusiveInv, ExclusiveInv', NEW w \in Worker, Step(w) \/ Fault(w)
  PROVE  Leases!LeaseNext \/ UNCHANGED Leases!leaseVars
<1> USE QueueAssumption DEF QueueAssumption
<1> DEFINE q == item[w]
<1>1. TypeOK /\ View /\ View'
  BY ViewNow, ViewNext DEF ExclusiveInv, TypeInv
<1>2. ASSUME phase[w] \in Busy, Release(w), NEW s \in RowState \ {"in_flight"},
             state'[q] = s, \A p \in Path \ {q} : state'[p] = state[p]
      PROVE  Leases!LeaseNext
  <2>1. /\ q \in Path /\ Holds(w, q)
        /\ \A p \in Path, v \in Worker : Holds(v, p)' <=> Holds(v, p) /\ v # w
    BY <1>1, <1>2, Released
  <2>2. PICK p \in Path : p = q
    BY <2>1
  <2>3. IF s = "pending" THEN Leases!GiveBack(w, p) ELSE Leases!Settle(w, p)
    BY <1>2, <2>1, <2>2, Ends
  <2> QED
    BY <2>3 DEF Leases!LeaseNext
<1>3. ASSUME phase[w] \in Busy, Release(w), NEW s \in RowState \ {"in_flight"}, MarkRow(q, s)
      PROVE  Leases!LeaseNext
  <2>1. q \in Path /\ Holds(w, q)
    BY <1>1, <1>3, Released
  <2>2. state'[q] = s /\ \A p \in Path \ {q} : state'[p] = state[p]
    BY <1>3, <2>1, Marked
  <2> QED
    BY <1>2, <1>3, <2>2
<1> HIDE DEF q
<1>4. CASE Claim(w)
  BY <1>4, ClaimTakes DEF Leases!LeaseNext
<1>5. CASE CheckAllowed(w)
  <2>1. PICK s \in Busy : phase' = [phase EXCEPT ![w] = s]
    BY <1>5 DEF CheckAllowed, Busy, Phase
  <2> QED
    BY <1>5, <2>1, MovesOn DEF CheckAllowed, Busy, Phase, queueVars
<1>6. CASE DeleteOrphan(w)
  <2>1. state'[q] = "none" /\ \A p \in Path \ {q} : state'[p] = state[p]
    <3>1. q \in Path
      BY <1>1, <1>6, Released DEF DeleteOrphan, Busy, Phase, q
    <3> QED
      BY <1>1, <1>6, <3>1 DEF DeleteOrphan, DropRow, TypeOK, q
  <2> QED
    BY <1>2, <1>6, <2>1 DEF DeleteOrphan, Busy, Phase, RowState
<1>7. CASE CheckSubtree(w)
  <2>1. PICK s \in Busy : phase' = [phase EXCEPT ![w] = s]
    BY <1>7 DEF CheckSubtree, Busy, Phase
  <2> QED
    BY <1>7, <2>1, MovesOn DEF CheckSubtree, Busy, Phase, queueVars
<1>8. CASE Defer(w)
  BY <1>3, <1>8 DEF Defer, Busy, Phase, RowState, q
<1>9. CASE Finish(w)
  BY <1>3, <1>9 DEF Finish, FinishAs, Busy, Phase, RowState, q
<1>10. CASE CheckSubtreeReadError(w)
  BY <1>10, MovesOn DEF CheckSubtreeReadError, Busy, Phase, queueVars
<1>11. CASE StoreErrorMarked(w)
  BY <1>3, <1>11 DEF StoreErrorMarked, RowState, q
<1>12. CASE StoreErrorUnmarked(w)
  <2>1. \A p \in Path, v \in Worker : Holds(v, p)' <=> Holds(v, p) /\ v \notin {w}
    BY <1>1, <1>12, Released DEF StoreErrorUnmarked
  <2>2. \A p \in Path : Held(p) => state[p] = "in_flight"
    BY DEF Held, ExclusiveInv, HeldInFlight, Steady, AllSteady
  <2>3. Leases!Vanish({w})
    BY <1>1, <1>12, <2>1, <2>2, Struck DEF StoreErrorUnmarked
  <2> QED
    BY <2>3 DEF Leases!LeaseNext
<1> QED
  BY <1>4, <1>5, <1>6, <1>7, <1>8, <1>9, <1>10, <1>11, <1>12 DEF Step, Fault

LEMMA BootRefines ==
  ASSUME AllSteady, SweeperAlone, ExclusiveInv, ExclusiveInv', NEW pr \in Proc, Boot(pr)
  PROVE  Leases!LeaseNext \/ UNCHANGED Leases!leaseVars
<1> USE QueueAssumption DEF QueueAssumption
<1>1. TypeOK /\ View /\ View' /\ OffWhenDown
  BY ViewNow, ViewNext DEF ExclusiveInv, TypeInv
<1>2. \A w \in Worker : ProcOf[w] = pr => phase[w] = "off"
  BY <1>1 DEF Boot, OffWhenDown
<1>3. \A p \in Path, w \in Worker : Holds(w, p)' <=> Holds(w, p)
  BY <1>2 DEF Boot, Holds, Busy
<1>4. CASE UNCHANGED state
  BY <1>1, <1>3, <1>4, Stutter
<1>5. CASE pr \in Sweeper /\ state' = [p \in Path |-> Swept(p)]
  \* The sweeper is alone, so every row in flight is a lost one.
  <2> DEFINE givenUp == {p \in lostItems : attempts[p] >= MaxAttempts}
  <2>1. \A p \in Path : ~Held(p)
    BY <1>2, <1>5 DEF SweeperAlone, Held, Holds, Busy
  <2>2. holderOf' = holderOf /\ \A p \in Path : ~Held(p)'
    BY <1>1, <1>3, <2>1, SameHands
  <2>3. lostItems' = {}
    BY <1>5, <2>2 DEF lostItems, Swept
  <2>4. Pending' = Pending \cup (lostItems \ givenUp)
    BY <1>5, <2>1 DEF Pending, lostItems, Swept
  <2>5. Leases!Recover(givenUp)
    BY <2>2, <2>3, <2>4 DEF Leases!Recover
  <2>6. givenUp \in SUBSET Path
    BY DEF lostItems
  <2> QED
    BY <2>5, <2>6 DEF Leases!LeaseNext
<1> QED
  BY <1>4, <1>5 DEF Boot, Sweep

LEMMA ProcessRefines ==
  ASSUME AllSteady, SweeperAlone, ExclusiveInv, ExclusiveInv',
         \/ \E w \in Worker : StartJob(w) \/ EndJob(w)
         \/ \E pr \in Proc : Boot(pr) \/ Crash(pr)
  PROVE  Leases!LeaseNext \/ UNCHANGED Leases!leaseVars
<1> USE QueueAssumption DEF QueueAssumption
<1>1. ASSUME NEW w \in Worker, StartJob(w) PROVE UNCHANGED Leases!leaseVars
  BY <1>1, MovesOn DEF StartJob, Phase, Busy, queueVars
<1>2. ASSUME NEW w \in Worker, EndJob(w) PROVE UNCHANGED Leases!leaseVars
  BY <1>2, MovesOn DEF EndJob, Phase, Busy, queueVars
<1>3. ASSUME NEW pr \in Proc, Crash(pr) PROVE Leases!LeaseNext
  <2> DEFINE killed == {w \in Worker : ProcOf[w] = pr}
  <2>1. View /\ View'
    BY ViewNow, ViewNext
  <2>2. \A p \in Path, v \in Worker : Holds(v, p)' <=> Holds(v, p) /\ v \notin killed
    BY <1>3 DEF Crash, Holds, Busy
  <2>3. \A p \in Path : Held(p) => state[p] = "in_flight"
    BY DEF Held, ExclusiveInv, HeldInFlight, Steady, AllSteady
  <2>4. UNCHANGED state
    BY <1>3 DEF Crash
  <2>5. killed \in SUBSET Worker
    OBVIOUS
  <2> HIDE DEF killed
  <2>6. Leases!Vanish(killed)
    BY <2>1, <2>2, <2>3, <2>4, <2>5, Struck
  <2> QED
    BY <2>5, <2>6 DEF Leases!LeaseNext
<1> QED
  BY <1>1, <1>2, <1>3, BootRefines

LEMMA EnvironmentRefines ==
  ASSUME AllSteady, ExclusiveInv, ExclusiveInv', Environment
  PROVE  Leases!LeaseNext \/ UNCHANGED Leases!leaseVars
<1> USE QueueAssumption DEF QueueAssumption
<1>1. TypeOK /\ View /\ View'
  BY ViewNow, ViewNext DEF ExclusiveInv, TypeInv
<1>2. ASSUME UNCHANGED workerVars PROVE \A p \in Path, w \in Worker : Holds(w, p)' <=> Holds(w, p)
  BY <1>2 DEF Holds, workerVars
<1>3. ASSUME UNCHANGED <<state, workerVars>> PROVE UNCHANGED Leases!leaseVars
  BY <1>1, <1>2, <1>3, Stutter
<1>4. ASSUME NEW S \in SUBSET Path, Enqueue(S) PROVE Leases!LeaseNext
  <2> DEFINE new == {p \in S : state[p] = "none" /\ Allowed(p)}
  <2>1. /\ \A p \in new : state[p] # "in_flight" /\ state'[p] = "pending"
        /\ \A p \in Path \ new : state'[p] = state[p]
    BY <1>4 DEF Enqueue
  <2>2. new \in SUBSET Path
    OBVIOUS
  <2> HIDE DEF new
  <2>3. Leases!Offer(new)
    BY <1>2, <1>4, <2>1, <2>2, PutUp DEF Enqueue
  <2> QED
    BY <2>2, <2>3 DEF Leases!LeaseNext
<1>5. ASSUME NEW S \in SUBSET Path, MarkForResummary(S) PROVE Leases!LeaseNext
  <2> DEFINE hit == {p \in S : Allowed(p) /\ state[p] # "in_flight"}
  <2>1. /\ \A p \in hit : state[p] # "in_flight" /\ state'[p] = "pending"
        /\ \A p \in Path \ hit : state'[p] = state[p]
    BY <1>5 DEF MarkForResummary
  <2>2. hit \in SUBSET Path
    OBVIOUS
  <2> HIDE DEF hit
  <2>3. Leases!Offer(hit)
    BY <1>2, <1>5, <2>1, <2>2, PutUp DEF MarkForResummary
  <2> QED
    BY <2>2, <2>3 DEF Leases!LeaseNext
<1>6. ASSUME NEW S \in SUBSET Path, NEW e \in {"ok", "excluded"}, UpsertEntries(S, e)
      PROVE  UNCHANGED Leases!leaseVars
  BY <1>3, <1>6 DEF UpsertEntries, queueVars
<1>7. ASSUME NEW S \in SUBSET Volatile, DeleteEntries(S) PROVE UNCHANGED Leases!leaseVars
  <2>1. S = {}
    BY DEF AllSteady
  <2>2. UNCHANGED state
    BY <1>1, <1>7, <2>1 DEF DeleteEntries, DropRows, TypeOK
  <2> QED
    BY <1>3, <1>7, <2>2 DEF DeleteEntries
<1>8. CASE PruneOrphans
  <2>1. \A p \in Path : entry[p] # "none"
    BY DEF ExclusiveInv, LastingEntries, AllSteady
  <2>2. UNCHANGED state
    BY <1>1, <1>8, <2>1 DEF PruneOrphans, DropRows, TypeOK
  <2> QED
    BY <1>3, <1>8, <2>2 DEF PruneOrphans
<1> QED
  BY <1>4, <1>5, <1>6, <1>7, <1>8 DEF Environment, AllSteady

\* Seen through what is pending, in whose hands and stranded, the queue with its
\* many loops and processes is a lease manager, whose every operation is atomic:
\* a task is leased to one agent, a lost lease is recovered by a sweep alone
\* (queue.rs, worker.rs).  No entry disappears and no retry request comes, and a
\* process that sweeps has the database to itself.
THEOREM QueueImplementsLeases == SweeperAlone /\ AllSteady => (Spec => ImplementsLeases)
<1> SUFFICES ASSUME SweeperAlone, AllSteady PROVE Spec => ImplementsLeases
  OBVIOUS
<1>1. Init => Leases!LeaseInit
  <2> SUFFICES ASSUME Init PROVE Leases!LeaseInit
    OBVIOUS
  <2>1. \A p \in Path : ~Held(p)
    BY DEF Init, Held, Holds, Busy
  <2>2. holderOf = [p \in Path |-> None]
    BY <2>1 DEF holderOf
  <2> QED
    BY <2>2 DEF Init, Leases!LeaseInit, Pending, lostItems
<1>2. ExclusiveInv /\ [Next]_vars => ExclusiveInv'
  BY NextExclusive
<1>3. ExclusiveInv /\ ExclusiveInv' /\ [Next]_vars => [Leases!LeaseNext]_(Leases!leaseVars)
  <2> SUFFICES ASSUME ExclusiveInv, ExclusiveInv', [Next]_vars
               PROVE  Leases!LeaseNext \/ UNCHANGED Leases!leaseVars
    OBVIOUS
  <2>1. CASE Next
    BY <2>1, StepRefines, ProcessRefines, EnvironmentRefines DEF Next
  <2>2. CASE UNCHANGED vars
    <3>1. \A p \in Path, w \in Worker : Holds(w, p)' <=> Holds(w, p)
      BY <2>2 DEF vars, Holds
    <3> QED
      BY <2>2, <3>1, ViewNow, ViewNext, Stutter DEF vars
  <2> QED
    BY <2>1, <2>2
<1> QED
  BY <1>1, <1>2, <1>3, InitExclusive, PTL DEF Spec, ImplementsLeases, Leases!LeaseSpec

=============================================================================
