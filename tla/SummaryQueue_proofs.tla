------------------------ MODULE SummaryQueue_proofs ------------------------
(***************************************************************************)
(* Proofs about SummaryQueue, for every tree, every set of processes and   *)
(* loops, and all caps.                                                    *)
(***************************************************************************)
EXTENDS SummaryQueue, TLAPS

\* A loop on its way to a defer has a directory in hand and has not reached its
\* cap; without this the defer count would not stay within its type.
DeferControl ==
  \A w \in Worker : phase[w] \in {"admitted", "deferring"} =>
    item[w] \in Dir /\ defers[w][item[w]] < MaxDirDefers

\* The loops of a process that is down are off, so starting it takes nothing
\* out of anybody's hands.
OffWhenDown == \A w \in Worker : ProcOf[w] \notin up => phase[w] = "off"

TypeInv == TypeOK /\ DeferControl /\ OffWhenDown

USE DEF EntryState, RowState, Phase, Busy, queueVars, workerVars, Steady

LEMMA InitTypeInv == Init => TypeInv
BY QueueAssumption DEF QueueAssumption, Init, TypeInv, TypeOK, DeferControl, OffWhenDown

LEMMA ForgetDefersType ==
  ASSUME TypeInv, NEW w \in Worker, NEW p \in Path, ForgetDefers(w, p)
  PROVE  /\ defers' \in [Worker -> [Dir -> 0..MaxDirDefers]]
         /\ \A v \in Worker : v # w => defers'[v] = defers[v]
BY QueueAssumption DEF QueueAssumption, TypeInv, TypeOK, ForgetDefers

LEMMA StepTypeInv ==
  ASSUME TypeInv, NEW w \in Worker, Step(w) \/ Fault(w)
  PROVE  TypeInv'
<1> USE QueueAssumption DEF QueueAssumption, TypeInv, TypeOK, DeferControl, OffWhenDown
<1>1. CASE Claim(w)
  BY <1>1 DEF Claim, Pending, Deepest
<1>2. CASE CheckAllowed(w)
  BY <1>2 DEF CheckAllowed, Forced
<1>3. CASE DeleteOrphan(w)
  <2>1. ForgetDefers(w, item[w]) /\ item[w] \in Path
    BY <1>3 DEF DeleteOrphan
  <2> QED
    BY <1>3, <2>1, ForgetDefersType DEF DeleteOrphan, DropRow, Release
<1>4. CASE CheckSubtree(w)
  BY <1>4 DEF CheckSubtree
<1>5. CASE Defer(w)
  BY <1>5 DEF Defer, MarkRow, UndoAttempt, Release
<1>6. CASE Finish(w)
  <2>1. PICK s \in {"done", "failed"} : FinishAs(w, s)
    BY <1>6 DEF Finish
  <2>2. ForgetDefers(w, item[w]) /\ item[w] \in Path
    BY <2>1 DEF FinishAs
  <2> QED
    BY <2>1, <2>2, ForgetDefersType DEF FinishAs, MarkRow, Release
<1>7. CASE CheckSubtreeReadError(w)
  BY <1>7 DEF CheckSubtreeReadError
<1>8. CASE StoreErrorMarked(w)
  <2>1. ForgetDefers(w, item[w]) /\ item[w] \in Path
    BY <1>8 DEF StoreErrorMarked
  <2> QED
    BY <1>8, <2>1, ForgetDefersType DEF StoreErrorMarked, MarkRow, Release
<1>9. CASE StoreErrorUnmarked(w)
  <2>1. ForgetDefers(w, item[w]) /\ item[w] \in Path
    BY <1>9 DEF StoreErrorUnmarked
  <2> QED
    BY <1>9, <2>1, ForgetDefersType DEF StoreErrorUnmarked, Release
<1> QED
  BY <1>1, <1>2, <1>3, <1>4, <1>5, <1>6, <1>7, <1>8, <1>9 DEF Step, Fault

LEMMA ProcessTypeInv ==
  ASSUME TypeInv,
         \/ \E w \in Worker : StartJob(w) \/ EndJob(w)
         \/ \E pr \in Proc : Boot(pr) \/ Crash(pr)
  PROVE  TypeInv'
<1> USE QueueAssumption DEF QueueAssumption, TypeInv, TypeOK, DeferControl, OffWhenDown
<1>1. ASSUME NEW w \in Worker, StartJob(w) PROVE TypeInv'
  BY <1>1 DEF StartJob
<1>2. ASSUME NEW w \in Worker, EndJob(w) PROVE TypeInv'
  BY <1>2 DEF EndJob
<1>3. ASSUME NEW pr \in Proc, Boot(pr) PROVE TypeInv'
  BY <1>3 DEF Boot, Sweep, Swept
<1>4. ASSUME NEW pr \in Proc, Crash(pr) PROVE TypeInv'
  BY <1>4 DEF Crash, Holds
<1> QED
  BY <1>1, <1>2, <1>3, <1>4

LEMMA EnvironmentTypeInv ==
  ASSUME TypeInv, Environment
  PROVE  TypeInv'
<1> USE QueueAssumption DEF QueueAssumption, TypeInv, TypeOK, DeferControl, OffWhenDown, Event
<1>1. ASSUME NEW S \in SUBSET Path, Enqueue(S) PROVE TypeInv'
  BY <1>1 DEF Enqueue
<1>2. ASSUME NEW S \in SUBSET Path, MarkForResummary(S) PROVE TypeInv'
  BY <1>2 DEF MarkForResummary
<1>3. ASSUME NEW S \in SUBSET Path, NEW e \in {"ok", "excluded"}, UpsertEntries(S, e)
      PROVE  TypeInv'
  BY <1>3 DEF UpsertEntries
<1>4. ASSUME NEW S \in SUBSET Volatile, DeleteEntries(S) PROVE TypeInv'
  BY <1>4 DEF DeleteEntries, DropRows
<1>5. CASE PruneOrphans
  BY <1>5 DEF PruneOrphans, DropRows
<1>6. ASSUME NEW p \in Retryable, Retry(p) PROVE TypeInv'
  BY <1>6 DEF Retry, MarkRow
<1> QED
  BY <1>1, <1>2, <1>3, <1>4, <1>5, <1>6 DEF Environment

LEMMA NextTypeInv == TypeInv /\ [Next]_vars => TypeInv'
<1> SUFFICES ASSUME TypeInv, [Next]_vars PROVE TypeInv'
  OBVIOUS
<1>1. CASE Next
  BY <1>1, StepTypeInv, ProcessTypeInv, EnvironmentTypeInv DEF Next
<1>2. CASE UNCHANGED vars
  BY <1>2 DEF vars, TypeInv, TypeOK, DeferControl, OffWhenDown
<1> QED
  BY <1>1, <1>2

LEMMA AlwaysTypeInv == Spec => []TypeInv
BY InitTypeInv, NextTypeInv, PTL DEF Spec

\* Every variable keeps its type; a loop's defer count never passes the cap
\* that forces the roll-up (worker.rs:107-110).
THEOREM TypeCorrect == Spec => []TypeOK
BY AlwaysTypeInv, PTL DEF TypeInv

-----------------------------------------------------------------------------
(* A claimed item is in one pair of hands.                                  *)

\* The comment on requeue_stale_in_flight asks for this: a process that sweeps
\* has the database to itself.
SweeperAlone == \A pr \in Sweeper : Proc = {pr}

LastingEntries == \A p \in Path : entry[p] = "none" => p \in Volatile

\* While a loop has an item in hand its row stays in flight, so the atomic
\* claim, which takes pending rows only, cannot hand it out again.
HeldInFlight ==
  \A w \in Worker : \A p \in Steady :
    Holds(w, p) => state[p] = "in_flight"

ExclusiveInv ==
  TypeInv /\ LastingEntries /\ HeldInFlight /\ ClaimExclusive

USE DEF Holds

LEMMA InitExclusive == Init => ExclusiveInv
<1> SUFFICES ASSUME Init PROVE ExclusiveInv
  OBVIOUS
<1>1. TypeInv
  BY InitTypeInv
<1> QED
  BY <1>1 DEF Init, ExclusiveInv, LastingEntries, HeldInFlight,
              ClaimExclusive

LEMMA StepExclusive ==
  ASSUME ExclusiveInv, NEW w \in Worker, Step(w) \/ Fault(w)
  PROVE  ExclusiveInv'
<1>1. TypeInv'
  BY StepTypeInv DEF ExclusiveInv
<1> USE QueueAssumption DEF QueueAssumption, ExclusiveInv, TypeInv, TypeOK,
        OffWhenDown, LastingEntries, HeldInFlight, ClaimExclusive
<1>2. CASE Claim(w)
  BY <1>1, <1>2 DEF Claim, Pending, Deepest
<1>3. CASE CheckAllowed(w)
  BY <1>1, <1>3 DEF CheckAllowed, Forced
<1>4. CASE DeleteOrphan(w)
  BY <1>1, <1>4 DEF DeleteOrphan, DropRow, ForgetDefers, Release
<1>5. CASE CheckSubtree(w)
  BY <1>1, <1>5 DEF CheckSubtree
<1>6. CASE Defer(w)
  BY <1>1, <1>6 DEF Defer, MarkRow, UndoAttempt, Release
<1>7. CASE Finish(w)
  <2>1. PICK s \in {"done", "failed"} : FinishAs(w, s)
    BY <1>7 DEF Finish
  <2> QED
    BY <1>1, <2>1 DEF FinishAs, MarkRow, ForgetDefers, Release
<1>8. CASE CheckSubtreeReadError(w)
  BY <1>1, <1>8 DEF CheckSubtreeReadError
<1>9. CASE StoreErrorMarked(w)
  BY <1>1, <1>9 DEF StoreErrorMarked, MarkRow, ForgetDefers, Release
<1>10. CASE StoreErrorUnmarked(w)
  BY <1>1, <1>10 DEF StoreErrorUnmarked, ForgetDefers, Release
<1> QED
  BY <1>2, <1>3, <1>4, <1>5, <1>6, <1>7, <1>8, <1>9, <1>10 DEF Step, Fault

LEMMA ProcessExclusive ==
  ASSUME ExclusiveInv, SweeperAlone,
         \/ \E w \in Worker : StartJob(w) \/ EndJob(w)
         \/ \E pr \in Proc : Boot(pr) \/ Crash(pr)
  PROVE  ExclusiveInv'
<1>1. TypeInv'
  BY ProcessTypeInv DEF ExclusiveInv
<1> USE QueueAssumption DEF QueueAssumption, ExclusiveInv, TypeInv, TypeOK,
        OffWhenDown, LastingEntries, HeldInFlight, ClaimExclusive
<1>2. ASSUME NEW w \in Worker, StartJob(w) PROVE ExclusiveInv'
  BY <1>1, <1>2 DEF StartJob
<1>3. ASSUME NEW w \in Worker, EndJob(w) PROVE ExclusiveInv'
  BY <1>1, <1>3 DEF EndJob
<1>4. ASSUME NEW pr \in Proc, Boot(pr) PROVE ExclusiveInv'
  <2>1. CASE pr \in Sweeper
    \* Nobody else runs, so no loop holds anything the sweep could take away.
    <3>1. \A w \in Worker : phase[w] = "off"
      BY <1>4, <2>1 DEF Boot, Sweep, SweeperAlone
    <3> QED
      BY <1>1, <1>4, <2>1, <3>1 DEF Boot, Sweep
  <2>2. CASE pr \notin Sweeper
    BY <1>1, <1>4, <2>2 DEF Boot, Sweep
  <2> QED
    BY <2>1, <2>2
<1>5. ASSUME NEW pr \in Proc, Crash(pr) PROVE ExclusiveInv'
  BY <1>1, <1>5 DEF Crash
<1> QED
  BY <1>2, <1>3, <1>4, <1>5

LEMMA EnvironmentExclusive ==
  ASSUME ExclusiveInv, Environment
  PROVE  ExclusiveInv'
<1>1. TypeInv'
  BY EnvironmentTypeInv DEF ExclusiveInv
<1> USE QueueAssumption DEF QueueAssumption, ExclusiveInv, TypeInv, TypeOK, Event,
        OffWhenDown, LastingEntries, HeldInFlight, ClaimExclusive
<1>2. ASSUME NEW S \in SUBSET Path, Enqueue(S) PROVE ExclusiveInv'
  BY <1>1, <1>2 DEF Enqueue
<1>3. ASSUME NEW S \in SUBSET Path, MarkForResummary(S) PROVE ExclusiveInv'
  BY <1>1, <1>3 DEF MarkForResummary
<1>4. ASSUME NEW S \in SUBSET Path, NEW e \in {"ok", "excluded"}, UpsertEntries(S, e)
      PROVE  ExclusiveInv'
  BY <1>1, <1>4 DEF UpsertEntries
<1>5. ASSUME NEW S \in SUBSET Volatile, DeleteEntries(S) PROVE ExclusiveInv'
  BY <1>1, <1>5 DEF DeleteEntries, DropRows
<1>6. CASE PruneOrphans
  BY <1>1, <1>6 DEF PruneOrphans, DropRows
<1>7. ASSUME NEW p \in Retryable, Retry(p) PROVE ExclusiveInv'
  BY <1>1, <1>7 DEF Retry, MarkRow
<1> QED
  BY <1>2, <1>3, <1>4, <1>5, <1>6, <1>7 DEF Environment

LEMMA NextExclusive == SweeperAlone /\ ExclusiveInv /\ [Next]_vars => ExclusiveInv'
<1> SUFFICES ASSUME SweeperAlone, ExclusiveInv, [Next]_vars PROVE ExclusiveInv'
  OBVIOUS
<1>1. CASE Next
  BY <1>1, StepExclusive, ProcessExclusive, EnvironmentExclusive DEF Next
<1>2. CASE UNCHANGED vars
  BY <1>2 DEF vars, ExclusiveInv, TypeInv, TypeOK, DeferControl, OffWhenDown,
              LastingEntries, HeldInFlight, ClaimExclusive
<1> QED
  BY <1>1, <1>2

LEMMA AlwaysExclusive == SweeperAlone => (Spec => []ExclusiveInv)
<1> SUFFICES ASSUME SweeperAlone PROVE Spec => []ExclusiveInv
  OBVIOUS
<1>1. ExclusiveInv /\ [Next]_vars => ExclusiveInv'
  BY NextExclusive
<1> QED
  BY InitExclusive, <1>1, PTL DEF Spec

\* No two drain loops, of any number of processes, ever have the same lasting
\* path in hand, provided a process that sweeps has the database to itself.
THEOREM Exclusive == SweeperAlone => (Spec => []ClaimExclusive)
<1> SUFFICES ASSUME SweeperAlone PROVE Spec => []ClaimExclusive
  OBVIOUS
<1>1. Spec => []ExclusiveInv
  BY AlwaysExclusive
<1> QED
  BY <1>1, PTL DEF ExclusiveInv
-----------------------------------------------------------------------------
(* Nothing is stranded in flight by an orderly path through the loop.       *)

AccountedInv == TypeInv /\ InFlightAccounted

LEMMA StepAccounted ==
  ASSUME AccountedInv, NEW w \in Worker, Step(w) \/ Fault(w)
  PROVE  AccountedInv'
<1> USE QueueAssumption DEF QueueAssumption, AccountedInv, TypeInv, TypeOK,
        DeferControl, OffWhenDown, InFlightAccounted, Held
<1>1. TypeInv'
  BY StepTypeInv DEF AccountedInv
<1>2. CASE Claim(w)
  BY <1>1, <1>2 DEF Claim, Pending, Deepest
<1>3. CASE CheckAllowed(w)
  BY <1>1, <1>3 DEF CheckAllowed, Forced
<1>4. CASE DeleteOrphan(w)
  BY <1>1, <1>4 DEF DeleteOrphan, DropRow, Release
<1>5. CASE CheckSubtree(w)
  BY <1>1, <1>5 DEF CheckSubtree
<1>6. CASE Defer(w)
  BY <1>1, <1>6 DEF Defer, MarkRow, UndoAttempt, Release
<1>7. CASE Finish(w)
  <2>1. PICK s \in {"done", "failed"} : FinishAs(w, s)
    BY <1>7 DEF Finish
  <2> QED
    BY <1>1, <2>1 DEF FinishAs, MarkRow, Release
<1>8. CASE CheckSubtreeReadError(w)
  BY <1>1, <1>8 DEF CheckSubtreeReadError
<1>9. CASE StoreErrorMarked(w)
  BY <1>1, <1>9 DEF StoreErrorMarked, MarkRow, Release
<1>10. CASE StoreErrorUnmarked(w)
  BY <1>1, <1>10 DEF StoreErrorUnmarked, Release
<1> QED
  BY <1>2, <1>3, <1>4, <1>5, <1>6, <1>7, <1>8, <1>9, <1>10 DEF Step, Fault

LEMMA NextAccounted == AccountedInv /\ [Next]_vars => AccountedInv'
<1> SUFFICES ASSUME AccountedInv, [Next]_vars PROVE AccountedInv'
  OBVIOUS
<1>1. TypeInv'
  BY NextTypeInv DEF AccountedInv
<1> USE QueueAssumption DEF QueueAssumption, AccountedInv, TypeInv, TypeOK,
        OffWhenDown, InFlightAccounted, Held
<1>2. ASSUME NEW w \in Worker, Step(w) \/ Fault(w) PROVE AccountedInv'
  BY <1>2, StepAccounted
<1>3. ASSUME NEW w \in Worker, StartJob(w) PROVE AccountedInv'
  BY <1>1, <1>3 DEF StartJob
<1>4. ASSUME NEW w \in Worker, EndJob(w) PROVE AccountedInv'
  BY <1>1, <1>4 DEF EndJob
<1>5. ASSUME NEW pr \in Proc, Boot(pr) PROVE AccountedInv'
  BY <1>1, <1>5 DEF Boot, Sweep, Swept
<1>6. ASSUME NEW pr \in Proc, Crash(pr) PROVE AccountedInv'
  BY <1>1, <1>6 DEF Crash
<1>7. CASE Environment
  <2> USE DEF Event
  <2>1. ASSUME NEW S \in SUBSET Path, Enqueue(S) PROVE AccountedInv'
    BY <1>1, <2>1 DEF Enqueue
  <2>2. ASSUME NEW S \in SUBSET Path, MarkForResummary(S) PROVE AccountedInv'
    BY <1>1, <2>2 DEF MarkForResummary
  <2>3. ASSUME NEW S \in SUBSET Path, NEW e \in {"ok", "excluded"}, UpsertEntries(S, e)
        PROVE  AccountedInv'
    BY <1>1, <2>3 DEF UpsertEntries
  <2>4. ASSUME NEW S \in SUBSET Volatile, DeleteEntries(S) PROVE AccountedInv'
    BY <1>1, <2>4 DEF DeleteEntries, DropRows
  <2>5. CASE PruneOrphans
    BY <1>1, <2>5 DEF PruneOrphans, DropRows
  <2>6. ASSUME NEW p \in Retryable, Retry(p) PROVE AccountedInv'
    BY <1>1, <2>6 DEF Retry, MarkRow
  <2> QED
    BY <1>7, <2>1, <2>2, <2>3, <2>4, <2>5, <2>6 DEF Environment
<1>8. CASE UNCHANGED vars
  BY <1>1, <1>8 DEF vars
<1> QED
  BY <1>2, <1>3, <1>4, <1>5, <1>6, <1>7, <1>8 DEF Next

\* However the loops, processes and environment interleave, a row in flight is
\* in somebody's hands or its run was lost to a crash or store error.
THEOREM Accounted == Spec => []InFlightAccounted
<1>1. Init => AccountedInv
  BY InitTypeInv DEF Init, AccountedInv, InFlightAccounted
<1> QED
  BY <1>1, NextAccounted, PTL DEF Spec, AccountedInv
-----------------------------------------------------------------------------
(* attempts counts interrupted runs.                                        *)

RowlessIsFresh ==
  \A p \in Steady : state[p] = "none" => attempts[p] = 0 /\ lostRuns[p] = 0

AttemptsInv == ExclusiveInv /\ RowlessIsFresh /\ AttemptsCountLostRuns

LEMMA StepAttempts ==
  ASSUME AttemptsInv, NEW w \in Worker, Step(w) \/ Fault(w)
  PROVE  AttemptsInv'
<1>1. ExclusiveInv'
  BY StepExclusive DEF AttemptsInv
<1> USE QueueAssumption DEF QueueAssumption, AttemptsInv, ExclusiveInv, TypeInv,
        TypeOK, DeferControl, HeldInFlight, ClaimExclusive, RowlessIsFresh,
        AttemptsCountLostRuns, Held
<1>2. CASE Claim(w)
  BY <1>1, <1>2 DEF Claim, Pending, Deepest
<1>3. CASE CheckAllowed(w)
  BY <1>1, <1>3 DEF CheckAllowed, Forced
<1>4. CASE DeleteOrphan(w)
  BY <1>1, <1>4 DEF DeleteOrphan, DropRow, Release
<1>5. CASE CheckSubtree(w)
  BY <1>1, <1>5 DEF CheckSubtree
<1>6. CASE Defer(w)
  <2> DEFINE q == item[w]
  <2>1. q \in Path /\ Holds(w, q)
    BY <1>6 DEF Defer
  <2>2. \A p \in Path \ {q} : Held(p)' <=> Held(p)
    BY <1>6, <2>1 DEF Defer, Release
  <2>3. q \in Steady => Held(q) /\ ~Held(q)' /\ state[q] = "in_flight"
    BY <1>6, <2>1 DEF Defer, Release
  <2>4. /\ state' = [state EXCEPT ![q] = IF @ = "none" THEN @ ELSE "pending"]
        /\ attempts' = [attempts EXCEPT ![q] = UndoAttempt(@)]
        /\ lostRuns' = lostRuns
    BY <1>6 DEF Defer, MarkRow
  <2>5. state \in [Path -> RowState] /\ attempts \in [Path -> Nat]
    OBVIOUS
  <2> HIDE DEF q
  <2>6. \A p \in Path \ {q} : state'[p] = state[p] /\ attempts'[p] = attempts[p]
    BY <2>4, <2>5
  <2>7. q \in Steady => state'[q] = "pending" /\ attempts'[q] = attempts[q] - 1
    BY <2>1, <2>3, <2>4, <2>5 DEF UndoAttempt
  <2>8. AttemptsCountLostRuns'
    <3> SUFFICES ASSUME NEW p \in Steady
                 PROVE  /\ state'[p] = "pending" => attempts'[p] = lostRuns'[p]
                        /\ state'[p] = "in_flight" => attempts'[p] =
                             lostRuns'[p] + (IF Held(p)' THEN 1 ELSE 0)
      BY DEF AttemptsCountLostRuns
    <3>1. CASE p = q
      <4>1. state[q] = "in_flight" /\ Held(q)
        BY <3>1, <2>3
      <4>2. attempts[q] = lostRuns[q] + 1
        BY <3>1, <4>1
      <4>3. lostRuns[q] \in Nat /\ lostRuns'[q] = lostRuns[q]
        BY <2>1, <2>4
      <4>4. state'[q] = "pending" /\ attempts'[q] = attempts[q] - 1
        BY <3>1, <2>7
      <4> QED
        BY ONLY <3>1, <4>2, <4>3, <4>4
    <3>2. CASE p # q
      <4>1. Held(p)' <=> Held(p)
        BY <3>2, <2>2
      <4>2. state'[p] = state[p] /\ attempts'[p] = attempts[p] /\ lostRuns' = lostRuns
        BY <3>2, <2>4, <2>6
      <4> QED
        BY <4>1, <4>2
    <3> QED
      BY <3>1, <3>2
  <2>9. RowlessIsFresh'
    BY <2>1, <2>3, <2>4, <2>6, <2>7
  <2> QED
    BY <1>1, <2>8, <2>9
<1>7. CASE Finish(w)
  <2>1. PICK s \in {"done", "failed"} : FinishAs(w, s)
    BY <1>7 DEF Finish
  <2> QED
    BY <1>1, <2>1 DEF FinishAs, MarkRow, Release
<1>8. CASE CheckSubtreeReadError(w)
  BY <1>1, <1>8 DEF CheckSubtreeReadError
<1>9. CASE StoreErrorMarked(w)
  BY <1>1, <1>9 DEF StoreErrorMarked, MarkRow, Release
<1>10. CASE StoreErrorUnmarked(w)
  <2> DEFINE q == item[w]
  <2>1. q \in Path /\ Holds(w, q)
    BY <1>10 DEF StoreErrorUnmarked
  <2>2. \A p \in Path \ {q} : Held(p)' <=> Held(p)
    BY <1>10, <2>1 DEF StoreErrorUnmarked, Release
  <2>3. q \in Steady => Held(q) /\ ~Held(q)' /\ state[q] = "in_flight"
    BY <1>10, <2>1 DEF StoreErrorUnmarked, Release
  <2> QED
    BY <1>1, <1>10, <2>1, <2>2, <2>3 DEF StoreErrorUnmarked, Release
<1> QED
  BY <1>2, <1>3, <1>4, <1>5, <1>6, <1>7, <1>8, <1>9, <1>10 DEF Step, Fault

LEMMA ProcessAttempts ==
  ASSUME AttemptsInv, SweeperAlone,
         \/ \E w \in Worker : StartJob(w) \/ EndJob(w)
         \/ \E pr \in Proc : Boot(pr) \/ Crash(pr)
  PROVE  AttemptsInv'
<1>1. ExclusiveInv'
  BY ProcessExclusive DEF AttemptsInv
<1> USE QueueAssumption DEF QueueAssumption, AttemptsInv, ExclusiveInv, TypeInv,
        TypeOK, OffWhenDown, HeldInFlight, ClaimExclusive, RowlessIsFresh,
        AttemptsCountLostRuns, Held
<1>2. ASSUME NEW w \in Worker, StartJob(w) PROVE AttemptsInv'
  BY <1>1, <1>2 DEF StartJob
<1>3. ASSUME NEW w \in Worker, EndJob(w) PROVE AttemptsInv'
  BY <1>1, <1>3 DEF EndJob
<1>4. ASSUME NEW pr \in Proc, Boot(pr) PROVE AttemptsInv'
  <2>1. \A w \in Worker : \A p \in Path : Holds(w, p) <=> Holds(w, p)'
    BY <1>4 DEF Boot, Sweep
  <2>2. CASE pr \in Sweeper
    <3>1. \A p \in Path : ~Held(p)
      BY <1>4, <2>2 DEF Boot, Sweep, SweeperAlone
    <3>2. \A p \in Path : ~Held(p)'
      BY <2>1, <3>1
    <3>3. /\ \A p \in Path : state'[p] \in {state[p], Swept(p)}
          /\ attempts' = attempts
          /\ lostRuns' = lostRuns
      BY <1>4, <2>2 DEF Boot, Sweep
    <3>4. AttemptsCountLostRuns'
      BY <3>1, <3>2, <3>3 DEF Swept
    <3>5. RowlessIsFresh'
      BY <3>3 DEF Swept
    <3> QED
      BY <1>1, <3>4, <3>5
  <2>3. CASE pr \notin Sweeper
    BY <1>1, <1>4, <2>1, <2>3 DEF Boot, Sweep
  <2> QED
    BY <2>2, <2>3
<1>5. ASSUME NEW pr \in Proc, Crash(pr) PROVE AttemptsInv'
  <2> DEFINE hit(p) == \E w \in Worker : ProcOf[w] = pr /\ Holds(w, p)
  <2>1. \A p \in Path : ~hit(p) => (Held(p)' <=> Held(p))
    BY <1>5 DEF Crash
  <2>2. \A p \in Steady : hit(p) =>
          Held(p) /\ ~Held(p)' /\ state[p] = "in_flight"
    BY <1>5 DEF Crash
  <2>3. \A p \in Path : lostRuns'[p] = IF hit(p) THEN lostRuns[p] + 1 ELSE lostRuns[p]
    BY <1>5 DEF Crash
  <2> HIDE DEF hit
  <2>4. AttemptsCountLostRuns'
    BY <1>5, <2>1, <2>2, <2>3 DEF Crash
  <2>5. RowlessIsFresh'
    BY <1>5, <2>3 DEF Crash
  <2> QED
    BY <1>1, <2>4, <2>5
<1> QED
  BY <1>2, <1>3, <1>4, <1>5

LEMMA EnvironmentAttempts ==
  ASSUME AttemptsInv, Environment
  PROVE  AttemptsInv'
<1>1. ExclusiveInv'
  BY EnvironmentExclusive DEF AttemptsInv
<1> USE QueueAssumption DEF QueueAssumption, AttemptsInv, ExclusiveInv, TypeInv,
        TypeOK, Event, RowlessIsFresh, AttemptsCountLostRuns, Held
<1>2. ASSUME NEW S \in SUBSET Path, Enqueue(S) PROVE AttemptsInv'
  BY <1>1, <1>2 DEF Enqueue
<1>3. ASSUME NEW S \in SUBSET Path, MarkForResummary(S) PROVE AttemptsInv'
  BY <1>1, <1>3 DEF MarkForResummary
<1>4. ASSUME NEW S \in SUBSET Path, NEW e \in {"ok", "excluded"}, UpsertEntries(S, e)
      PROVE  AttemptsInv'
  BY <1>1, <1>4 DEF UpsertEntries
<1>5. ASSUME NEW S \in SUBSET Volatile, DeleteEntries(S) PROVE AttemptsInv'
  BY <1>1, <1>5 DEF DeleteEntries, DropRows
<1>6. CASE PruneOrphans
  BY <1>1, <1>6 DEF PruneOrphans, DropRows
<1>7. ASSUME NEW p \in Retryable, Retry(p) PROVE AttemptsInv'
  BY <1>1, <1>7 DEF Retry, MarkRow
<1> HIDE DEF AttemptsInv
<1> QED
  BY <1>2, <1>3, <1>4, <1>5, <1>6, <1>7 DEF Environment

LEMMA AlwaysAttempts == SweeperAlone => (Spec => []AttemptsInv)
<1> SUFFICES ASSUME SweeperAlone PROVE Spec => []AttemptsInv
  OBVIOUS
<1>1. Init => AttemptsInv
  BY InitExclusive DEF Init, AttemptsInv, RowlessIsFresh, AttemptsCountLostRuns
<1>2. AttemptsInv /\ [Next]_vars => AttemptsInv'
  <2> SUFFICES ASSUME AttemptsInv, [Next]_vars PROVE AttemptsInv'
    OBVIOUS
  <2>1. CASE Next
    BY <2>1, StepAttempts, ProcessAttempts, EnvironmentAttempts DEF Next
  <2>2. CASE UNCHANGED vars
    <3>1. ExclusiveInv'
      BY NextExclusive, <2>2 DEF AttemptsInv
    <3> QED
      BY <2>2, <3>1 DEF vars, AttemptsInv, RowlessIsFresh,
                        AttemptsCountLostRuns, Held
  <2> QED
    BY <2>1, <2>2
<1> QED
  BY <1>1, <1>2, PTL DEF Spec

\* attempts of a lasting path counts its interrupted runs, whatever was deferred,
\* finished or re-queued in between (defer_queue_item undoes the claim's count).
THEOREM AttemptsCount == SweeperAlone => (Spec => []AttemptsCountLostRuns)
<1> SUFFICES ASSUME SweeperAlone PROVE Spec => []AttemptsCountLostRuns
  OBVIOUS
<1>1. Spec => []AttemptsInv
  BY AlwaysAttempts
<1> QED
  BY <1>1, PTL DEF AttemptsInv

\* Hence the startup sweep gives up only on items interrupted MaxAttempts times.
THEOREM SweepIsFair == SweeperAlone => (Spec => SweepFailsOnlyRepeatOffenders)
<1> SUFFICES ASSUME SweeperAlone PROVE Spec => SweepFailsOnlyRepeatOffenders
  OBVIOUS
<1>1. Spec => []AttemptsInv
  BY AlwaysAttempts
<1>2. ASSUME AttemptsInv, [Next]_vars,
             NEW pr \in Proc, NEW p \in Steady,
             pr \in up' \ up, state[p] = "in_flight", state'[p] = "failed"
      PROVE  lostRuns[p] >= MaxAttempts
  <2> USE DEF AttemptsInv, ExclusiveInv, TypeInv, TypeOK
  <2>1. Boot(pr)
    <3>1. Next
      BY <1>2 DEF vars
    <3>2. ~ \E w \in Worker : Step(w) \/ Fault(w) \/ StartJob(w) \/ EndJob(w)
      BY <1>2 DEF Step, Fault, Claim, CheckAllowed, DeleteOrphan, CheckSubtree,
           Defer, Finish, FinishAs, CheckSubtreeReadError, StoreErrorMarked,
           StoreErrorUnmarked, StartJob, EndJob
    <3>3. ~ Environment
      <4> SUFFICES ASSUME Environment PROVE up' = up
        BY <1>2
      <4> QED
        BY DEF Environment, Enqueue, MarkForResummary, Retry, UpsertEntries,
               DeleteEntries, PruneOrphans
    <3>4. PICK q \in Proc : Boot(q) \/ Crash(q)
      BY <3>1, <3>2, <3>3 DEF Next
    <3> QED
      BY <1>2, <3>4 DEF Boot, Sweep, Crash
  <2>2. pr \in Sweeper /\ attempts[p] >= MaxAttempts
    BY <1>2, <2>1 DEF Boot, Sweep, Swept
  <2>3. ~Held(p)
    BY <1>2, <2>1, <2>2, QueueAssumption
       DEF QueueAssumption, Boot, Sweep, SweeperAlone, OffWhenDown, Held
  <2> QED
    BY <1>2, <2>2, <2>3, QueueAssumption
       DEF AttemptsCountLostRuns, QueueAssumption
<1>3. AttemptsInv /\ [Next]_vars =>
        [\A pr \in Proc, p \in Steady :
           /\ pr \in up' \ up
           /\ state[p] = "in_flight"
           /\ state'[p] = "failed"
           => lostRuns[p] >= MaxAttempts]_vars
  BY <1>2
<1> QED
  BY <1>1, <1>3, PTL DEF Spec, SweepFailsOnlyRepeatOffenders
=============================================================================
