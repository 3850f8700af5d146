--------------------------- MODULE AnnCache_proofs ---------------------------
(***************************************************************************)
(* Proofs about AnnCache, for every set of files, asks and dimensions and  *)
(* every bound.  All of it rests on ids: they are handed out in order and  *)
(* never again, so a row that is there and was there at an earlier moment  *)
(* was there all along.                                                    *)
(***************************************************************************)
EXTENDS AnnCache, TLAPS, FiniteSetTheorems

\* The rows of a table, past or present, have ids that were handed out, and a
\* row with the id of a live one is that live one.
Issued(S) == \A v \in S : /\ v.id <= seq
                          /\ \A r \in rows : v.id = r.id => v = r

\* S lacks none of the live rows up to t.
Complete(S, t) == \A r \in rows : r.id <= t => r \in S

IdsInv ==
  /\ Issued(rows)
  /\ Issued(cache.index.snap)
  /\ \A a \in Ask : Issued(index[a].snap)

FiniteInv ==
  /\ IsFiniteSet(rows)
  /\ IsFiniteSet(cache.index.snap)
  /\ \A a \in Ask : IsFiniteSet(index[a].snap)

CompleteInv ==
  /\ cache.mark[2] <= seq
  /\ Complete(cache.index.snap, cache.mark[2])
  /\ \A a \in Ask :
       /\ top[a] <= seq
       /\ phase[a] \in {"built", "served"} => Complete(index[a].snap, top[a])

AnnInv == AnnTypeOK /\ FiniteInv /\ IdsInv /\ CompleteInv

USE DEF Row, NoIndex, Index, Mark, Phase, Guarded, askVars

LEMMA InitAnnInv == Init => AnnInv
<1> SUFFICES ASSUME Init PROVE AnnInv
  OBVIOUS
<1>1. AnnTypeOK
  BY AnnAssumption DEF AnnAssumption, Init, AnnTypeOK
<1>2. FiniteInv
  BY FS_EmptySet DEF Init, FiniteInv
<1>3. IdsInv /\ CompleteInv
  BY DEF Init, IdsInv, CompleteInv, Issued, Complete
<1> QED
  BY <1>1, <1>2, <1>3 DEF AnnInv

-----------------------------------------------------------------------------
(* Writers.                                                                 *)

\* Whatever the new table is, if its new rows carry new ids, past tables stay
\* past: no row comes back under an old id.
LEMMA WriteKeepsInv ==
  ASSUME AnnInv, UNCHANGED <<cache, lock, askVars, loose>>,
         rows' \subseteq Row, seq' \in 0..MaxId, seq <= seq',
         IsFiniteSet(rows'), Issued(rows)', \A r \in rows' : r \in rows \/ r.id > seq
  PROVE  AnnInv'
<1>1. AnnTypeOK'
  BY AnnAssumption DEF AnnAssumption, AnnInv, AnnTypeOK
<1>2. ASSUME NEW S, S \subseteq Row, Issued(S) PROVE Issued(S)'
  <2> SUFFICES ASSUME NEW v \in S PROVE v.id <= seq' /\ \A r \in rows' : v.id = r.id => v = r
    BY <1>2 DEF Issued
  <2>1. v.id \in Nat /\ seq \in Nat /\ seq' \in Nat /\ v.id <= seq
    BY <1>2, AnnAssumption DEF AnnAssumption, AnnInv, AnnTypeOK, Issued
  <2> QED
    BY <1>2, <2>1 DEF Issued
<1>3. ASSUME NEW S, S \subseteq Row, NEW t \in Nat, t <= seq, Complete(S, t) PROVE Complete(S, t)'
  BY <1>3, AnnAssumption DEF AnnAssumption, AnnInv, AnnTypeOK, Complete
<1>4. IdsInv'
  <2>1. Issued(cache.index.snap)'
    <3>1. cache.index.snap \subseteq Row /\ Issued(cache.index.snap)
      BY DEF AnnInv, AnnTypeOK, IdsInv
    <3> QED
      BY <1>2, <3>1 DEF Issued
  <2>2. ASSUME NEW a \in Ask PROVE Issued(index[a].snap)'
    <3>1. index[a].snap \subseteq Row /\ Issued(index[a].snap)
      BY DEF AnnInv, AnnTypeOK, IdsInv
    <3> QED
      BY <1>2, <3>1 DEF Issued
  <2> QED
    BY <2>1, <2>2 DEF IdsInv
<1>5. CompleteInv'
  <2>1. seq \in Nat /\ seq' \in Nat
    BY AnnAssumption DEF AnnAssumption, AnnInv, AnnTypeOK
  <2>2. cache.mark[2] <= seq' /\ Complete(cache.index.snap, cache.mark[2])'
    <3>1. /\ cache.index.snap \subseteq Row /\ cache.mark[2] \in Nat
          /\ cache.mark[2] <= seq /\ Complete(cache.index.snap, cache.mark[2])
      BY AnnAssumption DEF AnnAssumption, AnnInv, AnnTypeOK, CompleteInv
    <3> QED
      BY <1>3, <2>1, <3>1 DEF Complete
  <2>3. ASSUME NEW a \in Ask
        PROVE  /\ top[a] <= seq'
               /\ phase[a] \in {"built", "served"} => Complete(index[a].snap, top[a])'
    <3>1. /\ index[a].snap \subseteq Row /\ top[a] \in Nat /\ top[a] <= seq
          /\ phase[a] \in {"built", "served"} => Complete(index[a].snap, top[a])
      BY AnnAssumption DEF AnnAssumption, AnnInv, AnnTypeOK, CompleteInv
    <3> QED
      BY <1>3, <2>1, <3>1 DEF Complete
  <2> QED
    BY <2>2, <2>3 DEF CompleteInv, Complete
<1>6. FiniteInv'
  BY DEF AnnInv, FiniteInv
<1> QED
  BY <1>1, <1>4, <1>5, <1>6 DEF AnnInv

LEMMA ReplaceAnnInv ==
  ASSUME AnnInv, NEW f \in File, ReplaceChunks(f)
  PROVE  AnnInv'
<1>0. PICK n \in 1..MaxBatch : \E d \in [1..n -> Dim \cup {0}] :
        /\ NextId + n - 1 <= MaxId
        /\ rows' = {r \in rows : r.file # f}
                     \cup {[id |-> NextId + i - 1, file |-> f, dim |-> d[i]] : i \in 1..n}
        /\ seq' = NextId + n - 1
  BY DEF ReplaceChunks
<1>1. PICK d \in [1..n -> Dim \cup {0}] :
        /\ seq + n <= MaxId
        /\ rows' = {r \in rows : r.file # f}
                     \cup {[id |-> seq + i, file |-> f, dim |-> d[i]] : i \in 1..n}
        /\ seq' = seq + n
  <2>1. seq \in Nat /\ n \in Nat
    BY AnnAssumption DEF AnnAssumption, AnnInv, AnnTypeOK
  <2>2. NextId + n - 1 = seq + n /\ \A i \in 1..n : NextId + i - 1 = seq + i
    BY <2>1 DEF NextId
  <2>3. ASSUME NEW d \in [1..n -> Dim \cup {0}]
        PROVE  {[id |-> NextId + i - 1, file |-> f, dim |-> d[i]] : i \in 1..n}
                 = {[id |-> seq + i, file |-> f, dim |-> d[i]] : i \in 1..n}
    BY <2>2
  <2> QED
    BY <1>0, <2>2, <2>3
<1>2. seq \in Nat /\ n \in Nat /\ MaxId \in Nat
  BY AnnAssumption DEF AnnAssumption, AnnInv, AnnTypeOK
<1>3. ASSUME NEW i \in 1..n PROVE [id |-> seq + i, file |-> f, dim |-> d[i]] \in Row
  <2>1. seq + i \in 1..MaxId /\ d[i] \in Dim \cup {0}
    BY <1>1, <1>2
  <2> QED
    BY <2>1
<1>4. rows' \subseteq Row
  BY <1>1, <1>3 DEF AnnInv, AnnTypeOK
<1>5. \A r \in rows' : \/ r \in rows /\ r.id <= seq
                       \/ \E i \in 1..n : r.id = seq + i /\ r = [id |-> seq + i, file |-> f, dim |-> d[i]]
  BY <1>1 DEF AnnInv, IdsInv, Issued
<1>6. ASSUME NEW v \in rows' PROVE v.id <= seq' /\ \A r \in rows' : v.id = r.id => v = r
  <2>1. v.id \in Nat /\ \A r \in rows' : r.id \in Nat
    BY <1>4
  <2>2. CASE v \in rows /\ v.id <= seq
    <3>1. v.id <= seq'
      BY <1>1, <1>2, <2>1, <2>2
    <3>2. ASSUME NEW r \in rows', v.id = r.id PROVE v = r
      <4>1. r.id <= seq
        BY <2>2, <3>2
      <4>2. r \in rows
        BY <1>2, <1>5, <4>1
      <4> QED
        BY <2>2, <3>2, <4>2 DEF AnnInv, IdsInv, Issued
    <3> QED
      BY <3>1, <3>2
  <2>3. ASSUME NEW i \in 1..n, v.id = seq + i, v = [id |-> seq + i, file |-> f, dim |-> d[i]]
        PROVE  v.id <= seq' /\ \A r \in rows' : v.id = r.id => v = r
    <3>1. v.id <= seq' /\ v.id > seq
      BY <1>1, <1>2, <2>3
    <3>2. ASSUME NEW r \in rows', v.id = r.id PROVE v = r
      <4>1. PICK j \in 1..n : r.id = seq + j /\ r = [id |-> seq + j, file |-> f, dim |-> d[j]]
        <5>1. ~ (r.id <= seq)
          BY <1>2, <2>1, <3>1, <3>2
        <5> QED
          BY <1>5, <5>1
      <4>2. j = i
        BY <1>2, <2>3, <3>2, <4>1
      <4> QED
        BY <2>3, <4>1, <4>2
    <3> QED
      BY <3>1, <3>2
  <2> QED
    BY <1>5, <2>2, <2>3
<1>7. seq' \in 0..MaxId /\ seq <= seq' /\ \A r \in rows' : r \in rows \/ r.id > seq
  BY <1>1, <1>2, <1>5
<1>8. Issued(rows)'
  BY <1>6 DEF Issued
<1>9. IsFiniteSet(rows')
  <2> DEFINE new == {[id |-> seq + i, file |-> f, dim |-> d[i]] : i \in 1..n}
             kept == {r \in rows : r.file # f}
  <2>1. IsFiniteSet(1..n)
    BY <1>2, FS_Interval
  <2>2. IsFiniteSet(new)
    <3> DEFINE make == [i \in 1..n |-> [id |-> seq + i, file |-> f, dim |-> d[i]]]
    <3>1. make \in Surjection(1..n, new)
      BY DEF Surjection
    <3> QED
      BY <2>1, <3>1, FS_Surjection
  <2>3. IsFiniteSet(kept)
    BY FS_Subset DEF AnnInv, FiniteInv
  <2>4. rows' = kept \cup new
    BY <1>1
  <2> HIDE DEF new, kept
  <2> QED
    BY <2>2, <2>3, <2>4, FS_Union
<1> QED
  BY <1>4, <1>7, <1>8, <1>9, WriteKeepsInv DEF ReplaceChunks

LEMMA DeleteAnnInv ==
  ASSUME AnnInv, NEW S \in SUBSET File, DeleteChunks(S)
  PROVE  AnnInv'
<1>1. rows' \subseteq rows /\ seq' = seq
  BY DEF DeleteChunks
<1>2. rows' \subseteq Row /\ seq' \in 0..MaxId /\ seq <= seq'
  BY <1>1, AnnAssumption DEF AnnAssumption, AnnInv, AnnTypeOK
<1>3. Issued(rows)'
  BY <1>1 DEF AnnInv, IdsInv, Issued
<1>4. IsFiniteSet(rows')
  BY <1>1, FS_Subset DEF AnnInv, FiniteInv
<1> QED
  BY <1>1, <1>2, <1>3, <1>4, WriteKeepsInv DEF DeleteChunks

-----------------------------------------------------------------------------
(* Asks.                                                                    *)

LEMMA AskAnnInv ==
  ASSUME AnnInv, NEW a \in Ask, AskStep(a)
  PROVE  AnnInv'
<1> USE AnnAssumption
        DEF AnnAssumption, AnnInv, AnnTypeOK, FiniteInv, IdsInv, CompleteInv, Issued, Complete
<1>0. ASSUME Forget(a), UNCHANGED <<rows, seq, cache>>, loose' \in 0..MaxLoose PROVE AnnInv'
  <2>1. IsFiniteSet({})
    BY FS_EmptySet
  <2> QED
    BY <1>0, <2>1 DEF Forget
<1>1. CASE ReadCount(a)
  <2>1. Cardinality(rows) \in Nat
    BY FS_CardinalityType
  <2> QED
    BY <1>1, <2>1 DEF ReadCount
<1>2. CASE ReadTop(a)
  <2>1. PICK t \in 0..MaxId : IsTop(t, rows) /\ top' = [top EXCEPT ![a] = t]
    BY <1>2 DEF ReadTop
  <2>2. t <= seq
    BY <2>1 DEF IsTop
  <2> QED
    BY <1>2, <2>1, <2>2 DEF ReadTop
<1>3. ASSUME Cached(a), Serve(a, cache.index), phase[a] \in {"marked", "waiting"},
             UNCHANGED <<rows, seq, cache, lock, loose>>
      PROVE  AnnInv'
  <2>1. cache.mark[2] = top[a]
    BY <1>3 DEF Cached
  <2>2. AnnTypeOK' /\ FiniteInv' /\ IdsInv'
    BY <1>3 DEF Serve
  <2>3. CompleteInv'
    BY <1>3, <2>1 DEF Serve
  <2> QED
    BY <2>2, <2>3
<1>4. CASE FastPath(a)
  <2>1. CASE Forget(a)
    BY <1>0, <1>4, <2>1 DEF FastPath
  <2>2. CASE phase' = [phase EXCEPT ![a] = "waiting"] /\ UNCHANGED <<lock, count, top, dim, index>>
    BY <1>4, <2>2 DEF FastPath
  <2> QED
    BY <1>3, <1>4, <2>1, <2>2 DEF FastPath
<1>10. CASE LockBuild(a)
  <2>1. CASE Cached(a)
    BY <1>3, <1>10, <2>1 DEF LockBuild
  <2>2. CASE ~Cached(a)
    <3>1. /\ lock = None /\ lock' = a /\ phase' = [phase EXCEPT ![a] = "building"]
          /\ UNCHANGED <<rows, seq, cache, count, top, dim, index, loose>>
      BY <1>10, <2>2 DEF LockBuild
    <3>2. \A b \in Ask : phase[b] \notin Guarded
      BY <3>1
    <3>3. AnnTypeOK'
      BY <3>1, <3>2
    <3>4. FiniteInv' /\ IdsInv' /\ CompleteInv'
      BY <3>1
    <3> QED
      BY <3>3, <3>4
  <2> QED
    BY <2>1, <2>2
<1>5. CASE ReadDim(a)
  <2>0. UNCHANGED <<rows, seq, cache, loose>>
    BY <1>5 DEF ReadDim
  <2>1. CASE Forget(a)
    BY <1>0, <2>0, <2>1
  <2>2. ASSUME NEW r \in rows, r.dim # 0, phase' = [phase EXCEPT ![a] = "sized"],
               dim' = [dim EXCEPT ![a] = r.dim], UNCHANGED <<lock, count, top, index>>
        PROVE  AnnInv'
    <3>1. r.dim \in Dim
      BY <2>2
    <3>2. AnnTypeOK'
      BY <1>5, <2>2, <3>1 DEF ReadDim
    <3>3. FiniteInv' /\ IdsInv'
      BY <1>5, <2>2 DEF ReadDim
    <3>4. CompleteInv'
      BY <1>5, <2>2 DEF ReadDim
    <3> QED
      BY <3>2, <3>3, <3>4
  <2> QED
    BY <1>5, <2>1, <2>2 DEF ReadDim
<1>6. CASE ReadRows(a)
  BY <1>6 DEF ReadRows
<1>7. CASE Store(a)
  BY <1>7 DEF Store, Serve
<1>8. CASE GiveUp(a)
  BY <1>0, <1>8 DEF GiveUp
<1>9. CASE Search(a)
  BY <1>0, <1>9 DEF Search
<1>11. CASE Leave(a)
  <2>1. loose' \in 0..MaxLoose
    BY <1>11 DEF Leave
  <2> QED
    BY <1>0, <1>11, <2>1 DEF Leave
<1> QED
  BY <1>1, <1>2, <1>4, <1>5, <1>6, <1>7, <1>8, <1>9, <1>10, <1>11 DEF AskStep

LEMMA NextAnnInv == AnnInv /\ [Next]_vars => AnnInv'
<1> SUFFICES ASSUME AnnInv, [Next]_vars PROVE AnnInv'
  OBVIOUS
<1>1. CASE Next
  <2>1. CASE LooseBuildEnds
    BY <2>1, AnnAssumption DEF AnnAssumption, LooseBuildEnds, AnnInv, AnnTypeOK, FiniteInv,
                               IdsInv, CompleteInv, Issued, Complete
  <2> QED
    BY <1>1, <2>1, ReplaceAnnInv, DeleteAnnInv, AskAnnInv DEF Next
<1>2. CASE UNCHANGED vars
  BY <1>2 DEF vars, AnnInv, AnnTypeOK, FiniteInv, IdsInv, CompleteInv, Issued, Complete
<1> QED
  BY <1>1, <1>2

LEMMA AnnInvHolds == Spec => []AnnInv
BY InitAnnInv, NextAnnInv, PTL DEF Spec

-----------------------------------------------------------------------------
(* Theorems.                                                                *)

\* The types, and that an ask waits for its build, or has it in hand to be stored, if and
\* only if it holds the lock; of builds whose ask is gone it says nothing.
THEOREM AnnTypes == Spec => []AnnTypeOK
<1>1. AnnInv => AnnTypeOK
  BY DEF AnnInv
<1> QED
  BY <1>1, AnnInvHolds, PTL

\* An id in an index names the chunk it was made from, or no chunk.
THEOREM Attribution == Spec => []NeverMisattributed
<1>1. AnnInv => NeverMisattributed
  BY DEF AnnInv, IdsInv, Issued, NeverMisattributed, Vectors
<1> QED
  BY <1>1, AnnInvHolds, PTL

\* The index in hand lacks nothing that was there when the ask began.
THEOREM NothingLost == Spec => []DenseLosesNothing
<1>1. AnnInv => DenseLosesNothing
  <2> SUFFICES ASSUME AnnInv, NEW a \in Ask, phase[a] = "served",
                      NEW r \in BruteForce, r.id <= top[a]
               PROVE  r \in Dense(a)
    BY DEF DenseLosesNothing
  <2>1. r \in rows /\ r.dim = QueryDim /\ QueryDim # 0
    BY AnnAssumption DEF AnnAssumption, BruteForce
  <2>2. r \in index[a].snap
    BY <2>1 DEF AnnInv, CompleteInv, Complete
  <2> QED
    BY <2>1, <2>2 DEF Dense, Vectors, BruteForce
<1> QED
  BY <1>1, AnnInvHolds, PTL

\* Two tables with the same largest id and the same number of rows, the later
\* without a row up to that id that the earlier lacks, are the same table.
LEMMA SameTable ==
  ASSUME NEW S, NEW T, NEW m, IsFiniteSet(S), IsWatermark(m, S), IsWatermark(m, T),
         \A r \in T : r.id <= m[2] => r \in S
  PROVE  S = T
<1>1. T \subseteq S
  BY DEF IsWatermark, IsTop
<1>2. Cardinality(S) = Cardinality(T)
  BY DEF IsWatermark
<1> QED
  BY <1>1, <1>2, FS_Subset

\* A hit whose watermarks are those of the tables they were read from is exact.
THEOREM ExactHits == Spec => HitIsExact
<1> DEFINE Exact == \A a \in Ask :
             /\ phase[a] \in {"marked", "waiting"} /\ phase'[a] = "served"
             /\ IsWatermark(cache.mark, cache.index.snap)
             /\ IsWatermark(<<count[a], top[a]>>, rows)
             => index'[a].snap = rows'
<1>1. AnnInv /\ [Next]_vars => [Exact]_vars
  <2> SUFFICES ASSUME AnnInv, Next, NEW a \in Ask,
                      phase[a] \in {"marked", "waiting"}, phase'[a] = "served",
                      IsWatermark(cache.mark, cache.index.snap),
                      IsWatermark(<<count[a], top[a]>>, rows)
               PROVE  index'[a].snap = rows'
    BY DEF vars
  <2>1. /\ Cached(a) /\ index'[a] = cache.index /\ rows' = rows
    <3>1. ~ \E f \in File : ReplaceChunks(f)
      BY DEF ReplaceChunks
    <3>2. ~ \E S \in SUBSET File : DeleteChunks(S)
      BY DEF DeleteChunks
    <3>6. ~ LooseBuildEnds
      BY DEF LooseBuildEnds
    <3>3. PICK b \in Ask : AskStep(b)
      BY <3>1, <3>2, <3>6 DEF Next
    <3>4. b = a
      BY <3>3 DEF AskStep, ReadCount, ReadTop, FastPath, LockBuild, ReadDim, ReadRows, Store,
                  GiveUp, Leave, Search, Forget, Serve, AnnInv, AnnTypeOK
    <3>5. FastPath(a) \/ LockBuild(a)
      BY <3>3, <3>4 DEF AskStep, ReadCount, ReadTop, ReadDim, ReadRows, Store, GiveUp, Leave, Search,
                        Forget, Serve, AnnInv, AnnTypeOK
    <3> QED
      BY <3>5 DEF FastPath, LockBuild, Forget, Serve, AnnInv, AnnTypeOK
  <2>2. cache.mark = <<count[a], top[a]>>
    BY <2>1 DEF Cached
  <2>3. cache.index.snap = rows
    BY <2>2, SameTable DEF AnnInv, FiniteInv, CompleteInv, Complete
  <2> QED
    BY <2>1, <2>3
<1>2. AnnInv /\ [Next]_vars => [Exact]_vars
  BY <1>1
<1> QED
  BY <1>2, AnnInvHolds, PTL DEF Spec, HitIsExact
=============================================================================
