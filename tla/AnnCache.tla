------------------------------ MODULE AnnCache ------------------------------
(***************************************************************************)
(* The in-memory nearest-neighbour index of a long-lived server and the    *)
(* watermark that says when to rebuild it (ensure_ann in                   *)
(* crates/web/src/handlers/ask.rs, the same in crates/mcp/src/lib.rs), over *)
(* the chunks table it is built from (crates/core/src/store/chunks.rs).    *)
(*                                                                         *)
(* Every read of the store is a statement of its own, on a connection of   *)
(* its own; other processes write between any two of them.  A chunk is its *)
(* id, its file and the dimension of its vector (0: stored without one, as *)
(* after a failed embedding call; two dimensions: the embedding model was  *)
(* changed between two runs).                                              *)
(***************************************************************************)
EXTENDS Naturals, FiniteSets

CONSTANTS
  File,       \* the indexed files
  Dim,        \* dimensions of the embedding models that have been in use
  QueryDim,   \* dimension of the server's own embedding model
  Ask,        \* concurrent questions; each asks again and again
  MinChunks,  \* ann_min_chunks: below it the brute-force scan is used
  MaxId,      \* bound: chunk ids handed out
  MaxBatch,   \* bound: chunks of one file
  MaxLoose,   \* bound: builds that nobody waits for any more, at a time
  None

ASSUME AnnAssumption ==
  /\ Dim \subseteq Nat \ {0}
  /\ QueryDim \in Dim
  /\ MinChunks \in Nat
  /\ MaxId \in Nat
  /\ MaxBatch \in Nat
  /\ MaxLoose \in Nat
  /\ None \notin Ask

VARIABLES
  rows,    \* the chunks table
  seq,     \* sqlite_sequence: the largest id ever handed out
  cache,   \* AnnCache: the index and the watermark stored with it
  lock,    \* the ask that holds ann_build_lock
  phase,   \* where each ask is
  count,   \* the chunk count it read
  top,     \* the largest chunk id it read
  dim,     \* the dimension it will build for
  index,   \* the index it has in hand: the rows it was built from, its dimension
  loose    \* builds under way of asks that are gone

askVars == <<phase, count, top, dim, index>>
vars == <<rows, seq, cache, lock, phase, count, top, dim, index, loose>>

Row     == [id : 1..MaxId, file : File, dim : Dim \cup {0}]
NoIndex == [snap |-> {}, dim |-> 0]
Index   == [snap : SUBSET Row, dim : Dim \cup {0}]
Mark    == Nat \X (0..MaxId)
Phase   == {"idle", "counted", "marked", "waiting", "building", "sized", "built", "served"}
Guarded == {"building", "sized", "built"}

AnnTypeOK ==
  /\ rows \subseteq Row
  /\ seq \in 0..MaxId
  /\ cache \in [mark : Mark, index : Index]
  /\ lock \in Ask \cup {None}
  /\ phase \in [Ask -> Phase]
  /\ \A a \in Ask : phase[a] \in Guarded <=> lock = a
  /\ count \in [Ask -> Nat]
  /\ top \in [Ask -> 0..MaxId]
  /\ dim \in [Ask -> Dim \cup {0}]
  /\ index \in [Ask -> Index]
  /\ loose \in 0..MaxLoose

Init ==
  /\ rows = {}
  /\ seq = 0
  /\ cache = [mark |-> <<0, 0>>, index |-> NoIndex]
  /\ lock = None
  /\ phase = [a \in Ask |-> "idle"]
  /\ count = [a \in Ask |-> 0]
  /\ top = [a \in Ask |-> 0]
  /\ dim = [a \in Ask |-> 0]
  /\ index = [a \in Ask |-> NoIndex]
  /\ loose = 0

-----------------------------------------------------------------------------
(* The chunks table.  Chunks are only deleted and inserted, a file at a     *)
(* time and in one transaction; no statement changes an embedding in place. *)

\* max_chunk_id: t is the largest id of the table, 0 when it is empty.
IsTop(t, S) ==
  /\ \A r \in S : r.id <= t
  /\ \/ S = {} /\ t = 0
     \/ \E r \in S : r.id = t

\* m is the watermark of the table.
IsWatermark(m, S) == m[1] = Cardinality(S) /\ IsTop(m[2], S)

\* Slip: without AUTOINCREMENT the next id follows the largest one in the table.
NextIdReused == 1 + CHOOSE t \in 0..MaxId : IsTop(t, rows)
NextId == seq + 1

\* upsert_chunks: the file's rows go, one row per chunk comes, ids ascending.
ReplaceChunks(f) ==
  /\ \E n \in 1..MaxBatch : \E d \in [1..n -> Dim \cup {0}] :
       /\ NextId + n - 1 <= MaxId
       /\ rows' = {r \in rows : r.file # f}
                    \cup {[id |-> NextId + i - 1, file |-> f, dim |-> d[i]] : i \in 1..n}
       /\ seq' = NextId + n - 1
  /\ UNCHANGED <<cache, lock, askVars, loose>>

\* A file or a subtree is deleted, or a file now parses to nothing.
DeleteChunks(S) ==
  /\ \E r \in rows : r.file \in S
  /\ rows' = {r \in rows : r.file \notin S}
  /\ UNCHANGED <<seq, cache, lock, askVars, loose>>

-----------------------------------------------------------------------------
(* ensure_ann, one step per await or statement.                             *)

\* Slip: an early return leaves the build lock taken.
ForgetKeepingLock(a) ==
  /\ phase' = [phase EXCEPT ![a] = "idle"]
  /\ count' = [count EXCEPT ![a] = 0]
  /\ top' = [top EXCEPT ![a] = 0]
  /\ dim' = [dim EXCEPT ![a] = 0]
  /\ index' = [index EXCEPT ![a] = NoIndex]
  /\ UNCHANGED lock

\* The ask is over; what it had read is forgotten.
Forget(a) ==
  /\ phase' = [phase EXCEPT ![a] = "idle"]
  /\ count' = [count EXCEPT ![a] = 0]
  /\ top' = [top EXCEPT ![a] = 0]
  /\ dim' = [dim EXCEPT ![a] = 0]
  /\ index' = [index EXCEPT ![a] = NoIndex]
  /\ lock' = IF lock = a THEN None ELSE lock

\* The ask has its index, x; of what it had read only top is looked at again.
Serve(a, x) ==
  /\ phase' = [phase EXCEPT ![a] = "served"]
  /\ index' = [index EXCEPT ![a] = x]
  /\ count' = [count EXCEPT ![a] = 0]
  /\ dim' = [dim EXCEPT ![a] = 0]
  /\ UNCHANGED top

ReadCount(a) ==
  /\ phase[a] = "idle"
  /\ phase' = [phase EXCEPT ![a] = "counted"]
  /\ count' = [count EXCEPT ![a] = Cardinality(rows)]
  /\ UNCHANGED <<rows, seq, cache, lock, top, dim, index, loose>>

ReadTop(a) ==
  /\ phase[a] = "counted"
  /\ phase' = [phase EXCEPT ![a] = "marked"]
  /\ \E t \in 0..MaxId : IsTop(t, rows) /\ top' = [top EXCEPT ![a] = t]
  /\ UNCHANGED <<rows, seq, cache, lock, count, dim, index, loose>>

\* Slip: the count is left out of the comparison.
CachedByTop(a) == cache.index # NoIndex /\ cache.mark[2] = top[a]
Cached(a) == cache.index # NoIndex /\ cache.mark = <<count[a], top[a]>>

\* Too few chunks: no index, a brute-force scan.  Else the fast path, else wait.
FastPath(a) ==
  /\ phase[a] = "marked"
  /\ \/ /\ count[a] < MinChunks
        /\ Forget(a)
     \/ /\ count[a] >= MinChunks
        /\ Cached(a)
        /\ Serve(a, cache.index)
        /\ UNCHANGED lock
     \/ /\ count[a] >= MinChunks
        /\ ~Cached(a)
        /\ phase' = [phase EXCEPT ![a] = "waiting"]
        /\ UNCHANGED <<lock, count, top, dim, index>>
  /\ UNCHANGED <<rows, seq, cache, loose>>

\* ann_build_lock, and the second look: another ask may have built the index
\* meanwhile.  The cache changes under the lock only, so they are one step.
LockBuild(a) ==
  /\ phase[a] = "waiting"
  /\ lock = None
  /\ IF Cached(a)
     THEN /\ Serve(a, cache.index)
          /\ UNCHANGED lock
     ELSE /\ phase' = [phase EXCEPT ![a] = "building"]
          /\ lock' = a
          /\ UNCHANGED <<count, top, dim, index>>
  /\ UNCHANGED <<rows, seq, cache, loose>>

\* first_embedding_dim: that of the oldest row with a vector.  The web server
\* takes it from the rows it then builds from, the MCP server in a statement
\* before; without a vector there is nothing to build.
ReadDim(a) ==
  /\ phase[a] = "building"
  /\ LET embedded == {r \in rows : r.dim # 0} IN
     \/ /\ embedded = {}
        /\ Forget(a)
     \/ \E r \in embedded :
          /\ \A q \in embedded : r.id <= q.id
          /\ phase' = [phase EXCEPT ![a] = "sized"]
          /\ dim' = [dim EXCEPT ![a] = r.dim]
          /\ UNCHANGED <<lock, count, top, index>>
  /\ UNCHANGED <<rows, seq, cache, loose>>

ReadRows(a) ==
  /\ phase[a] = "sized"
  /\ phase' = [phase EXCEPT ![a] = "built"]
  /\ index' = [index EXCEPT ![a] = [snap |-> rows, dim |-> dim[a]]]
  /\ UNCHANGED <<rows, seq, cache, lock, count, top, dim, loose>>

\* Slip: the watermark stored is read when the build is over.
StoreLateMark(a) ==
  /\ phase[a] = "built"
  /\ \E t \in 0..MaxId :
       IsTop(t, rows) /\ cache' = [mark |-> <<Cardinality(rows), t>>, index |-> index[a]]
  /\ Serve(a, index[a])
  /\ lock' = None
  /\ UNCHANGED <<rows, seq, loose>>

\* The index is stored with the watermark read before it was built.
Store(a) ==
  /\ phase[a] = "built"
  /\ cache' = [mark |-> <<count[a], top[a]>>, index |-> index[a]]
  /\ Serve(a, index[a])
  /\ lock' = None
  /\ UNCHANGED <<rows, seq, loose>>

\* A read fails (ok()?): the guard releases the lock, and the question is answered
\* by brute force.  A handler dropped while it waits for a read or for the lock, its
\* client gone, leaves the same state.
GiveUp(a) ==
  /\ phase[a] \notin {"idle", "served"}
  /\ Forget(a)
  /\ UNCHANGED <<rows, seq, cache, loose>>

\* The handler is dropped while it awaits its build.  Its guard releases the lock;
\* the build is a task of its own (spawn_blocking) and goes on.
BuildUnderWay(a) == phase[a] \in {"building", "sized"}
Leave(a) ==
  /\ BuildUnderWay(a)
  /\ loose < MaxLoose
  /\ loose' = loose + 1
  /\ Forget(a)
  /\ UNCHANGED <<rows, seq, cache>>

\* Such a build reads the rows it would have read, ends, and its index is dropped.
LooseBuildEnds ==
  /\ loose > 0
  /\ loose' = loose - 1
  /\ UNCHANGED <<rows, seq, cache, lock, askVars>>

-----------------------------------------------------------------------------
(* dense_candidates: what a search with the index in hand would draw from.  *)

Vectors(x) == {r \in x.snap : r.dim # 0 /\ r.dim = x.dim}
BruteForce == {r \in rows : r.dim = QueryDim}

\* paths_for_ids: ids found in the index, resolved against the table as it is
\* now; a query of another dimension finds none, and none found means a scan.
Dense(a) ==
  LET found == {r \in rows : index[a].dim = QueryDim /\ \E v \in Vectors(index[a]) : v.id = r.id} IN
  IF found # {} THEN found ELSE BruteForce

Search(a) ==
  /\ phase[a] = "served"
  /\ Forget(a)
  /\ UNCHANGED <<rows, seq, cache, loose>>

-----------------------------------------------------------------------------

AskStep(a) ==
  \/ ReadCount(a) \/ ReadTop(a) \/ FastPath(a) \/ LockBuild(a)
  \/ ReadDim(a) \/ ReadRows(a) \/ Store(a) \/ GiveUp(a) \/ Leave(a) \/ Search(a)

Next ==
  \/ \E f \in File : ReplaceChunks(f)
  \/ \E S \in SUBSET File : DeleteChunks(S)
  \/ \E a \in Ask : AskStep(a)
  \/ LooseBuildEnds

Spec == Init /\ [][Next]_vars

-----------------------------------------------------------------------------
(* Properties.                                                              *)

\* A vector of any index still in use belongs to the chunk its id names, or to
\* none: an answer is never attributed to another file (the promise of
\* crates/core/src/store/ann.rs, which rests on ids never being reused).
NeverMisattributed ==
  \A x \in {cache.index} \cup {index[a] : a \in Ask} : \A v \in Vectors(x), r \in rows :
    v.id = r.id => v = r

\* Searching the index finds every chunk the brute-force scan would find, as far
\* as it was there when the ask read its watermark: a cached index that passes
\* the comparison lacks nothing, whatever was written between the two reads, the
\* wait for the lock and the build.
DenseLosesNothing ==
  \A a \in Ask : phase[a] = "served" =>
    \A r \in BruteForce : r.id <= top[a] => r \in Dense(a)

\* A hit is exact: when the watermark kept with the cached index is that of the
\* rows it was built from, and the ask's is that of the table as it is now, the
\* index that passes the comparison holds the table, nothing dead, nothing missing.
HitIsExact ==
  [][\A a \in Ask :
       /\ phase[a] \in {"marked", "waiting"} /\ phase'[a] = "served"
       /\ IsWatermark(cache.mark, cache.index.snap)
       /\ IsWatermark(<<count[a], top[a]>>, rows)
       => index'[a].snap = rows']_vars

\* What the comment in ensure_ann says (crates/web/src/handlers/ask.rs:73-76):
\* any insert or edit bumps the largest id and any delete changes the count, so
\* a stale index is always detected.  Hence a cached index whose watermark is
\* the table's holds the table.
StaleAlwaysDetected ==
  cache.index # NoIndex /\ IsWatermark(cache.mark, rows) => cache.index.snap = rows

\* What the comment at the lock says (crates/web/src/handlers/ask.rs:101-102): builds
\* are serialized, so that no two of them hold all embeddings at the same time.
BuildsAreSerialized == Cardinality({a \in Ask : BuildUnderWay(a)}) + loose <= 1
=============================================================================
