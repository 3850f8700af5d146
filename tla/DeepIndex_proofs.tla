-------------------------- MODULE DeepIndex_proofs --------------------------
(***************************************************************************)
(* Proofs about DeepIndex, for every set of workers, files, texts and      *)
(* versions, every size of batch and every bound: all the safety           *)
(* properties of the run `deep`.                                           *)
(*                                                                         *)
(* What a pass holds in memory is sound by its type (GoodRead, GoodItem),  *)
(* and the batcher's queue says of each text whose it is (Routed).         *)
(* The rest is said of one pass at a time: where its files are (Shape,     *)
(* Counted), that it names its file before its chunks (Announced), and     *)
(* that what it is through with is as on disk (Truthful).                  *)
(***************************************************************************)
EXTENDS DeepIndex, TLAPS, FiniteSetTheorems

-----------------------------------------------------------------------------
(* The invariant.                                                           *)

\* A file as it was read, with vectors of its own texts.
GoodRead == {c \in [file : File, text : Seq(Text)] : c.text \in Version[c.file]}

GoodItem ==
  {i \in Item : /\ i.text \in Version[i.file]
                /\ DOMAIN i.vec = DOMAIN i.text
                /\ \A k \in DOMAIN i.text : i.vec[k] # None => i.vec[k].of = i.text[k]}

GoodRow == {r \in Row : r.vec # None => r.vec.of = r.text}

Pc == {"idle", "loop", "partition", "embed", "entry", "chunks"} \cup Ended

\* Every text queued is that of the slot its tag names, in the file its tag names.
Routed(q, b) ==
  \A n \in DOMAIN q : /\ q[n].id \in DOMAIN b
                      /\ q[n].slot \in DOMAIN b[q[n].id].text
                      /\ q[n].text = b[q[n].id].text[q[n].slot]

GoodFields ==
  [pc : Pc, mode : Mode, model : Model \cup {None}, snap : [File -> 0..MaxClock],
   todo : SUBSET File, cur : Seq(GoodRead), buf : Seq(GoodItem), queue : Seq(Tagged),
   out : Seq(GoodItem), cancel : BOOLEAN, told : SUBSET File, gain : BOOLEAN,
   lost : SUBSET File, changed : SUBSET File, blank : SUBSET File]

GoodRun == {r \in GoodFields : Routed(r.queue, r.buf)}

Files(s) == {s[k].file : k \in DOMAIN s}
Memory(r) == Files(r.cur) \cup Files(r.buf) \cup Files(r.out)
Apart(s) == \A k, l \in DOMAIN s : s[k].file = s[l].file => k = l

\* Where the files of a pass are: each to do, in one place of its memory, or through.
Shape(r) ==
  /\ IF r.pc = "partition" THEN Len(r.cur) = 1 ELSE r.cur = <<>>
  /\ r.pc = "embed" => r.buf # <<>>
  /\ r.pc \in {"entry", "chunks"} <=> r.out # <<>>
  /\ r.pc \in {"idle"} \cup Ended => r.buf = <<>>
  /\ r.pc = "done" => r.todo = {}
  /\ r.pc # "idle" => r.model \in Model
  /\ Apart(r.buf) /\ Apart(r.out)
  /\ Files(r.cur) \cap Files(r.buf) = {} /\ Files(r.buf) \cap Files(r.out) = {}
  /\ Memory(r) \cap r.todo = {}

\* A web job counts the files it is through with.
Counted(w, r) ==
  w \notin Terminal =>
    r.told = IF r.pc = "idle" THEN {} ELSE File \ (r.todo \cup Memory(r))

Announced(r) == r.pc = "chunks" => r.out[1].file \in entry \cup warned

Fresh(s, changed) ==
  \A k \in DOMAIN s : s[k].file \notin changed => s[k].text = content[s[k].file]

NoGaps(f) == \A i \in DOMAIN chunk[f] : chunk[f][i].vec # None

\* What a pass holds or is through with is as on disk, but for what it excuses.
Truthful(r) ==
  r.pc # "idle" =>
    /\ \A f \in File \ r.changed : r.snap[f] = mtime[f]
    /\ Fresh(r.cur, r.changed) /\ Fresh(r.buf, r.changed) /\ Fresh(r.out, r.changed)
    /\ r.mode # "summaries" =>
         \A f \in File \ (r.todo \cup Memory(r) \cup r.lost \cup r.changed \cup slipped) :
           /\ Texts(chunk[f]) = content[f]
           /\ r.mode = "vectors" /\ f \notin r.blank => NoGaps(f)

\* Chunks that are not of the file on disk are older than it, unless an edit slipped by.
Behind ==
  \A f \in File \ slipped :
    chunk[f] # <<>> /\ Texts(chunk[f]) # content[f] => indexed[f] < mtime[f]

DataInv ==
  /\ now \in 0..MaxClock
  /\ content \in [File -> Seq(Text)] /\ \A f \in File : content[f] \in Version[f]
  /\ mtime \in [File -> 0..MaxClock]
  /\ model \in Model
  /\ entry \subseteq File
  /\ chunk \in [File -> Seq(GoodRow)] /\ indexed \in [File -> 0..MaxClock]
  /\ slipped \subseteq File /\ warned \subseteq File
  /\ edits \in 0..MaxEdits /\ runs \in 0..MaxRuns /\ faults \in 0..MaxFaults
  /\ WholeFile /\ OrphansAreAnnounced /\ Behind

Sound(w, r) == Shape(r) /\ Counted(w, r) /\ Announced(r) /\ Truthful(r)

RunInv == run \in [Worker -> GoodRun] /\ \A w \in Worker : Sound(w, run[w])

DeepInv == DataInv /\ RunInv

-----------------------------------------------------------------------------
(* Records of passes.                                                       *)

LEMMA OffIsGood == Off \in GoodRun /\ Off.pc = "idle" /\ \A w \in Worker : Sound(w, Off)
<1>1. /\ Off.pc = "idle" /\ Off.cur = <<>> /\ Off.buf = <<>> /\ Off.out = <<>>
      /\ Off.told = {} /\ Off.todo = {}
  BY DEF Off
<1>2. Off \in GoodRun
  BY DeepConstants DEF DeepConstants, Off, GoodRun, GoodFields, Routed, Pc, Mode
<1>3. Files(<<>>) = {} /\ Apart(<<>>)
  BY DEF Files, Apart
<1>4. Shape(Off)
  BY <1>1, <1>3 DEF Shape, Memory, Ended
<1>5. \A w \in Worker : Sound(w, Off)
  BY <1>1, <1>4 DEF Sound, Counted, Announced, Truthful
<1> QED
  BY <1>1, <1>2, <1>5


-----------------------------------------------------------------------------
(* Sequences of files in memory.                                            *)

LEMMA IsSeq ==
  ASSUME NEW S, NEW n \in Nat, NEW g \in [1..n -> S]
  PROVE  g \in Seq(S)
OBVIOUS

LEMMA FilesOfNone == Files(<<>>) = {} /\ Apart(<<>>) /\ \A D : Fresh(<<>>, D)
BY DEF Files, Apart, Fresh

LEMMA FilesOfOne ==
  ASSUME NEW x
  PROVE  Files(<<x>>) = {x.file} /\ Apart(<<x>>)
BY DEF Files, Apart

LEMMA FilesOfAppend ==
  ASSUME NEW s \in Seq(GoodItem), NEW x \in GoodItem, Apart(s), x.file \notin Files(s)
  PROVE  /\ Append(s, x) \in Seq(GoodItem) /\ Append(s, x) # <<>>
         /\ Files(Append(s, x)) = Files(s) \cup {x.file} /\ Apart(Append(s, x))
         /\ \A D : Fresh(s, D) /\ (x.file \notin D => x.text = content[x.file])
              => Fresh(Append(s, x), D)
<1> DEFINE a == Append(s, x)
<1>1. /\ a \in Seq(GoodItem) /\ Len(s) \in Nat /\ Len(a) = Len(s) + 1
      /\ DOMAIN a = 1..(Len(s) + 1) /\ DOMAIN s = 1..Len(s)
      /\ a[Len(s) + 1] = x /\ \A k \in DOMAIN s : a[k] = s[k]
  OBVIOUS
<1> HIDE DEF a
<1>2. \A k \in DOMAIN a : (k \in DOMAIN s /\ a[k] = s[k]) \/ (k = Len(s) + 1 /\ a[k] = x)
  BY <1>1
<1>3. \A k \in DOMAIN s : k \in DOMAIN a
  BY <1>1
<1>4. Len(s) + 1 \in DOMAIN a
  BY <1>1
<1>5. Files(a) = Files(s) \cup {x.file}
  BY <1>1, <1>2, <1>3, <1>4 DEF Files
<1>6. Apart(a)
  BY <1>2 DEF Apart, Files
<1>7. \A D : Fresh(s, D) /\ (x.file \notin D => x.text = content[x.file]) => Fresh(a, D)
  BY <1>2 DEF Fresh
<1>8. a # <<>>
  BY <1>1
<1> QED
  BY <1>1, <1>5, <1>6, <1>7, <1>8 DEF a

LEMMA FilesOfTail ==
  ASSUME NEW s \in Seq(GoodItem), s # <<>>, Apart(s)
  PROVE  /\ Tail(s) \in Seq(GoodItem) /\ Head(s) = s[1] /\ s[1] \in GoodItem
         /\ Files(Tail(s)) = Files(s) \ {s[1].file} /\ s[1].file \in Files(s) /\ Apart(Tail(s))
         /\ \A D : Fresh(s, D) => Fresh(Tail(s), D)
         /\ Len(s) = 1 <=> Tail(s) = <<>>
<1> DEFINE a == Tail(s)
<1>1. /\ a \in Seq(GoodItem) /\ Len(s) \in Nat \ {0} /\ Len(a) = Len(s) - 1
      /\ DOMAIN a = 1..(Len(s) - 1) /\ DOMAIN s = 1..Len(s)
      /\ \A k \in DOMAIN a : a[k] = s[k + 1] /\ k + 1 \in DOMAIN s /\ k + 1 # 1 /\ k \in Nat
      /\ 1 \in DOMAIN s /\ s[1] \in GoodItem
  OBVIOUS
<1> HIDE DEF a
<1>2. \A k \in DOMAIN s : k # 1 => k - 1 \in DOMAIN a /\ a[k - 1] = s[k]
  BY <1>1
<1>3. Files(a) \subseteq Files(s) \ {s[1].file}
  BY <1>1 DEF Files, Apart
<1>4. \A f \in Files(s) \ {s[1].file} : f \in Files(a)
  <2> TAKE f \in Files(s) \ {s[1].file}
  <2>1. PICK k \in DOMAIN s : f = s[k].file
    BY DEF Files
  <2>2. k # 1
    BY <2>1
  <2> QED
    BY <1>2, <2>1, <2>2 DEF Files
<1>5. Apart(a)
  <2> SUFFICES ASSUME NEW k \in DOMAIN a, NEW l \in DOMAIN a, a[k].file = a[l].file
               PROVE  k = l
    BY DEF Apart
  <2>1. s[k + 1].file = s[l + 1].file
    BY <1>1
  <2>2. k + 1 = l + 1
    BY <1>1, <2>1 DEF Apart
  <2> QED
    BY <1>1, <2>2
<1>6. \A D : Fresh(s, D) => Fresh(a, D)
  BY <1>1 DEF Fresh
<1>7. Len(s) = 1 <=> a = <<>>
  BY <1>1
<1>8. s[1].file \in Files(s) /\ Head(s) = s[1]
  BY <1>1 DEF Files
<1> QED
  BY <1>1, <1>3, <1>4, <1>5, <1>6, <1>7, <1>8 DEF a

\* Files added: their texts follow those queued, and are tagged as the files' places are.
LEMMA TagsAreRouted ==
  ASSUME NEW r \in GoodRun, NEW x \in GoodItem, NEW n \in Nat,
         NEW slots \in [1..n -> DOMAIN x.text]
  PROVE  LET q == r.queue \o Tags(x, Len(r.buf) + 1, slots) IN
         q \in Seq(Tagged) /\ Routed(q, Append(r.buf, x))
<1> DEFINE b == r.buf  k == Len(b) + 1  t == Tags(x, k, slots)  q == r.queue \o t
           a == Append(b, x)
<1>1. /\ b \in Seq(GoodItem) /\ r.queue \in Seq(Tagged) /\ Routed(r.queue, b)
      /\ x.text \in Seq(Text)
  BY DEF GoodRun, GoodFields, GoodItem, Item
<1>2. /\ k \in Nat /\ DOMAIN a = DOMAIN b \cup {k} /\ a[k] = x
      /\ \A j \in DOMAIN b : a[j] = b[j]
  BY <1>1
<1>3. /\ DOMAIN t = 1..n
      /\ \A m \in 1..n : t[m] = [text |-> x.text[slots[m]], id |-> k, slot |-> slots[m]]
  BY DEF Tags
<1>4. \A m \in 1..n : /\ t[m] \in Tagged /\ t[m].id = k /\ t[m].slot \in DOMAIN x.text
                       /\ t[m].text = x.text[t[m].slot]
  <2> TAKE m \in 1..n
  <2>1. slots[m] \in DOMAIN x.text /\ slots[m] \in Nat /\ x.text[slots[m]] \in Text
    BY <1>1
  <2>2. t[m] = [text |-> x.text[slots[m]], id |-> k, slot |-> slots[m]]
    BY <1>3
  <2>3. t[m].text = x.text[slots[m]] /\ t[m].id = k /\ t[m].slot = slots[m]
    BY <2>2
  <2> HIDE DEF t, k
  <2>4. t[m] \in Tagged
    BY <1>2, <2>1, <2>2 DEF Tagged
  <2> QED
    BY <2>1, <2>3, <2>4
<1>5. t \in Seq(Tagged)
  <2>1. t \in [1..n -> Tagged]
    BY <1>3, <1>4 DEF Tags
  <2> QED
    BY <2>1
<1> HIDE DEF t, a, k, b
<1>6. /\ q \in Seq(Tagged)
      /\ \A m \in DOMAIN q : \/ m \in DOMAIN r.queue /\ q[m] = r.queue[m]
                             \/ \E j \in DOMAIN t : q[m] = t[j]
  <2>1. q \in Seq(Tagged) /\ DOMAIN q = 1..(Len(r.queue) + Len(t))
    BY <1>1, <1>5
  <2>2. ASSUME NEW m \in DOMAIN q
        PROVE  \/ m \in DOMAIN r.queue /\ q[m] = r.queue[m]
               \/ \E j \in DOMAIN t : q[m] = t[j]
    <3>1. CASE m <= Len(r.queue)
      BY <1>1, <1>5, <2>1, <3>1
    <3>2. CASE m > Len(r.queue)
      <4>1. m - Len(r.queue) \in DOMAIN t /\ q[m] = t[m - Len(r.queue)]
        BY <1>1, <1>5, <2>1, <3>2
      <4> QED
        BY <4>1
    <3> QED
      BY <1>1, <2>1, <3>1, <3>2
  <2> QED
    BY <2>1, <2>2
<1> HIDE DEF q
<1>7. Routed(q, a)
  <2> SUFFICES ASSUME NEW m \in DOMAIN q
               PROVE  /\ q[m].id \in DOMAIN a
                      /\ q[m].slot \in DOMAIN a[q[m].id].text
                      /\ q[m].text = a[q[m].id].text[q[m].slot]
    BY DEF Routed
  <2>1. CASE m \in DOMAIN r.queue /\ q[m] = r.queue[m]
    BY <1>1, <1>2, <2>1 DEF Routed
  <2>2. CASE \E j \in DOMAIN t : q[m] = t[j]
    BY <1>2, <1>3, <1>4, <2>2
  <2> QED
    BY <1>6, <2>1, <2>2
<1> QED
  BY <1>6, <1>7 DEF q, t, a, k, b

\* The batch comes back with the same files and texts, and vectors of these texts: a
\* result is of the text queued at its place, and goes to the slot of that text.
LEMMA ScatterIsGood ==
  ASSUME NEW r \in GoodRun, NEW failed, r.model \in Model
  PROVE  LET b == r.buf  s == Scatter(r, EmbedAll(r, failed)) IN
         /\ s \in Seq(GoodItem) /\ DOMAIN s = DOMAIN b
         /\ \A k \in DOMAIN s : s[k].file = b[k].file /\ s[k].text = b[k].text
<1> DEFINE b == r.buf  res == EmbedAll(r, failed)
           At(k, i) == {n \in DOMAIN res : /\ r.queue[n].id = k /\ r.queue[n].slot = i
                                          /\ res[n] # None}
           V(k) == [i \in DOMAIN b[k].vec |->
                      IF At(k, i) = {} THEN b[k].vec[i]
                      ELSE res[CHOOSE n \in At(k, i) : TRUE]]
           s == Scatter(r, res)
<1>0. /\ b \in Seq(GoodItem) /\ r.queue \in Seq(Tagged) /\ Routed(r.queue, b)
  BY DEF GoodRun, GoodFields
<1>1. s = [k \in DOMAIN b |-> [b[k] EXCEPT !.vec = V(k)]]
  BY DEF Scatter
<1>9. /\ DOMAIN res = DOMAIN r.queue
      /\ \A n \in DOMAIN res : \/ res[n] = None
                                \/ res[n] = [of |-> r.queue[n].text, by |-> r.model]
  BY DEF EmbedAll
<1>10. ASSUME NEW k \in DOMAIN b, NEW i, NEW n \in At(k, i)
       PROVE  res[n] \in Vector /\ res[n].of = b[k].text[i]
  <2>1. /\ n \in DOMAIN r.queue /\ r.queue[n] \in Tagged
        /\ r.queue[n].text = b[k].text[i]
        /\ res[n] = [of |-> r.queue[n].text, by |-> r.model]
    BY <1>0, <1>9, <1>10 DEF Routed
  <2>2. r.queue[n].text \in Text
    BY <2>1 DEF Tagged
  <2> QED
    BY <2>1, <2>2 DEF Vector
<1> HIDE DEF b, res
<1>2. ASSUME NEW k \in DOMAIN b
      PROVE  s[k] \in GoodItem /\ s[k].file = b[k].file /\ s[k].text = b[k].text
  <2>1. /\ b[k] \in GoodItem /\ b[k] \in Item /\ b[k].text \in Seq(Text)
        /\ b[k].vec \in Seq(Vector \cup {None}) /\ DOMAIN b[k].vec = DOMAIN b[k].text
        /\ b[k].text \in Version[b[k].file] /\ b[k].file \in File
        /\ \A i \in DOMAIN b[k].text : b[k].vec[i] # None => b[k].vec[i].of = b[k].text[i]
    BY <1>0 DEF GoodItem, Item
  <2>3. \A i \in DOMAIN b[k].vec :
          \/ V(k)[i] = b[k].vec[i]
          \/ \E n \in At(k, i) : V(k)[i] = res[n]
    <3> TAKE i \in DOMAIN b[k].vec
    <3>1. CASE At(k, i) = {}
      BY <3>1
    <3>2. CASE At(k, i) # {}
      <4>1. (CHOOSE n \in At(k, i) : TRUE) \in At(k, i)
        BY <3>2
      <4>2. V(k)[i] = res[CHOOSE n \in At(k, i) : TRUE]
        BY <3>2
      <4> HIDE DEF V, At
      <4> QED
        BY <4>1, <4>2
    <3> QED
      BY <3>1, <3>2
  <2>4. DOMAIN V(k) = DOMAIN b[k].vec /\ V(k) = [i \in DOMAIN b[k].vec |-> V(k)[i]]
    OBVIOUS
  <2>5. s[k] = [b[k] EXCEPT !.vec = V(k)]
    BY <1>1
  <2> HIDE DEF V, s, At
  <2>7. \A i \in DOMAIN b[k].vec : /\ V(k)[i] \in Vector \cup {None}
                                   /\ V(k)[i] # None => V(k)[i].of = b[k].text[i]
    <3> TAKE i \in DOMAIN b[k].vec
    <3>1. i \in DOMAIN b[k].text
      BY <2>1
    <3>2. b[k].vec[i] \in Vector \cup {None}
      BY <2>1
    <3>3. CASE V(k)[i] = b[k].vec[i]
      BY <2>1, <3>1, <3>2, <3>3
    <3>4. CASE \E n \in At(k, i) : V(k)[i] = res[n]
      BY <1>10, <3>4
    <3> QED
      BY <2>3, <3>3, <3>4
  <2>8. V(k) \in Seq(Vector \cup {None})
    <3>1. DOMAIN V(k) = 1..Len(b[k].vec) /\ Len(b[k].vec) \in Nat
      BY <2>1, <2>4
    <3>2. V(k) \in [1..Len(b[k].vec) -> Vector \cup {None}]
      BY <2>4, <2>7, <3>1
    <3> QED
      BY <3>1, <3>2
  <2>6. s[k] \in Item /\ s[k].file = b[k].file /\ s[k].text = b[k].text /\ s[k].vec = V(k)
    BY <2>1, <2>5, <2>8 DEF Item
  <2> QED
    BY <2>1, <2>4, <2>6, <2>7 DEF GoodItem
<1>3. DOMAIN s = DOMAIN b /\ DOMAIN b = 1..Len(b) /\ Len(b) \in Nat
  BY <1>0, <1>1
<1>4. s \in [1..Len(b) -> GoodItem]
  BY <1>1, <1>2, <1>3
<1>5. s \in Seq(GoodItem)
  BY <1>3, <1>4
<1> QED
  BY <1>2, <1>3, <1>5 DEF b, res

LEMMA CachedIsOfText ==
  ASSUME NEW f \in File, chunk[f] \in Seq(GoodRow), NEW t
  PROVE  Cached(f, t) # None => Cached(f, t) \in Vector /\ Cached(f, t).of = t
<1> DEFINE kept == {chunk[f][i].vec : i \in {j \in DOMAIN chunk[f] : chunk[f][j].text = t}} \ {None}
<1>1. \A v \in kept : v \in Vector /\ v.of = t
  <2> TAKE v \in kept
  <2>1. PICK i \in DOMAIN chunk[f] : chunk[f][i].text = t /\ v = chunk[f][i].vec /\ v # None
    OBVIOUS
  <2>2. chunk[f][i] \in GoodRow
    BY <2>1
  <2> QED
    BY <2>1, <2>2 DEF GoodRow, Row
<1>2. Cached(f, t) = IF kept = {} THEN None ELSE CHOOSE v \in kept : TRUE
  BY DEF Cached
<1> HIDE DEF kept
<1>3. Cached(f, t) # None => Cached(f, t) \in kept
  BY <1>2
<1> QED
  BY <1>1, <1>3

\* A file read becomes an item, whatever vectors of its texts it finds stored.
LEMMA ItemIsGood ==
  ASSUME NEW f \in File, chunk[f] \in Seq(GoodRow), NEW text \in Seq(Text), text \in Version[f],
         NEW b \in BOOLEAN,
         NEW x, x = [file |-> f, text |-> text,
                     vec |-> [i \in DOMAIN text |-> IF b THEN Cached(f, text[i]) ELSE None]]
  PROVE  x \in GoodItem /\ x.file = f /\ x.text = text
<1> DEFINE V == [i \in DOMAIN text |-> IF b THEN Cached(f, text[i]) ELSE None]
<1>1. \A i \in DOMAIN text : V[i] = Cached(f, text[i]) \/ V[i] = None
  OBVIOUS
<1>2. DOMAIN V = DOMAIN text /\ V = [i \in DOMAIN V |-> V[i]]
  OBVIOUS
<1>3. x = [file |-> f, text |-> text, vec |-> V]
  OBVIOUS
<1> HIDE DEF V
<1>4. \A i \in DOMAIN text : /\ V[i] \in Vector \cup {None}
                             /\ V[i] # None => V[i].of = text[i]
  BY <1>1, CachedIsOfText
<1>5. V \in Seq(Vector \cup {None})
  <2>1. DOMAIN V = 1..Len(text) /\ Len(text) \in Nat
    BY <1>2
  <2>2. V \in [1..Len(text) -> Vector \cup {None}]
    BY <1>2, <1>4, <2>1
  <2> QED
    BY <2>1, <2>2, IsSeq
<1>6. x.file = f /\ x.text = text /\ x.vec = V /\ x \in Item
  BY <1>3, <1>5 DEF Item
<1> QED
  BY <1>2, <1>4, <1>6 DEF GoodItem

\* An item stored is a whole version of its file, with vectors of its texts.
LEMMA ReplacedIsGood ==
  ASSUME NEW x \in GoodItem, NEW old
  PROVE  LET rows == Replaced(old, x) IN
         /\ rows \in Seq(GoodRow) /\ Texts(rows) = x.text
         /\ rows = <<>> <=> x.text = <<>>
         /\ Misses(x) = {} => \A i \in DOMAIN rows : rows[i].vec # None
<1> DEFINE rows == Replaced(old, x)
<1>1. /\ x.text \in Seq(Text) /\ x.vec \in Seq(Vector \cup {None}) /\ DOMAIN x.vec = DOMAIN x.text
      /\ \A k \in DOMAIN x.text : x.vec[k] # None => x.vec[k].of = x.text[k]
      /\ x.text \in Version[x.file]
  BY DEF GoodItem, Item
<1>2. /\ DOMAIN rows = DOMAIN x.text /\ rows = [i \in DOMAIN rows |-> rows[i]]
      /\ \A i \in DOMAIN x.text : rows[i] = [text |-> x.text[i], vec |-> x.vec[i]]
  BY DEF Replaced
<1> HIDE DEF rows
<1>3. \A i \in DOMAIN x.text : /\ rows[i] \in GoodRow /\ rows[i].text = x.text[i]
                               /\ rows[i].vec = x.vec[i]
  <2> TAKE i \in DOMAIN x.text
  <2>1. /\ x.text[i] \in Text /\ x.vec[i] \in Vector \cup {None}
        /\ x.vec[i] # None => x.vec[i].of = x.text[i]
    BY <1>1
  <2>2. rows[i] = [text |-> x.text[i], vec |-> x.vec[i]]
    BY <1>2
  <2> QED
    BY <2>1, <2>2 DEF GoodRow, Row
<1>4. DOMAIN x.text = 1..Len(x.text) /\ Len(x.text) \in Nat
  BY <1>1
<1>5. rows \in Seq(GoodRow)
  <2>1. rows \in [1..Len(x.text) -> GoodRow]
    BY <1>2, <1>3, <1>4
  <2> QED
    BY <1>4, <2>1
<1>6. Texts(rows) = x.text
  <2>1. Texts(rows) = [i \in DOMAIN x.text |-> x.text[i]]
    BY <1>2, <1>3 DEF Texts
  <2>2. x.text = [i \in DOMAIN x.text |-> x.text[i]]
    BY <1>1
  <2> QED
    BY <2>1, <2>2
<1>7. rows = <<>> <=> x.text = <<>>
  BY <1>1, <1>2, <1>4, <1>5
<1>8. Misses(x) = {} => \A i \in DOMAIN rows : rows[i].vec # None
  BY <1>2, <1>3 DEF Misses
<1> QED
  BY <1>5, <1>6, <1>7, <1>8 DEF rows

-----------------------------------------------------------------------------
(* Steps of one pass that leave disk, chunks and the other passes alone.     *)

\* A pass is judged by the disk, the chunks and the edits missed, and by no less
\* than the entries and what is warned of.
LEMMA SoundStays ==
  ASSUME NEW w \in Worker, NEW r, Sound(w, r),
         UNCHANGED <<content, mtime, chunk, slipped>>,
         entry \subseteq entry', warned \subseteq warned'
  PROVE  Sound(w, r)'
<1>1. Shape(r) /\ Counted(w, r) /\ Announced(r)'
  BY DEF Sound, Announced
<1>2. \A s, D : Fresh(s, D)' <=> Fresh(s, D)
  BY DEF Fresh
<1>3. \A f : NoGaps(f)' <=> NoGaps(f)
  BY DEF NoGaps
<1>4. Truthful(r)'
  BY <1>2, <1>3 DEF Sound, Truthful, Texts
<1> QED
  BY <1>1, <1>4 DEF Sound

LEMMA SoundOf ==
  ASSUME NEW w \in Worker, NEW r, run'[w] = r, Sound(w, r)'
  PROVE  Sound(w, run[w])'
<1>1. Shape(run[w])' /\ Counted(w, run[w])'
  BY DEF Sound, Shape, Counted, Memory
<1>2. Announced(run[w])'
  BY DEF Sound, Announced
<1>3. Truthful(run[w])'
  BY DEF Sound, Truthful, Memory, Fresh, NoGaps
<1> QED
  BY <1>1, <1>2, <1>3 DEF Sound

\* Only the entries and what is warned of may grow beside it.
LEMMA PassStep ==
  ASSUME DeepInv, NEW w \in Worker, run' \in [Worker -> GoodRun],
         \A u \in Worker \ {w} : run'[u] = run[u],
         UNCHANGED <<now, content, mtime, model, chunk, indexed, slipped>>,
         entry \subseteq entry', entry' \subseteq File,
         warned \subseteq warned', warned' \subseteq File,
         edits' \in 0..MaxEdits, runs' \in 0..MaxRuns, faults' \in 0..MaxFaults,
         Shape(run'[w]), Counted(w, run'[w]), Truthful(run'[w]),
         run'[w].pc = "chunks" => run'[w].out[1].file \in entry' \cup warned'
  PROVE  DeepInv'
<1>1. DataInv'
  BY DEF DeepInv, DataInv, WholeFile, OrphansAreAnnounced, Behind
<1>2. Sound(w, run[w])'
  <2>1. PICK r : r = run'[w]
    OBVIOUS
  <2>2. Shape(r) /\ Counted(w, r) /\ Truthful(r) /\ Announced(r)'
    BY <2>1 DEF Announced
  <2>3. \A s, D : Fresh(s, D)' <=> Fresh(s, D)
    BY DEF Fresh
  <2>4. \A f : NoGaps(f)' <=> NoGaps(f)
    BY DEF NoGaps
  <2>5. Truthful(r)'
    BY <2>2, <2>3, <2>4 DEF Truthful, Texts
  <2>6. Sound(w, r)'
    BY <2>2, <2>5 DEF Sound
  <2> QED
    BY <2>1, <2>6, SoundOf
<1>3. ASSUME NEW u \in Worker \ {w} PROVE Sound(u, run[u])'
  <2>1. Sound(u, run[u]) /\ run'[u] = run[u]
    BY DEF DeepInv, RunInv
  <2> QED
    BY <2>1, SoundStays, SoundOf
<1> QED
  BY <1>1, <1>2, <1>3 DEF DeepInv, RunInv

LEMMA Updated ==
  ASSUME run \in [Worker -> GoodRun], NEW w \in Worker, NEW v \in GoodRun,
         run' = [run EXCEPT ![w] = v]
  PROVE  /\ run' \in [Worker -> GoodRun] /\ run'[w] = v
         /\ \A u \in Worker \ {w} : run'[u] = run[u]
OBVIOUS

\* v is r but for what does not place or judge a file.
Alike(v, r) ==
  /\ v.mode = r.mode /\ v.model = r.model /\ v.snap = r.snap
  /\ v.todo = r.todo /\ v.told = r.told
  /\ v.cur = r.cur /\ v.buf = r.buf /\ v.out = r.out
  /\ v.lost = r.lost /\ v.changed = r.changed /\ v.blank = r.blank

\* The records the steps of a pass leave, by name: what they share with the old
\* one is said once for each.
Moved(r, p) == [r EXCEPT !.pc = p]
Stopped(r) == [r EXCEPT !.cancel = TRUE]
Skipped(w, r, f) == Told(w, [r EXCEPT !.todo = @ \ {f}, !.gain = TRUE], f)
Unread(w, r, f) == Told(w, [r EXCEPT !.todo = @ \ {f}, !.lost = @ \cup {f}], f)
Opened(r, f, x) == [r EXCEPT !.pc = "partition", !.todo = @ \ {f}, !.cur = <<x>>]

LEMMA MovedRecord ==
  ASSUME NEW r \in GoodRun, NEW p \in Pc
  PROVE  Moved(r, p) \in GoodRun /\ Moved(r, p).pc = p /\ Alike(Moved(r, p), r)
BY DEF GoodRun, GoodFields, Alike, Moved

LEMMA StoppedRecord ==
  ASSUME NEW r \in GoodRun
  PROVE  Stopped(r) \in GoodRun /\ Stopped(r).pc = r.pc /\ Alike(Stopped(r), r)
BY DEF GoodRun, GoodFields, Alike, Stopped

LEMMA SkippedRecord ==
  ASSUME NEW w \in Worker, NEW r \in GoodRun, NEW f \in File
  PROVE  LET q == Skipped(w, r, f) IN
         /\ q \in GoodRun
         /\ q.pc = r.pc /\ q.mode = r.mode /\ q.model = r.model /\ q.snap = r.snap /\ q.todo = r.todo \ {f}
         /\ w \notin Terminal => q.told = r.told \cup {f}
         /\ q.cur = r.cur /\ q.buf = r.buf /\ q.out = r.out
         /\ q.lost = r.lost /\ q.changed = r.changed /\ q.blank = r.blank
BY DEF GoodRun, GoodFields, Told, Skipped

LEMMA UnreadRecord ==
  ASSUME NEW w \in Worker, NEW r \in GoodRun, NEW f \in File
  PROVE  LET q == Unread(w, r, f) IN
         /\ q \in GoodRun
         /\ q.pc = r.pc /\ q.mode = r.mode /\ q.model = r.model /\ q.snap = r.snap /\ q.todo = r.todo \ {f}
         /\ w \notin Terminal => q.told = r.told \cup {f}
         /\ q.cur = r.cur /\ q.buf = r.buf /\ q.out = r.out
         /\ q.lost = r.lost \cup {f} /\ q.changed = r.changed /\ q.blank = r.blank
BY DEF GoodRun, GoodFields, Told, Unread

LEMMA OpenedRecord ==
  ASSUME NEW r \in GoodRun, NEW f \in File, NEW x \in GoodRead
  PROVE  LET q == Opened(r, f, x) IN
         /\ q \in GoodRun
         /\ q.pc = "partition" /\ q.mode = r.mode /\ q.model = r.model /\ q.snap = r.snap /\ q.todo = r.todo \ {f}
         /\ q.told = r.told /\ q.cur = <<x>> /\ q.buf = r.buf /\ q.out = r.out
         /\ q.lost = r.lost /\ q.changed = r.changed /\ q.blank = r.blank
<1>1. <<x>> \in Seq(GoodRead) /\ "partition" \in Pc
  BY DEF Pc
<1> QED
  BY <1>1 DEF GoodRun, GoodFields, Opened

Buffered(r, x, slots) == Registered(r, x, slots)
Complete(r, x) == [r EXCEPT !.pc = "entry", !.cur = <<>>, !.out = <<x>>]
Embedded(r, s) == [r EXCEPT !.pc = "entry", !.buf = <<>>, !.queue = <<>>, !.out = s]
Named(r) == [r EXCEPT !.pc = "chunks", !.gain = @ \/ r.mode = "summaries"]
Unnamed(r, f) == [r EXCEPT !.pc = "chunks", !.lost = @ \cup {f}]

LEMMA BufferedRecord ==
  ASSUME NEW r \in GoodRun, NEW x \in GoodItem, Append(r.buf, x) \in Seq(GoodItem),
         NEW n \in Nat, NEW slots \in [1..n -> DOMAIN x.text]
  PROVE  LET q == Buffered(r, x, slots) IN
         /\ q \in GoodRun
         /\ q.pc \in {"embed", "loop"} /\ q.mode = r.mode /\ q.model = r.model /\ q.snap = r.snap
         /\ q.todo = r.todo /\ q.told = r.told
         /\ q.cur = <<>> /\ q.buf = Append(r.buf, x) /\ q.out = r.out
         /\ q.lost = r.lost /\ q.changed = r.changed /\ q.blank = r.blank
<1> DEFINE u == r.queue \o Tags(x, Len(r.buf) + 1, slots)
           p == IF Len(u) >= BatchSize THEN "embed" ELSE "loop"
<1>1. p \in {"embed", "loop"} /\ p \in Pc /\ <<>> \in Seq(GoodRead)
  BY DEF Pc
<1>2. Buffered(r, x, slots) = [r EXCEPT !.pc = p, !.cur = <<>>, !.buf = Append(r.buf, x),
                                        !.queue = u]
  BY DEF Buffered, Registered
<1>3. u \in Seq(Tagged) /\ Routed(u, Append(r.buf, x))
  BY TagsAreRouted
<1> HIDE DEF p, u
<1> QED
  BY <1>1, <1>2, <1>3 DEF GoodRun, GoodFields

LEMMA CompleteRecord ==
  ASSUME NEW r \in GoodRun, NEW x \in GoodItem
  PROVE  LET q == Complete(r, x) IN
         /\ q \in GoodRun
         /\ q.pc = "entry" /\ q.mode = r.mode /\ q.model = r.model /\ q.snap = r.snap
         /\ q.todo = r.todo /\ q.told = r.told
         /\ q.cur = <<>> /\ q.buf = r.buf /\ q.out = <<x>>
         /\ q.lost = r.lost /\ q.changed = r.changed /\ q.blank = r.blank
<1>1. <<x>> \in Seq(GoodItem) /\ <<>> \in Seq(GoodRead) /\ "entry" \in Pc
  BY DEF Pc
<1> QED
  BY <1>1 DEF GoodRun, GoodFields, Complete

LEMMA EmbeddedRecord ==
  ASSUME NEW r \in GoodRun, NEW s \in Seq(GoodItem)
  PROVE  LET q == Embedded(r, s) IN
         /\ q \in GoodRun
         /\ q.pc = "entry" /\ q.mode = r.mode /\ q.model = r.model /\ q.snap = r.snap
         /\ q.todo = r.todo /\ q.told = r.told
         /\ q.cur = r.cur /\ q.buf = <<>> /\ q.out = s
         /\ q.lost = r.lost /\ q.changed = r.changed /\ q.blank = r.blank
<1>1. <<>> \in Seq(GoodItem) /\ <<>> \in Seq(Tagged) /\ Routed(<<>>, <<>>) /\ "entry" \in Pc
  BY DEF Pc, Routed
<1> QED
  BY <1>1 DEF GoodRun, GoodFields, Embedded

LEMMA NamedRecord ==
  ASSUME NEW r \in GoodRun
  PROVE  Named(r) \in GoodRun /\ Named(r).pc = "chunks" /\ Alike(Named(r), r)
<1>1. "chunks" \in Pc /\ (r.gain \/ r.mode = "summaries") \in BOOLEAN
  BY DEF Pc
<1> QED
  BY <1>1 DEF GoodRun, GoodFields, Named, Alike

LEMMA UnnamedRecord ==
  ASSUME NEW r \in GoodRun, NEW f \in File
  PROVE  LET q == Unnamed(r, f) IN
         /\ q \in GoodRun
         /\ q.pc = "chunks" /\ q.mode = r.mode /\ q.model = r.model /\ q.snap = r.snap
         /\ q.todo = r.todo /\ q.told = r.told
         /\ q.cur = r.cur /\ q.buf = r.buf /\ q.out = r.out
         /\ q.lost = r.lost \cup {f} /\ q.changed = r.changed /\ q.blank = r.blank
BY DEF GoodRun, GoodFields, Unnamed, Pc

LEMMA OffStep ==
  ASSUME DeepInv, NEW w \in Worker, run' = [run EXCEPT ![w] = Off],
         UNCHANGED <<now, disk, model, db, ghost, edits, runs>>, faults' \in 0..MaxFaults
  PROVE  DeepInv'
<1>1. run \in [Worker -> GoodRun]
  BY DEF DeepInv, RunInv
<1>2. /\ run' \in [Worker -> GoodRun] /\ run'[w] = Off
      /\ \A u \in Worker \ {w} : run'[u] = run[u]
  BY <1>1, OffIsGood
<1>3. Sound(w, run'[w]) /\ run'[w].pc = "idle"
  BY <1>2, OffIsGood
<1> QED
  BY <1>2, <1>3, PassStep DEF disk, db, ghost, DeepInv, DataInv, Sound

LEMMA StartStep ==
  ASSUME DeepInv, NEW w \in Worker, NEW mode \in Mode, Start(w, mode)
  PROVE  DeepInv'
<1> DEFINE v == [Off EXCEPT !.pc = "loop", !.mode = mode, !.model = model, !.snap = mtime,
                            !.todo = File]
<1>1. /\ run' = [run EXCEPT ![w] = v] /\ runs < MaxRuns /\ runs' = runs + 1
      /\ UNCHANGED <<now, disk, model, db, ghost, edits, faults>>
  BY DEF Start
<1>2. run \in [Worker -> GoodRun] /\ mtime \in [File -> 0..MaxClock] /\ model \in Model
      /\ runs \in 0..MaxRuns /\ edits \in 0..MaxEdits /\ faults \in 0..MaxFaults
  BY DEF DeepInv, RunInv, DataInv
<1>3. /\ v \in GoodRun /\ v.pc = "loop" /\ v.model \in Model /\ v.todo = File /\ v.snap = mtime
      /\ v.cur = <<>> /\ v.buf = <<>> /\ v.out = <<>> /\ v.told = {}
  BY <1>2, OffIsGood DEF GoodRun, GoodFields, Off, Pc
<1> HIDE DEF v
<1>4. /\ run' \in [Worker -> GoodRun] /\ run'[w] = v
      /\ \A u \in Worker \ {w} : run'[u] = run[u]
  BY <1>1, <1>2, <1>3
<1>5. Memory(v) = {}
  BY <1>3, FilesOfNone DEF Memory
<1>6. Shape(v)
  BY <1>3, <1>5, FilesOfNone DEF Shape, Ended, Memory
<1>7. Counted(w, v)
  BY <1>3 DEF Counted
<1>8. Truthful(v)
  BY <1>3, FilesOfNone DEF Truthful
<1>9. runs' \in 0..MaxRuns
  BY <1>1, <1>2, DeepConstants DEF DeepConstants
<1> QED
  BY <1>1, <1>2, <1>3, <1>4, <1>6, <1>7, <1>8, <1>9, PassStep DEF disk, db, ghost, DeepInv, DataInv

LEMMA CancelStep ==
  ASSUME DeepInv, NEW w \in Worker, Cancel(w)
  PROVE  DeepInv'
<1> DEFINE r == run[w]  v == run'[w]
<1>1. /\ run' = [run EXCEPT ![w].cancel = TRUE] /\ r.pc = "loop"
      /\ UNCHANGED <<now, disk, model, db, ghost, edits, runs, faults>>
  BY DEF Cancel
<1>2. run \in [Worker -> GoodRun] /\ Sound(w, r)
  BY DEF DeepInv, RunInv
<1>3. /\ run' \in [Worker -> GoodRun] /\ \A u \in Worker \ {w} : run'[u] = run[u]
      /\ v.pc = "loop" /\ Alike(v, r)
  <2>1. run' = [run EXCEPT ![w] = Stopped(r)]
    BY <1>1, <1>2 DEF Stopped
  <2> QED
    BY <1>1, <1>2, <2>1, Updated, StoppedRecord
<1> HIDE DEF r, v
<1>4. Shape(v) /\ Counted(w, v) /\ Truthful(v)
  <2>1. Memory(v) = Memory(r)
    BY <1>3 DEF Alike, Memory
  <2>2. Shape(v)
    BY <1>1, <1>2, <1>3, <2>1 DEF Alike, Sound, Shape, Ended
  <2> QED
    BY <1>1, <1>2, <1>3, <2>1, <2>2 DEF Alike, Sound, Counted, Truthful
<1> QED
  BY <1>1, <1>3, <1>4, PassStep DEF v, disk, db, ghost, DeepInv, DataInv

LEMMA FinishStep ==
  ASSUME DeepInv, NEW w \in Worker, Finish(w)
  PROVE  DeepInv'
<1> DEFINE r == run[w]  v == run'[w]
<1>1. /\ r.pc = "loop" /\ r.buf = <<>>
      /\ \E p \in Ended : /\ p = "done" => r.todo = {}
                          /\ run' = [run EXCEPT ![w].pc = p]
      /\ UNCHANGED <<now, disk, model, db, ghost, edits, runs, faults>>
  BY DEF Finish, Ended
<1>2. run \in [Worker -> GoodRun] /\ Sound(w, r)
  BY DEF DeepInv, RunInv
<1>3. /\ run' \in [Worker -> GoodRun] /\ \A u \in Worker \ {w} : run'[u] = run[u]
      /\ v.pc \in Ended /\ (v.pc = "done" => r.todo = {}) /\ Alike(v, r)
  <2>1. PICK p \in Ended : /\ p = "done" => r.todo = {}
                           /\ run' = [run EXCEPT ![w].pc = p]
    BY <1>1
  <2>2. run' = [run EXCEPT ![w] = Moved(r, p)]
    BY <1>2, <2>1 DEF Moved
  <2>3. p \in Pc
    BY DEF Pc
  <2> QED
    BY <1>2, <2>1, <2>2, <2>3, Updated, MovedRecord
<1> HIDE DEF r, v
<1>4. Shape(v) /\ Counted(w, v) /\ Truthful(v)
  <2>1. Memory(v) = Memory(r)
    BY <1>3 DEF Alike, Memory
  <2>2. Shape(v)
    BY <1>1, <1>2, <1>3, <2>1 DEF Alike, Sound, Shape, Ended
  <2>3. Counted(w, v)
    BY <1>1, <1>2, <1>3, <2>1 DEF Alike, Sound, Counted, Ended
  <2> QED
    BY <1>1, <1>2, <1>3, <2>1, <2>2, <2>3 DEF Alike, Sound, Truthful
<1> QED
  BY <1>1, <1>3, <1>4, PassStep DEF v, disk, db, ghost, DeepInv, DataInv, Ended

\* Files that are not waiting any more, nor in memory, are through.
LEMMA SkipStep ==
  ASSUME DeepInv, NEW w \in Worker, NEW f \in File, Take(w, f), Current(f, run[w].snap[f]),
         Skip(w, f)
  PROVE  DeepInv'
<1> DEFINE r == run[w]  v == run'[w]
<1>1. /\ r.pc = "loop" /\ f \in r.todo
      /\ run' = [run EXCEPT ![w] = Told(w, [r EXCEPT !.todo = @ \ {f}, !.gain = TRUE], f)]
      /\ UNCHANGED <<now, disk, model, db, ghost, edits, runs, faults>>
  BY DEF Take, Skip, NoFault
<1>2. run \in [Worker -> GoodRun] /\ Sound(w, r)
  BY DEF DeepInv, RunInv
<1>3. /\ run' \in [Worker -> GoodRun] /\ \A u \in Worker \ {w} : run'[u] = run[u]
      /\ v.pc = "loop" /\ v.mode = r.mode /\ v.model = r.model /\ v.snap = r.snap /\ v.todo = r.todo \ {f}
      /\ w \notin Terminal => v.told = r.told \cup {f}
      /\ v.cur = r.cur /\ v.buf = r.buf /\ v.out = r.out
      /\ v.lost = r.lost /\ v.changed = r.changed /\ v.blank = r.blank
  <2>1. run' = [run EXCEPT ![w] = Skipped(w, r, f)]
    BY <1>1 DEF Skipped
  <2> QED
    BY <1>1, <1>2, <2>1, Updated, SkippedRecord
<1>4. /\ chunk[f] # <<>> /\ indexed[f] >= r.snap[f] /\ NoGaps(f)
  BY DEF Current, NoGaps
<1> HIDE DEF r, v
<1>5. Memory(v) = Memory(r) /\ f \notin Memory(r)
  BY <1>1, <1>2, <1>3 DEF Memory, Sound, Shape
<1>6. Shape(v) /\ Counted(w, v)
  BY <1>1, <1>2, <1>3, <1>5 DEF Sound, Shape, Counted, Ended
<1>7. f \notin r.changed \cup slipped => Texts(chunk[f]) = content[f]
  <2>1. f \notin r.changed => r.snap[f] = mtime[f]
    BY <1>1, <1>2 DEF Sound, Truthful
  <2>2. indexed[f] \in 0..MaxClock /\ mtime[f] \in 0..MaxClock
    BY DEF DeepInv, DataInv
  <2>3. f \notin slipped /\ Texts(chunk[f]) # content[f] => indexed[f] < mtime[f]
    BY <1>4 DEF DeepInv, DataInv, Behind
  <2> QED
    BY <1>4, <2>1, <2>2, <2>3
<1>8. Truthful(v)
  BY <1>1, <1>2, <1>3, <1>4, <1>5, <1>7 DEF Sound, Truthful
<1> QED
  BY <1>1, <1>3, <1>6, <1>8, PassStep DEF v, disk, db, ghost, DeepInv, DataInv

LEMMA ParseStep ==
  ASSUME DeepInv, NEW w \in Worker, NEW f \in File, Take(w, f), Parse(w, f)
  PROVE  DeepInv'
<1> DEFINE r == run[w]  v == run'[w]  x == [file |-> f, text |-> content[f]]
<1>1. /\ r.pc = "loop" /\ f \in r.todo
      /\ UNCHANGED <<now, disk, model, db, ghost, edits, runs>>
  BY DEF Take
<1>2. run \in [Worker -> GoodRun] /\ Sound(w, r) /\ faults \in 0..MaxFaults
  BY DEF DeepInv, DataInv, RunInv
<1>3. x \in GoodRead /\ x.file = f /\ x.text = content[f]
  BY DEF GoodRead, DeepInv, DataInv
<1>4. CASE /\ run' = [run EXCEPT ![w].pc = "partition", ![w].todo = @ \ {f}, ![w].cur = <<x>>]
           /\ NoFault
  <2>1. <<x>> \in Seq(GoodRead) /\ <<x>>[1] = x /\ Len(<<x>>) = 1 /\ DOMAIN <<x>> = {1}
    BY <1>3
  <2> HIDE DEF x
  <2>2. /\ run' \in [Worker -> GoodRun] /\ \A u \in Worker \ {w} : run'[u] = run[u]
        /\ v.pc = "partition" /\ v.mode = r.mode /\ v.model = r.model /\ v.snap = r.snap /\ v.todo = r.todo \ {f}
        /\ v.told = r.told /\ v.cur = <<x>> /\ v.buf = r.buf /\ v.out = r.out
        /\ v.lost = r.lost /\ v.changed = r.changed /\ v.blank = r.blank
    <3>1. run' = [run EXCEPT ![w] = Opened(r, f, x)]
      BY <1>2, <1>4 DEF Opened
    <3> QED
      BY <1>2, <1>3, <3>1, Updated, OpenedRecord
  <2> HIDE DEF r, v
  <2>3. Files(v.cur) = {f} /\ Files(r.cur) = {}
    BY <1>1, <1>2, <1>3, <2>1, <2>2, FilesOfOne, FilesOfNone DEF Sound, Shape
  <2>4. Memory(v) = Memory(r) \cup {f} /\ f \notin Memory(r)
    BY <1>1, <1>2, <2>2, <2>3 DEF Memory, Sound, Shape
  <2>5. Shape(v)
    BY <1>1, <1>2, <2>1, <2>2, <2>3, <2>4 DEF Sound, Shape, Ended, Memory
  <2>6. Counted(w, v)
    BY <1>1, <1>2, <2>2, <2>4 DEF Sound, Counted
  <2>7. Fresh(v.cur, v.changed)
    BY <1>3, <2>1, <2>2 DEF Fresh
  <2>8. Truthful(v)
    BY <1>1, <1>2, <2>2, <2>4, <2>7 DEF Sound, Truthful
  <2> QED
    BY <1>1, <1>2, <1>4, <2>2, <2>5, <2>6, <2>8, PassStep
       DEF v, disk, db, ghost, DeepInv, DataInv, NoFault
<1>5. CASE /\ Fault
           /\ run' = [run EXCEPT ![w] = Told(w, [r EXCEPT !.todo = @ \ {f},
                                                          !.lost = @ \cup {f}], f)]
  <2>1. /\ run' \in [Worker -> GoodRun] /\ \A u \in Worker \ {w} : run'[u] = run[u]
        /\ v.pc = r.pc /\ v.mode = r.mode /\ v.model = r.model /\ v.snap = r.snap /\ v.todo = r.todo \ {f}
        /\ w \notin Terminal => v.told = r.told \cup {f}
        /\ v.cur = r.cur /\ v.buf = r.buf /\ v.out = r.out
        /\ v.lost = r.lost \cup {f} /\ v.changed = r.changed /\ v.blank = r.blank
    <3>1. run' = [run EXCEPT ![w] = Unread(w, r, f)]
      BY <1>5 DEF Unread
    <3> QED
      BY <1>1, <1>2, <3>1, Updated, UnreadRecord
  <2>2. faults' \in 0..MaxFaults
    BY <1>2, <1>5, DeepConstants DEF Fault, DeepConstants
  <2> HIDE DEF r, v
  <2>3. Memory(v) = Memory(r) /\ f \notin Memory(r)
    BY <1>1, <1>2, <2>1 DEF Memory, Sound, Shape
  <2>4. Shape(v) /\ Counted(w, v)
    BY <1>1, <1>2, <2>1, <2>3 DEF Sound, Shape, Counted, Ended
  <2>5. Truthful(v)
    BY <1>1, <1>2, <2>1, <2>3 DEF Sound, Truthful
  <2> QED
    BY <1>1, <2>1, <2>2, <2>4, <2>5, PassStep DEF v, disk, db, ghost, DeepInv, DataInv
<1> QED
  BY <1>4, <1>5 DEF Parse

LEMMA PartitionStep ==
  ASSUME DeepInv, NEW w \in Worker, Partition(w)
  PROVE  DeepInv'
<1> DEFINE r == run[w]  v == run'[w]  f == r.cur[1].file  text == r.cur[1].text
           b == r.mode = "vectors"
           x == [file |-> f, text |-> text,
                 vec |-> [i \in DOMAIN text |-> IF b THEN Cached(f, text[i]) ELSE None]]
<1>1. /\ r.pc = "partition"
      /\ \/ \E slots \in [1..Cardinality(Misses(x)) -> Misses(x)] :
              run' = [run EXCEPT ![w] = Buffered(r, x, slots)]
         \/ run' = [run EXCEPT ![w] = Complete(r, x)]
      /\ UNCHANGED <<now, disk, model, db, ghost, edits, runs, faults>>
  BY Zenon DEF Partition, Buffer, Buffered, Complete
<1>2. run \in [Worker -> GoodRun] /\ Sound(w, r) /\ r \in GoodRun
  BY DEF DeepInv, RunInv
<1>3. /\ r.cur \in Seq(GoodRead) /\ Len(r.cur) = 1 /\ r.out = <<>> /\ r.buf \in Seq(GoodItem)
      /\ Files(r.cur) \cap Files(r.buf) = {} /\ Apart(r.buf)
  BY <1>1, <1>2 DEF GoodRun, GoodFields, Sound, Shape
<1>4. r.cur[1] \in GoodRead /\ DOMAIN r.cur = {1}
  BY <1>3
<1>5. /\ f \in File /\ text \in Seq(Text) /\ text \in Version[f] /\ chunk[f] \in Seq(GoodRow)
      /\ Files(r.cur) = {f} /\ (f \notin r.changed => text = content[f])
  <2>1. f \in File /\ text \in Seq(Text) /\ text \in Version[f]
    BY <1>4 DEF GoodRead
  <2>2. chunk[f] \in Seq(GoodRow)
    BY <2>1 DEF DeepInv, DataInv
  <2>3. Files(r.cur) = {f}
    BY <1>4 DEF Files
  <2>4. Fresh(r.cur, r.changed)
    BY <1>1, <1>2 DEF Sound, Truthful
  <2>5. f \notin r.changed => text = content[f]
    BY <1>4, <2>4 DEF Fresh
  <2> QED
    BY <2>1, <2>2, <2>3, <2>5
<1>6. x \in GoodItem /\ x.file = f /\ x.text = text
  <2>1. b \in BOOLEAN
    OBVIOUS
  <2> HIDE DEF b, f, text
  <2> QED
    BY <1>5, <2>1, ItemIsGood
<1> HIDE DEF x, b
<1>7. ASSUME NEW slots \in [1..Cardinality(Misses(x)) -> Misses(x)],
             run' = [run EXCEPT ![w] = Buffered(r, x, slots)]
      PROVE  DeepInv'
  <2>0. /\ Cardinality(Misses(x)) \in Nat
        /\ slots \in [1..Cardinality(Misses(x)) -> DOMAIN x.text]
    <3>1. Misses(x) \subseteq DOMAIN x.text
      BY DEF Misses
    <3>2. x.text \in Seq(Text)
      BY <1>5, <1>6
    <3>3. IsFiniteSet(DOMAIN x.text)
      BY <3>2, FS_Interval
    <3>4. IsFiniteSet(Misses(x))
      BY <3>1, <3>3, FS_Subset
    <3>5. Cardinality(Misses(x)) \in Nat
      BY <3>4, FS_CardinalityType
    <3> QED
      BY <3>1, <3>5
  <2>1. /\ Append(r.buf, x) \in Seq(GoodItem) /\ Append(r.buf, x) # <<>>
        /\ Files(Append(r.buf, x)) = Files(r.buf) \cup {f} /\ Apart(Append(r.buf, x))
        /\ Fresh(Append(r.buf, x), r.changed)
    BY <1>1, <1>2, <1>3, <1>5, <1>6, FilesOfAppend DEF Sound, Truthful
  <2>2. /\ run' \in [Worker -> GoodRun] /\ \A u \in Worker \ {w} : run'[u] = run[u]
        /\ v.pc \in {"embed", "loop"} /\ v.mode = r.mode /\ v.model = r.model /\ v.snap = r.snap
        /\ v.todo = r.todo /\ v.told = r.told
        /\ v.cur = <<>> /\ v.buf = Append(r.buf, x) /\ v.out = <<>>
        /\ v.lost = r.lost /\ v.changed = r.changed /\ v.blank = r.blank
    <3>1. LET q == Buffered(r, x, slots) IN
          /\ q \in GoodRun
          /\ q.pc \in {"embed", "loop"} /\ q.mode = r.mode /\ q.model = r.model /\ q.snap = r.snap
          /\ q.todo = r.todo /\ q.told = r.told
          /\ q.cur = <<>> /\ q.buf = Append(r.buf, x) /\ q.out = r.out
          /\ q.lost = r.lost /\ q.changed = r.changed /\ q.blank = r.blank
      BY <1>2, <1>6, <2>0, <2>1, BufferedRecord
    <3> QED
      BY <1>2, <1>3, <1>7, <3>1, Updated
  <2> HIDE DEF r, v, f, text
  <2>3. Memory(v) = Memory(r)
    BY <1>3, <1>5, <2>1, <2>2, FilesOfNone DEF Memory
  <2>4. Shape(v)
    BY <1>1, <1>2, <2>1, <2>2, <2>3, FilesOfNone DEF Sound, Shape, Ended
  <2>5. Counted(w, v) /\ Truthful(v)
    BY <1>1, <1>2, <2>1, <2>2, <2>3, FilesOfNone DEF Sound, Counted, Truthful
  <2> QED
    BY <1>1, <2>2, <2>4, <2>5, PassStep DEF v, disk, db, ghost, DeepInv, DataInv
<1>8. CASE run' = [run EXCEPT ![w] = Complete(r, x)]
  <2>1. Files(<<x>>) = {f} /\ Apart(<<x>>) /\ Fresh(<<x>>, r.changed)
    BY <1>5, <1>6, FilesOfOne DEF Fresh
  <2>2. /\ run' \in [Worker -> GoodRun] /\ \A u \in Worker \ {w} : run'[u] = run[u]
        /\ v.pc = "entry" /\ v.mode = r.mode /\ v.model = r.model /\ v.snap = r.snap
        /\ v.todo = r.todo /\ v.told = r.told
        /\ v.cur = <<>> /\ v.buf = r.buf /\ v.out = <<x>>
        /\ v.lost = r.lost /\ v.changed = r.changed /\ v.blank = r.blank
    BY <1>2, <1>6, <1>8, Updated, CompleteRecord
  <2> HIDE DEF r, v, f, text
  <2>3. Memory(v) = Memory(r)
    BY <1>3, <1>5, <2>1, <2>2, FilesOfNone DEF Memory
  <2>4. Shape(v)
    BY <1>1, <1>2, <1>3, <1>5, <2>1, <2>2, <2>3, FilesOfNone DEF Sound, Shape, Ended
  <2>5. Counted(w, v) /\ Truthful(v)
    BY <1>1, <1>2, <2>1, <2>2, <2>3, FilesOfNone DEF Sound, Counted, Truthful
  <2> QED
    BY <1>1, <2>2, <2>4, <2>5, PassStep DEF v, disk, db, ghost, DeepInv, DataInv
<1> QED
  BY <1>1, <1>7, <1>8, Zenon

LEMMA EmbedStep ==
  ASSUME DeepInv, NEW w \in Worker, Embed(w)
  PROVE  DeepInv'
<1> DEFINE r == run[w]  v == run'[w]
<1>1. PICK failed : /\ faults' = faults \/ Fault
                    /\ run' = [run EXCEPT ![w] =
                                 Embedded(r, Scatter(r, EmbedAll(r, failed)))]
  BY DEF Embed, Embedded, NoFault
<1>2. /\ r.pc \in {"embed", "loop"}
      /\ r.pc = "loop" => r.buf # <<>>
      /\ UNCHANGED <<now, disk, model, db, ghost, edits, runs>>
  BY DEF Embed
<1>3. run \in [Worker -> GoodRun] /\ Sound(w, r) /\ r \in GoodRun
  BY DEF DeepInv, RunInv
<1>4. /\ r.buf \in Seq(GoodItem) /\ r.buf # <<>> /\ r.model \in Model
      /\ r.cur = <<>> /\ r.out = <<>>
  BY <1>2, <1>3 DEF GoodRun, GoodFields, Sound, Shape
<1> DEFINE s == Scatter(r, EmbedAll(r, failed))
<1>5. /\ s \in Seq(GoodItem) /\ DOMAIN s = DOMAIN r.buf
      /\ \A k \in DOMAIN s : s[k].file = r.buf[k].file /\ s[k].text = r.buf[k].text
  BY <1>3, <1>4, ScatterIsGood
<1>6. /\ run' \in [Worker -> GoodRun] /\ \A u \in Worker \ {w} : run'[u] = run[u]
      /\ v.pc = "entry" /\ v.mode = r.mode /\ v.model = r.model /\ v.snap = r.snap
      /\ v.todo = r.todo /\ v.told = r.told
      /\ v.cur = r.cur /\ v.buf = <<>> /\ v.out = s
      /\ v.lost = r.lost /\ v.changed = r.changed /\ v.blank = r.blank
  <2> HIDE DEF s
  <2> QED
    BY <1>1, <1>3, <1>5, Updated, EmbeddedRecord DEF s
<1> HIDE DEF r, v, s
<1>7. Files(s) = Files(r.buf) /\ (Apart(r.buf) => Apart(s)) /\ s # <<>>
      /\ \A D : Fresh(r.buf, D) => Fresh(s, D)
  <2>1. s # <<>>
    BY <1>4, <1>5
  <2> QED
    BY <1>5, <2>1 DEF Files, Apart, Fresh
<1>8. Memory(v) = Memory(r)
  BY <1>4, <1>6, <1>7, FilesOfNone DEF Memory
<1>9. Shape(v)
  BY <1>2, <1>3, <1>4, <1>6, <1>7, <1>8, FilesOfNone DEF Sound, Shape, Ended
<1>10. Counted(w, v) /\ Truthful(v)
  BY <1>2, <1>3, <1>6, <1>7, <1>8, FilesOfNone DEF Sound, Counted, Truthful
<1>11. faults' \in 0..MaxFaults
  BY <1>1, DeepConstants DEF Fault, DeepConstants, DeepInv, DataInv
<1> QED
  BY <1>2, <1>6, <1>9, <1>10, <1>11, PassStep DEF v, disk, db, ghost, DeepInv, DataInv

LEMMA WriteEntryStep ==
  ASSUME DeepInv, NEW w \in Worker, WriteEntry(w)
  PROVE  DeepInv'
<1> DEFINE r == run[w]  v == run'[w]  f == r.out[1].file
<1>1. /\ r.pc = "entry"
      /\ UNCHANGED <<now, disk, model, chunk, indexed, slipped, edits, runs>>
      /\ \/ /\ entry' = entry \cup {f} /\ run' = [run EXCEPT ![w] = Named(r)]
            /\ UNCHANGED <<warned, faults>>
         \/ /\ Fault /\ UNCHANGED <<entry, warned>> /\ run' = [run EXCEPT ![w] = Off]
         \/ /\ Fault /\ UNCHANGED entry /\ warned' = warned \cup {f}
            /\ run' = [run EXCEPT ![w] = Unnamed(r, f)]
  <2>1. /\ r.pc = "entry"
        /\ UNCHANGED <<now, disk, model, chunk, indexed, slipped, edits, runs>>
    BY DEF WriteEntry
  <2>2. [run EXCEPT ![w].pc = "chunks", ![w].gain = @ \/ run[w].mode = "summaries"]
          = [run EXCEPT ![w] = Named(r)]
    BY DEF Named
  <2>3. [run EXCEPT ![w].pc = "chunks", ![w].lost = @ \cup {f}]
          = [run EXCEPT ![w] = Unnamed(r, f)]
    BY DEF Unnamed
  <2>4. \/ /\ entry' = entry \cup {f}
           /\ run' = [run EXCEPT ![w].pc = "chunks", ![w].gain = @ \/ run[w].mode = "summaries"]
           /\ UNCHANGED <<warned, faults>>
        \/ Fault /\ EntryFailed(w, f) /\ UNCHANGED entry
    BY DEF WriteEntry, NoFault
  <2>5. EntryFailed(w, f) =>
          \/ UNCHANGED warned /\ run' = [run EXCEPT ![w] = Off]
          \/ /\ warned' = warned \cup {f}
             /\ run' = [run EXCEPT ![w].pc = "chunks", ![w].lost = @ \cup {f}]
    BY DEF EntryFailed
  <2> QED
    BY <2>1, <2>2, <2>3, <2>4, <2>5, Zenon
<1>2. run \in [Worker -> GoodRun] /\ Sound(w, r) /\ r \in GoodRun
  BY DEF DeepInv, RunInv
<1>3. r.out \in Seq(GoodItem) /\ r.out # <<>>
  BY <1>1, <1>2 DEF GoodRun, GoodFields, Sound, Shape
<1>4. f \in File
  <2>1. r.out[1] \in GoodItem
    BY <1>3
  <2> QED
    BY <2>1 DEF GoodItem, Item
<1>5. Fault => faults' \in 0..MaxFaults
  BY DeepConstants DEF Fault, DeepConstants, DeepInv, DataInv
<1>6. CASE /\ entry' = entry \cup {f} /\ run' = [run EXCEPT ![w] = Named(r)]
           /\ UNCHANGED <<warned, faults>>
  <2>1. /\ run' \in [Worker -> GoodRun] /\ \A u \in Worker \ {w} : run'[u] = run[u]
        /\ v.pc = "chunks" /\ Alike(v, r)
    BY <1>2, <1>6, Updated, NamedRecord
  <2>2. v.out[1].file = f
    BY <2>1 DEF Alike
  <2> HIDE DEF r, v, f
  <2>3. Shape(v) /\ Counted(w, v) /\ Truthful(v)
    BY <1>1, <1>2, <2>1 DEF Alike, Sound, Shape, Counted, Truthful, Memory, Ended
  <2> QED
    BY <1>1, <1>4, <1>6, <2>1, <2>2, <2>3, PassStep DEF v, disk, DeepInv, DataInv
<1>7. CASE Fault /\ UNCHANGED <<entry, warned>> /\ run' = [run EXCEPT ![w] = Off]
  BY <1>1, <1>5, <1>7, OffStep DEF db, ghost
<1>8. CASE /\ Fault /\ UNCHANGED entry /\ warned' = warned \cup {f}
           /\ run' = [run EXCEPT ![w] = Unnamed(r, f)]
  <2>1. /\ run' \in [Worker -> GoodRun] /\ \A u \in Worker \ {w} : run'[u] = run[u]
        /\ v.pc = "chunks" /\ v.mode = r.mode /\ v.model = r.model /\ v.snap = r.snap
        /\ v.todo = r.todo /\ v.told = r.told
        /\ v.cur = r.cur /\ v.buf = r.buf /\ v.out = r.out
        /\ v.lost = r.lost \cup {f} /\ v.changed = r.changed /\ v.blank = r.blank
    BY <1>2, <1>4, <1>8, Updated, UnnamedRecord
  <2>2. v.out[1].file = f
    BY <2>1
  <2> HIDE DEF r, v, f
  <2>3. Shape(v) /\ Counted(w, v) /\ Truthful(v)
    BY <1>1, <1>2, <2>1 DEF Sound, Shape, Counted, Truthful, Memory, Ended
  <2> QED
    BY <1>1, <1>4, <1>5, <1>8, <2>1, <2>2, <2>3, PassStep DEF v, disk, DeepInv, DataInv
<1> QED
  BY <1>1, <1>6, <1>7, <1>8

-----------------------------------------------------------------------------
(* A file is through.                                                       *)

Excused(r, f) == [r EXCEPT !.lost = @ \cup {f}]
Gained(r, x) == [r EXCEPT !.gain = @ \/ (r.mode # "summaries" /\ x.text # <<>>)]

\* Truthful of all files but f, which has just left the memory of the pass.
TruthfulBut(r, f) ==
  r.pc # "idle" =>
    /\ \A g \in File \ r.changed : r.snap[g] = mtime[g]
    /\ Fresh(r.cur, r.changed) /\ Fresh(r.buf, r.changed) /\ Fresh(r.out, r.changed)
    /\ r.mode # "summaries" =>
         \A g \in File \ ({f} \cup r.todo \cup Memory(r) \cup r.lost \cup r.changed \cup slipped) :
           /\ Texts(chunk[g]) = content[g]
           /\ r.mode = "vectors" /\ g \notin r.blank => NoGaps(g)

LEMMA ExcusedRecord ==
  ASSUME NEW r \in GoodRun, NEW f \in File
  PROVE  LET q == Excused(r, f) IN
         /\ q \in GoodRun
         /\ q.pc = r.pc /\ q.mode = r.mode /\ q.model = r.model /\ q.snap = r.snap
         /\ q.todo = r.todo /\ q.told = r.told
         /\ q.cur = r.cur /\ q.buf = r.buf /\ q.out = r.out
         /\ q.lost = r.lost \cup {f} /\ q.changed = r.changed /\ q.blank = r.blank
BY DEF GoodRun, GoodFields, Excused

LEMMA GainedRecord ==
  ASSUME NEW r \in GoodRun, NEW x
  PROVE  Gained(r, x) \in GoodRun /\ Gained(r, x).pc = r.pc /\ Alike(Gained(r, x), r)
<1>1. (r.gain \/ (r.mode # "summaries" /\ x.text # <<>>)) \in BOOLEAN
  OBVIOUS
<1> QED
  BY <1>1 DEF GoodRun, GoodFields, Gained, Alike

Tallied(r, f) == [r EXCEPT !.told = @ \cup {f}]

LEMMA TalliedRecord ==
  ASSUME NEW r \in GoodRun, NEW f \in File
  PROVE  LET q == Tallied(r, f) IN
         /\ q \in GoodRun
         /\ q.pc = r.pc /\ q.mode = r.mode /\ q.model = r.model /\ q.snap = r.snap
         /\ q.todo = r.todo /\ q.told = r.told \cup {f}
         /\ q.cur = r.cur /\ q.buf = r.buf /\ q.out = r.out
         /\ q.lost = r.lost /\ q.changed = r.changed /\ q.blank = r.blank
BY DEF GoodRun, GoodFields, Tallied

LEMMA ThroughRecord ==
  ASSUME NEW w \in Worker, NEW r \in GoodRun, NEW f \in File, Tail(r.out) \in Seq(GoodItem)
  PROVE  LET q == Through(w, r, f) IN
         /\ q \in GoodRun
         /\ q.pc = IF Len(r.out) = 1 THEN "loop" ELSE "entry"
         /\ q.mode = r.mode /\ q.model = r.model /\ q.snap = r.snap
         /\ q.todo = r.todo /\ (w \notin Terminal => q.told = r.told \cup {f})
         /\ q.cur = r.cur /\ q.buf = r.buf /\ q.out = Tail(r.out)
         /\ q.lost = r.lost /\ q.changed = r.changed /\ q.blank = r.blank
<1> DEFINE p == IF Len(r.out) = 1 THEN "loop" ELSE "entry"
           q == [r EXCEPT !.out = Tail(r.out), !.pc = p]
<1>1. p \in Pc /\ (w \in Terminal => Through(w, r, f) = q)
      /\ (w \notin Terminal => Through(w, r, f) = Tallied(q, f))
  BY DEF Pc, Through, Told, Tallied
<1> HIDE DEF p
<1>2. q \in GoodRun /\ q.pc = p /\ q.out = Tail(r.out)
      /\ q.mode = r.mode /\ q.model = r.model /\ q.snap = r.snap
      /\ q.todo = r.todo /\ q.told = r.told /\ q.cur = r.cur /\ q.buf = r.buf
      /\ q.lost = r.lost /\ q.changed = r.changed /\ q.blank = r.blank
  BY <1>1 DEF GoodRun, GoodFields
<1> HIDE DEF q
<1> QED
  BY <1>1, <1>2, TalliedRecord DEF p

LEMMA ThroughKeeps ==
  ASSUME NEW w \in Worker, NEW r \in GoodRun, Shape(r), Counted(w, r), Truthful(r),
         r.pc = "chunks",
         NEW f, f = r.out[1].file,
         NEW q, q = Through(w, r, f)
  PROVE  /\ f \in File /\ q \in GoodRun /\ Shape(q) /\ Counted(w, q) /\ TruthfulBut(q, f)
         /\ q.pc \in {"loop", "entry"} /\ q.mode = r.mode
         /\ q.lost = r.lost /\ q.changed = r.changed /\ q.blank = r.blank
<1>1. r.out \in Seq(GoodItem) /\ r.out # <<>> /\ Apart(r.out) /\ r.cur = <<>>
  BY DEF GoodRun, GoodFields, Shape
<1>2. /\ Tail(r.out) \in Seq(GoodItem) /\ r.out[1] \in GoodItem
      /\ Files(Tail(r.out)) = Files(r.out) \ {f} /\ f \in Files(r.out) /\ Apart(Tail(r.out))
      /\ Fresh(r.out, r.changed) => Fresh(Tail(r.out), r.changed)
      /\ Len(r.out) = 1 <=> Tail(r.out) = <<>>
  BY <1>1, FilesOfTail
<1>3. f \in File
  BY <1>2 DEF GoodItem, Item
<1>4. /\ q \in GoodRun
      /\ q.pc = IF Len(r.out) = 1 THEN "loop" ELSE "entry"
      /\ q.mode = r.mode /\ q.model = r.model /\ q.snap = r.snap
      /\ q.todo = r.todo /\ (w \notin Terminal => q.told = r.told \cup {f})
      /\ q.cur = r.cur /\ q.buf = r.buf /\ q.out = Tail(r.out)
      /\ q.lost = r.lost /\ q.changed = r.changed /\ q.blank = r.blank
  BY <1>2, <1>3, ThroughRecord
<1>5. Memory(q) = Memory(r) \ {f} /\ f \in Memory(r) /\ f \notin r.todo
  BY <1>1, <1>2, <1>4, FilesOfNone DEF Memory, Shape
<1>6. Shape(q)
  BY <1>1, <1>2, <1>4, <1>5 DEF Shape, Ended
<1>7. Counted(w, q)
  <2> SUFFICES ASSUME w \notin Terminal
               PROVE  q.told = File \ (q.todo \cup Memory(q))
    BY <1>4 DEF Counted
  <2>1. r.told = File \ (r.todo \cup Memory(r))
    BY DEF Counted
  <2>2. q.told = r.told \cup {f} /\ q.todo = r.todo
    BY <1>4
  <2> QED
    BY <1>3, <1>5, <2>1, <2>2
<1>8. TruthfulBut(q, f)
  <2>1. q.pc # "idle" /\ r.pc # "idle"
    BY <1>4
  <2>2. /\ \A g \in File \ q.changed : q.snap[g] = mtime[g]
        /\ Fresh(q.cur, q.changed) /\ Fresh(q.buf, q.changed) /\ Fresh(q.out, q.changed)
    BY <1>2, <1>4, <2>1 DEF Truthful
  <2>3. \A g : g \notin {f} \cup Memory(q) => g \notin Memory(r)
    BY <1>5
  <2>4. q.mode # "summaries" =>
          \A g \in File \ ({f} \cup q.todo \cup Memory(q) \cup q.lost \cup q.changed \cup slipped) :
            /\ Texts(chunk[g]) = content[g]
            /\ q.mode = "vectors" /\ g \notin q.blank => NoGaps(g)
    BY <1>4, <2>1, <2>3 DEF Truthful
  <2> QED
    BY <2>2, <2>4, Zenon DEF TruthfulBut
<1> QED
  BY <1>3, <1>4, <1>6, <1>7, <1>8

-----------------------------------------------------------------------------
(* Steps that change what all passes look at.                               *)

\* All passes under way take note of a file rewritten or edited.
Noted(r, f, gap, old) ==
  [r EXCEPT !.blank = IF gap THEN @ \cup {f} ELSE @, !.changed = IF old THEN @ \cup {f} ELSE @]

LEMMA NotedRecord ==
  ASSUME NEW r \in GoodRun, NEW f \in File, NEW gap \in BOOLEAN, NEW old \in BOOLEAN
  PROVE  LET q == Noted(r, f, gap, old) IN
         /\ q \in GoodRun
         /\ q.pc = r.pc /\ q.mode = r.mode /\ q.model = r.model /\ q.snap = r.snap
         /\ q.todo = r.todo /\ q.told = r.told
         /\ q.cur = r.cur /\ q.buf = r.buf /\ q.out = r.out /\ q.lost = r.lost
         /\ q.blank = r.blank \cup (IF gap THEN {f} ELSE {})
         /\ q.changed = r.changed \cup (IF old THEN {f} ELSE {})
BY DEF GoodRun, GoodFields, Noted

\* Nothing but file f is different, and f is either fresh or noted as changed.
OnlyOf(f) ==
  /\ content' \in [File -> Seq(Text)]
  /\ \A g \in File \ {f} : /\ content'[g] = content[g] /\ mtime'[g] = mtime[g]
                           /\ chunk'[g] = chunk[g] /\ (g \in slipped' <=> g \in slipped)

AsOnDisk(f, gap) ==
  /\ content'[f] = content[f] /\ mtime'[f] = mtime[f]
  /\ Texts(chunk'[f]) = content[f]
  /\ ~gap => \A i \in DOMAIN chunk'[f] : chunk'[f][i].vec # None

LEMMA FreshAfter ==
  ASSUME NEW f \in File, OnlyOf(f), NEW s, Files(s) \subseteq File, NEW D, NEW old \in BOOLEAN,
         ~old => content'[f] = content[f], Fresh(s, D)
  PROVE  Fresh(s, D \cup (IF old THEN {f} ELSE {}))'
<1> DEFINE E == D \cup (IF old THEN {f} ELSE {})
<1> SUFFICES ASSUME NEW k \in DOMAIN s, s[k].file \notin E
             PROVE  s[k].text = content'[s[k].file]
  BY DEF Fresh
<1>1. s[k].file \in File /\ s[k].text = content[s[k].file]
  BY DEF Fresh, Files
<1>2. s[k].file = f => ~old
  OBVIOUS
<1> QED
  BY <1>1, <1>2 DEF OnlyOf

LEMMA FilesInFile ==
  ASSUME NEW S \in {GoodRead, GoodItem}, NEW s \in Seq(S)
  PROVE  Files(s) \subseteq File
<1> SUFFICES ASSUME NEW k \in DOMAIN s PROVE s[k].file \in File
  BY DEF Files
<1>1. s[k] \in S
  OBVIOUS
<1> QED
  BY <1>1 DEF GoodRead, GoodItem, Item

LEMMA NotedIsTruthful ==
  ASSUME NEW f \in File, NEW w \in Worker, NEW r \in GoodRun, Shape(r), Counted(w, r),
         TruthfulBut(r, f), NEW gap \in BOOLEAN, NEW old \in BOOLEAN,
         OnlyOf(f), ~old => AsOnDisk(f, gap),
         NEW q, q = Noted(r, f, gap, old)
  PROVE  q \in GoodRun /\ q.pc = r.pc /\ Shape(q) /\ Counted(w, q) /\ Truthful(q)'
<1>1. /\ q \in GoodRun
      /\ q.pc = r.pc /\ q.mode = r.mode /\ q.model = r.model /\ q.snap = r.snap
      /\ q.todo = r.todo /\ q.told = r.told
      /\ q.cur = r.cur /\ q.buf = r.buf /\ q.out = r.out /\ q.lost = r.lost
      /\ q.blank = r.blank \cup (IF gap THEN {f} ELSE {})
      /\ q.changed = r.changed \cup (IF old THEN {f} ELSE {})
  BY NotedRecord
<1>2. Memory(q) = Memory(r)
  BY <1>1 DEF Memory
<1>3. Shape(q) /\ Counted(w, q)
  BY <1>1, <1>2 DEF Shape, Counted
<1>4. ~old => content'[f] = content[f] /\ mtime'[f] = mtime[f]
  BY DEF AsOnDisk
<1>5. ASSUME r.pc # "idle"
      PROVE  /\ \A g \in File \ q.changed : q.snap[g] = mtime'[g]
             /\ Fresh(q.cur, q.changed)' /\ Fresh(q.buf, q.changed)' /\ Fresh(q.out, q.changed)'
  <2>1. \A g \in File \ r.changed : r.snap[g] = mtime[g]
    BY <1>5 DEF TruthfulBut
  <2>2. \A g \in File \ q.changed : q.snap[g] = mtime'[g]
    BY <1>1, <1>4, <2>1 DEF OnlyOf
  <2>3. Fresh(r.cur, r.changed) /\ Fresh(r.buf, r.changed) /\ Fresh(r.out, r.changed)
    BY <1>5 DEF TruthfulBut
  <2>4. Files(r.cur) \subseteq File /\ Files(r.buf) \subseteq File /\ Files(r.out) \subseteq File
    BY FilesInFile DEF GoodRun, GoodFields
  <2> QED
    BY <1>1, <1>4, <2>2, <2>3, <2>4, FreshAfter
<1>6. ASSUME r.pc # "idle", q.mode # "summaries",
             NEW g \in File \ (q.todo \cup Memory(q) \cup q.lost \cup q.changed \cup slipped')
      PROVE  /\ Texts(chunk'[g]) = content'[g]
             /\ q.mode = "vectors" /\ g \notin q.blank => NoGaps(g)'
  <2>1. CASE g = f
    <3>1. ~old /\ AsOnDisk(f, gap)
      BY <1>1, <2>1
    <3> QED
      BY <1>1, <2>1, <3>1 DEF AsOnDisk, NoGaps
  <2>2. CASE g # f
    <3>1. g \notin ({f} \cup r.todo \cup Memory(r) \cup r.lost \cup r.changed \cup slipped)
      BY <1>1, <1>2, <1>6, <2>2 DEF OnlyOf
    <3>2. /\ Texts(chunk[g]) = content[g]
          /\ r.mode = "vectors" /\ g \notin r.blank => NoGaps(g)
      BY <1>1, <1>6, <3>1 DEF TruthfulBut
    <3>3. chunk'[g] = chunk[g] /\ content'[g] = content[g]
      BY <2>2 DEF OnlyOf
    <3> QED
      BY <1>1, <3>2, <3>3 DEF NoGaps
  <2> QED
    BY <2>1, <2>2
<1>7. Truthful(q)'
  BY <1>1, <1>5, <1>6 DEF Truthful, Memory, Files
<1> QED
  BY <1>1, <1>3, <1>7


\* Every pass under way notes the change; R are the passes as the step leaves
\* them otherwise.
LEMMA AllNote ==
  ASSUME NEW f \in File, NEW gap \in BOOLEAN, NEW old \in BOOLEAN, OnlyOf(f),
         ~old => AsOnDisk(f, gap), UNCHANGED <<entry, warned>>, NEW R \in [Worker -> GoodRun],
         \A w \in Worker : /\ Shape(R[w]) /\ Counted(w, R[w]) /\ Announced(R[w])
                           /\ TruthfulBut(R[w], f),
         run' = [w \in Worker |-> IF R[w] = Off THEN Off ELSE Noted(R[w], f, gap, old)]
  PROVE  RunInv'
<1>1. ASSUME NEW w \in Worker PROVE run'[w] \in GoodRun /\ Sound(w, run[w])'
  <2>1. CASE R[w] = Off
    <3>1. PICK o : o = Off
      OBVIOUS
    <3>2. /\ run'[w] = o /\ o \in GoodRun /\ o.pc = "idle" /\ Shape(o) /\ Counted(w, o)
      BY <2>1, <3>1, OffIsGood DEF Sound
    <3>3. Announced(o)' /\ Truthful(o)'
      BY <3>2 DEF Announced, Truthful
    <3>4. Sound(w, o)'
      BY <3>2, <3>3 DEF Sound
    <3> QED
      BY <3>2, <3>4, SoundOf
  <2>2. CASE R[w] # Off
    <3>1. PICK q : q = Noted(R[w], f, gap, old)
      OBVIOUS
    <3>2. run'[w] = q /\ q.out = R[w].out
      BY <2>2, <3>1, NotedRecord
    <3>3. q \in GoodRun /\ q.pc = R[w].pc /\ Shape(q) /\ Counted(w, q) /\ Truthful(q)'
      BY <3>1, NotedIsTruthful
    <3>4. Announced(q)'
      BY <3>2, <3>3 DEF Announced
    <3>5. Sound(w, q)'
      BY <3>3, <3>4 DEF Sound
    <3> QED
      BY <3>2, <3>3, <3>5, SoundOf
  <2> QED
    BY <2>1, <2>2
<1>2. run' \in [Worker -> GoodRun]
  BY <1>1
<1> QED
  BY <1>1, <1>2 DEF RunInv

LEMMA ButIsWeaker ==
  ASSUME NEW r, NEW f, Truthful(r)
  PROVE  TruthfulBut(r, f)
BY DEF Truthful, TruthfulBut

LEMMA EditStep ==
  ASSUME DeepInv, NEW f \in File, NEW c \in Version[f], Edit(f, c)
  PROVE  DeepInv'
<1>1. /\ edits' = edits + 1 /\ edits < MaxEdits
      /\ content' = [content EXCEPT ![f] = c] /\ mtime' = [mtime EXCEPT ![f] = now]
      /\ slipped' = IF chunk[f] # <<>> /\ indexed[f] >= now /\ c # Texts(chunk[f])
                    THEN slipped \cup {f} ELSE slipped \ {f}
      /\ run' = [w \in Worker |-> IF run[w] = Off THEN Off
                                  ELSE [run[w] EXCEPT !.changed = @ \cup {f}]]
      /\ UNCHANGED <<now, model, db, warned, runs, faults>>
  BY DEF Edit
<1>2. /\ now \in 0..MaxClock /\ content \in [File -> Seq(Text)]
      /\ \A g \in File : content[g] \in Version[g]
      /\ mtime \in [File -> 0..MaxClock] /\ indexed \in [File -> 0..MaxClock]
      /\ edits \in 0..MaxEdits /\ Behind /\ slipped \subseteq File
  BY DEF DeepInv, DataInv
<1>3. c \in Seq(Text)
  BY DeepConstants DEF DeepConstants
<1>4. OnlyOf(f) /\ content' \in [File -> Seq(Text)]
  BY <1>1, <1>2, <1>3 DEF OnlyOf, db
<1>5. \A g \in File : content'[g] \in Version[g]
  BY <1>1, <1>2
<1>6. Behind'
  <2> SUFFICES ASSUME NEW g \in File \ slipped', chunk[g] # <<>>, Texts(chunk[g]) # content'[g]
               PROVE  indexed[g] < mtime'[g]
    BY <1>1 DEF Behind, db, Texts
  <2>1. CASE g = f
    BY <1>1, <1>2, <2>1
  <2>2. CASE g # f
    BY <1>1, <1>2, <2>2 DEF Behind
  <2> QED
    BY <2>1, <2>2
<1>7. DataInv'
  <2>1. mtime' \in [File -> 0..MaxClock] /\ edits' \in 0..MaxEdits /\ slipped' \subseteq File
    <3>1. mtime' \in [File -> 0..MaxClock]
      BY <1>1, <1>2
    <3>2. edits' \in 0..MaxEdits
      BY <1>1, <1>2, DeepConstants DEF DeepConstants
    <3>3. slipped' \subseteq File
      BY <1>1, <1>2
    <3> QED
      BY <3>1, <3>2, <3>3
  <2>2. WholeFile' /\ OrphansAreAnnounced'
    BY <1>1 DEF DeepInv, DataInv, WholeFile, OrphansAreAnnounced, db, Texts
  <2> QED
    BY <1>1, <1>4, <1>5, <1>6, <2>1, <2>2 DEF DeepInv, DataInv, db
<1>8. run \in [Worker -> GoodRun] /\ \A w \in Worker : Sound(w, run[w])
  BY DEF DeepInv, RunInv
<1>9. run' = [w \in Worker |-> IF run[w] = Off THEN Off ELSE Noted(run[w], f, FALSE, TRUE)]
  <2>1. \A r \in GoodRun : [r EXCEPT !.changed = @ \cup {f}] = Noted(r, f, FALSE, TRUE)
    <3> TAKE r \in GoodRun
    <3>1. r = [r EXCEPT !.blank = r.blank]
      BY DEF GoodRun, GoodFields
    <3>2. Noted(r, f, FALSE, TRUE) = [r EXCEPT !.blank = r.blank, !.changed = @ \cup {f}]
      BY DEF Noted
    <3>3. [r EXCEPT !.blank = r.blank, !.changed = @ \cup {f}]
            = [[r EXCEPT !.blank = r.blank] EXCEPT !.changed = r.changed \cup {f}]
      BY DEF GoodRun, GoodFields
    <3> QED
      BY <3>1, <3>2, <3>3, Zenon
  <2> QED
    BY <1>1, <1>8, <2>1
<1>10. \A w \in Worker : /\ Shape(run[w]) /\ Counted(w, run[w]) /\ Announced(run[w])
                         /\ TruthfulBut(run[w], f)
  BY <1>8, ButIsWeaker DEF Sound
<1>11. RunInv'
  <2>1. UNCHANGED <<entry, warned>> /\ FALSE \in BOOLEAN /\ TRUE \in BOOLEAN
    BY <1>1 DEF db
  <2> QED
    BY <1>4, <1>8, <1>9, <1>10, <2>1, AllNote
<1> QED
  BY <1>7, <1>11 DEF DeepInv

LEMMA ExcusedKeeps ==
  ASSUME NEW w \in Worker, NEW r \in GoodRun, NEW f \in File,
         Shape(r), Counted(w, r), Truthful(r), NEW q, q = Excused(r, f)
  PROVE  /\ q \in GoodRun /\ Shape(q) /\ Counted(w, q) /\ Truthful(q)
         /\ q.pc = r.pc /\ q.out = r.out /\ f \in q.lost
<1>1. /\ q \in GoodRun
      /\ q.pc = r.pc /\ q.mode = r.mode /\ q.model = r.model /\ q.snap = r.snap
      /\ q.todo = r.todo /\ q.told = r.told
      /\ q.cur = r.cur /\ q.buf = r.buf /\ q.out = r.out
      /\ q.lost = r.lost \cup {f} /\ q.changed = r.changed /\ q.blank = r.blank
  BY ExcusedRecord
<1>2. Memory(q) = Memory(r)
  BY <1>1 DEF Memory
<1> QED
  BY <1>1, <1>2 DEF Shape, Counted, Truthful

LEMMA GainedKeeps ==
  ASSUME NEW w \in Worker, NEW r \in GoodRun, NEW x,
         Shape(r), Counted(w, r), Truthful(r), NEW q, q = Gained(r, x)
  PROVE  /\ q \in GoodRun /\ Shape(q) /\ Counted(w, q) /\ Truthful(q)
         /\ q.pc = r.pc /\ q.out = r.out /\ q.mode = r.mode
<1>1. q \in GoodRun /\ q.pc = r.pc /\ Alike(q, r)
  BY GainedRecord
<1>2. Memory(q) = Memory(r)
  BY <1>1 DEF Memory, Alike
<1> QED
  BY <1>1, <1>2 DEF Alike, Shape, Counted, Truthful

\* The cases of WriteChunks: chunks are no matter of the pass, written, or not written.
NoneWanted(w, f) ==
  /\ run[w].mode = "summaries" /\ run' = [run EXCEPT ![w] = Through(w, run[w], f)]
  /\ UNCHANGED <<chunk, indexed, slipped, faults>>

Written(w, f, x) ==
  /\ chunk' = [chunk EXCEPT ![f] = Replaced(@, x)]
  /\ indexed' = [indexed EXCEPT ![f] = now]
  /\ slipped' = IF x.text # content[f] /\ x.text # <<>> THEN slipped \cup {f} ELSE slipped \ {f}
  /\ LET gap == Misses(x) # {}
         old == x.text # content[f]
         R   == [run EXCEPT ![w] = Through(w, Gained(run[w], x), f)]
     IN  run' = [v \in Worker |-> IF R[v] = Off THEN Off ELSE Noted(R[v], f, gap, old)]
  /\ UNCHANGED faults

NotWritten(w, f) ==
  /\ Fault /\ UNCHANGED <<chunk, indexed, slipped>>
  /\ run' = [run EXCEPT ![w] = IF w \in Terminal THEN Off
                               ELSE Through(w, Excused(run[w], f), f)]

LEMMA WriteChunksCases ==
  ASSUME NEW w \in Worker, run \in [Worker -> GoodRun], WriteChunks(w)
  PROVE  LET x == run[w].out[1]  f == x.file IN
         /\ run[w].pc = "chunks"
         /\ UNCHANGED <<now, disk, model, entry, warned, edits, runs>>
         /\ NoneWanted(w, f) \/ Written(w, f, x) \/ NotWritten(w, f)
<1> DEFINE r == run[w]  x == r.out[1]  f == x.file  gap == Misses(x) # {}  old == x.text # content[f]
           R == [run EXCEPT ![w] = Through(w, Gained(r, x), f)]
<1>1. r.pc = "chunks" /\ UNCHANGED <<now, disk, model, entry, warned, edits, runs>>
  BY Zenon DEF WriteChunks
<1>2. ASSUME run' = [v \in Worker |->
                 LET o == IF v = w THEN Through(w, Gained(r, x), f) ELSE run[v]
                 IN  IF o = Off THEN Off ELSE Noted(o, f, gap, old)]
      PROVE  run' = [v \in Worker |-> IF R[v] = Off THEN Off ELSE Noted(R[v], f, gap, old)]
  <2>1. \A v \in Worker : R[v] = IF v = w THEN Through(w, Gained(r, x), f) ELSE run[v]
    OBVIOUS
  <2> HIDE DEF r, x, f, gap, old, R
  <2> QED
    BY <1>2, <2>1
<1>3. \/ /\ r.mode = "summaries" /\ run' = [run EXCEPT ![w] = Through(w, r, f)]
         /\ UNCHANGED <<chunk, indexed, slipped>> /\ NoFault
      \/ /\ chunk' = [chunk EXCEPT ![f] = Replaced(@, x)]
         /\ indexed' = [indexed EXCEPT ![f] = now]
         /\ slipped' = IF old /\ x.text # <<>> THEN slipped \cup {f} ELSE slipped \ {f}
         /\ run' = [v \in Worker |->
                 LET o == IF v = w THEN Through(w, Gained(r, x), f) ELSE run[v]
                 IN  IF o = Off THEN Off ELSE Noted(o, f, gap, old)]
         /\ NoFault
      \/ /\ Fault /\ UNCHANGED <<chunk, indexed, slipped>>
         /\ run' = [run EXCEPT ![w] = IF w \in Terminal THEN Off
                                      ELSE Through(w, Excused(r, f), f)]
  BY Zenon DEF WriteChunks, Gained, Noted, Excused
<1> QED
  BY <1>1, <1>2, <1>3, Zenon DEF NoneWanted, Written, NotWritten, NoFault

LEMMA NoneWantedStep ==
  ASSUME DeepInv, NEW w \in Worker, NEW f, f = run[w].out[1].file, run[w].pc = "chunks",
         UNCHANGED <<now, disk, model, entry, warned, edits, runs>>, NoneWanted(w, f)
  PROVE  DeepInv'
<1>1. run \in [Worker -> GoodRun] /\ Sound(w, run[w])
  BY DEF DeepInv, RunInv
<1>2. PICK q : q = Through(w, run[w], f)
  OBVIOUS
<1>3. /\ q \in GoodRun /\ Shape(q) /\ Counted(w, q) /\ TruthfulBut(q, f)
      /\ q.pc \in {"loop", "entry"} /\ q.mode = run[w].mode
  BY <1>1, <1>2, ThroughKeeps DEF Sound
<1>4. run' \in [Worker -> GoodRun] /\ run'[w] = q /\ \A u \in Worker \ {w} : run'[u] = run[u]
  BY <1>1, <1>2, <1>3, Updated DEF NoneWanted
<1>5. Truthful(q)
  BY <1>3 DEF NoneWanted, Truthful, TruthfulBut
<1> QED
  BY <1>3, <1>4, <1>5, PassStep DEF NoneWanted, disk, DeepInv, DataInv

LEMMA NotWrittenStep ==
  ASSUME DeepInv, NEW w \in Worker, NEW f, f = run[w].out[1].file, run[w].pc = "chunks",
         UNCHANGED <<now, disk, model, entry, warned, edits, runs>>, NotWritten(w, f)
  PROVE  DeepInv'
<1>1. run \in [Worker -> GoodRun] /\ Sound(w, run[w])
  BY DEF DeepInv, RunInv
<1>2. faults' \in 0..MaxFaults
  BY DeepConstants DEF NotWritten, Fault, DeepConstants, DeepInv, DataInv
<1>3. CASE w \in Terminal
  BY <1>2, <1>3, OffStep DEF NotWritten, db, ghost
<1>4. CASE w \notin Terminal
  <2>1. PICK q : q = Excused(run[w], f)
    OBVIOUS
  <2>2. f \in File
    BY <1>1, ThroughKeeps DEF Sound
  <2>3. /\ q \in GoodRun /\ Shape(q) /\ Counted(w, q) /\ Truthful(q)
        /\ q.pc = "chunks" /\ q.out = run[w].out /\ f \in q.lost
    BY <1>1, <2>1, <2>2, ExcusedKeeps DEF Sound
  <2>4. PICK p : p = Through(w, q, f)
    OBVIOUS
  <2>5. /\ p \in GoodRun /\ Shape(p) /\ Counted(w, p) /\ TruthfulBut(p, f)
        /\ p.pc \in {"loop", "entry"} /\ p.lost = q.lost
    <3>1. f = q.out[1].file
      BY <2>3
    <3> QED
      BY <2>3, <2>4, <3>1, ThroughKeeps
  <2>6. run' \in [Worker -> GoodRun] /\ run'[w] = p /\ \A u \in Worker \ {w} : run'[u] = run[u]
    BY <1>1, <1>4, <2>1, <2>4, <2>5, Updated, Zenon DEF NotWritten
  <2>7. Truthful(p)
    BY <2>3, <2>5 DEF Truthful, TruthfulBut
  <2> QED
    BY <1>2, <2>5, <2>6, <2>7, PassStep, Zenon DEF NotWritten, disk, DeepInv, DataInv
<1> QED
  BY <1>3, <1>4

LEMMA WrittenStep ==
  ASSUME DeepInv, NEW w \in Worker, NEW x, x = run[w].out[1], run[w].pc = "chunks",
         NEW f, f = x.file,
         UNCHANGED <<now, disk, model, entry, warned, edits, runs>>, Written(w, f, x)
  PROVE  DeepInv'
<1>1. run \in [Worker -> GoodRun] /\ Sound(w, run[w])
  BY DEF DeepInv, RunInv
<1>2. PICK g : g = Gained(run[w], x)
  OBVIOUS
<1>3. PICK q : q = Through(w, g, f)
  OBVIOUS
<1>4. /\ g \in GoodRun /\ Shape(g) /\ Counted(w, g) /\ Truthful(g)
      /\ g.pc = "chunks" /\ g.out = run[w].out
  BY <1>1, <1>2, GainedKeeps DEF Sound
<1>5. /\ f \in File /\ q \in GoodRun /\ Shape(q) /\ Counted(w, q) /\ TruthfulBut(q, f)
      /\ q.pc \in {"loop", "entry"}
  BY <1>3, <1>4, ThroughKeeps
<1>6. x \in GoodItem
  <2>1. run[w].out \in Seq(GoodItem) /\ run[w].out # <<>>
    BY <1>1 DEF GoodRun, GoodFields, Sound, Shape
  <2> QED
    BY <2>1
<1>7. PICK R : R = [run EXCEPT ![w] = Through(w, Gained(run[w], x), f)]
  OBVIOUS
<1>8. R \in [Worker -> GoodRun] /\ R[w] = q /\ \A u \in Worker \ {w} : R[u] = run[u]
  BY <1>1, <1>2, <1>3, <1>5, <1>7
<1>9. PICK gap \in BOOLEAN : gap <=> Misses(x) # {}
  OBVIOUS
<1>10. PICK old \in BOOLEAN : old <=> x.text # content[f]
  OBVIOUS
<1>11. PICK rows : rows = Replaced(chunk[f], x)
  OBVIOUS
<1>12. /\ rows \in Seq(GoodRow) /\ Texts(rows) = x.text
       /\ rows = <<>> <=> x.text = <<>>
       /\ ~gap => \A i \in DOMAIN rows : rows[i].vec # None
  <2>1. LET s == Replaced(chunk[f], x) IN
        /\ s \in Seq(GoodRow) /\ Texts(s) = x.text
        /\ s = <<>> <=> x.text = <<>>
        /\ Misses(x) = {} => \A i \in DOMAIN s : s[i].vec # None
    BY <1>6, ReplacedIsGood
  <2> QED
    BY <1>9, <1>11, <2>1, Zenon
<1>13. /\ chunk \in [File -> Seq(GoodRow)] /\ indexed \in [File -> 0..MaxClock] /\ now \in 0..MaxClock
       /\ content \in [File -> Seq(Text)]
       /\ slipped \subseteq File /\ Behind /\ WholeFile /\ OrphansAreAnnounced
  BY DEF DeepInv, DataInv
<1>14. /\ chunk' = [chunk EXCEPT ![f] = rows] /\ indexed' = [indexed EXCEPT ![f] = now]
       /\ slipped' = IF old /\ x.text # <<>> THEN slipped \cup {f} ELSE slipped \ {f}
       /\ UNCHANGED <<now, content, mtime, model, entry, warned, edits, runs, faults>>
  BY <1>10, <1>11 DEF Written, disk
<1>15. run' = [v \in Worker |-> IF R[v] = Off THEN Off ELSE Noted(R[v], f, gap, old)]
  <2>1. \A r \in GoodRun : Noted(r, f, Misses(x) # {}, x.text # content[f]) = Noted(r, f, gap, old)
    BY <1>9, <1>10 DEF Noted
  <2> DEFINE After(o) == IF o = Off THEN Off ELSE Noted(o, f, Misses(x) # {}, x.text # content[f])
             S == [run EXCEPT ![w] = Through(w, Gained(run[w], x), f)]
  <2>2. run' = [v \in Worker |-> After(S[v])]
    BY Zenon DEF Written
  <2>3. \A v \in Worker : run'[v] = IF R[v] = Off THEN Off
                                    ELSE Noted(R[v], f, Misses(x) # {}, x.text # content[f])
    <3>1. \A v \in Worker : S[v] = R[v]
      BY <1>7, Zenon
    <3> HIDE DEF S, After
    <3>2. \A v \in Worker : run'[v] = After(R[v])
      BY <2>2, <3>1, Zenon
    <3> QED
      BY <3>2, Zenon DEF After
  <2>4. \A v \in Worker : run'[v] = IF R[v] = Off THEN Off ELSE Noted(R[v], f, gap, old)
    <3> TAKE v \in Worker
    <3>1. R[v] \in GoodRun
      BY <1>8
    <3>2. Noted(R[v], f, Misses(x) # {}, x.text # content[f]) = Noted(R[v], f, gap, old)
      BY <2>1, <3>1, Zenon
    <3> QED
      BY <2>3, <3>2, Zenon
  <2>5. run' = [v \in Worker |-> run'[v]]
    <3> HIDE DEF After, S
    <3> QED
      BY <2>2
  <2> QED
    BY <2>4, <2>5, Zenon
<1>16. OnlyOf(f) /\ (~old => AsOnDisk(f, gap))
  BY <1>5, <1>10, <1>12, <1>13, <1>14, Zenon DEF OnlyOf, AsOnDisk
<1>17. \A v \in Worker : /\ Shape(R[v]) /\ Counted(v, R[v]) /\ Announced(R[v])
                         /\ TruthfulBut(R[v], f)
  <2>1. Announced(q)
    BY <1>5 DEF Announced
  <2>2. \A u \in Worker \ {w} : Sound(u, R[u])
    BY <1>8 DEF DeepInv, RunInv
  <2> QED
    <3>1. ASSUME NEW v \in Worker \ {w}
          PROVE  Shape(R[v]) /\ Counted(v, R[v]) /\ Announced(R[v]) /\ TruthfulBut(R[v], f)
      <4>1. Sound(v, R[v])
        BY <2>2
      <4> QED
        BY <4>1, ButIsWeaker DEF Sound
    <3>2. Shape(R[w]) /\ Counted(w, R[w]) /\ Announced(R[w]) /\ TruthfulBut(R[w], f)
      BY <1>5, <1>8, <2>1
    <3> TAKE v \in Worker
    <3>3. CASE v = w
      BY <3>2, <3>3
    <3>4. CASE v # w
      BY <3>1, <3>4
    <3> QED
      BY <3>3, <3>4
<1>18. RunInv'
  BY <1>5, <1>8, <1>14, <1>15, <1>16, <1>17, AllNote
<1>19. chunk' \in [File -> Seq(GoodRow)] /\ indexed' \in [File -> 0..MaxClock] /\ slipped' \subseteq File
  BY <1>5, <1>12, <1>13, <1>14
<1>20. WholeFile'
  <2>1. x.text \in Version[f]
    BY <1>6 DEF GoodItem
  <2>2. \A h \in File : chunk'[h] # <<>> => Texts(chunk'[h]) \in Version[h]
    BY <1>12, <1>13, <1>14, <2>1 DEF WholeFile
  <2> QED
    BY <2>2 DEF WholeFile, Texts
<1>21. OrphansAreAnnounced'
  <2>1. f \in entry \cup warned
    BY <1>1 DEF Sound, Announced
  <2> QED
    BY <1>13, <1>14, <2>1 DEF OrphansAreAnnounced
<1>22. Behind'
  <2> SUFFICES ASSUME NEW h \in File \ slipped', chunk'[h] # <<>>, Texts(chunk'[h]) # content[h]
               PROVE  indexed'[h] < mtime[h]
    BY <1>14 DEF Behind, Texts
  <2>1. CASE h = f
    BY <1>10, <1>12, <1>13, <1>14, <2>1
  <2>2. CASE h # f
    BY <1>13, <1>14, <2>2 DEF Behind
  <2> QED
    BY <2>1, <2>2
<1> QED
  BY <1>14, <1>18, <1>19, <1>20, <1>21, <1>22 DEF DeepInv, DataInv

LEMMA WriteChunksStep ==
  ASSUME DeepInv, NEW w \in Worker, WriteChunks(w)
  PROVE  DeepInv'
<1>1. PICK x : x = run[w].out[1]
  OBVIOUS
<1>2. PICK f : f = x.file
  OBVIOUS
<1>3. /\ run[w].pc = "chunks"
      /\ UNCHANGED <<now, disk, model, entry, warned, edits, runs>>
      /\ NoneWanted(w, f) \/ Written(w, f, x) \/ NotWritten(w, f)
  BY <1>1, <1>2, WriteChunksCases DEF DeepInv, RunInv
<1> QED
  BY <1>1, <1>2, <1>3, NoneWantedStep, WrittenStep, NotWrittenStep

-----------------------------------------------------------------------------
(* The invariant holds.                                                     *)

LEMMA InitDeepInv == Init => DeepInv
<1> SUFFICES ASSUME Init PROVE DeepInv
  OBVIOUS
<1>1. content \in [File -> Seq(Text)]
  <2>1. UNION {Version[f] : f \in File} \subseteq Seq(Text)
    BY DeepConstants DEF DeepConstants
  <2> QED
    BY <2>1 DEF Init
<1>2. WholeFile /\ OrphansAreAnnounced /\ Behind
  BY DEF Init, WholeFile, OrphansAreAnnounced, Behind
<1>3. DataInv
  <2>1. <<>> \in Seq(GoodRow)
    OBVIOUS
  <2> QED
    BY <1>1, <1>2, <2>1, DeepConstants DEF Init, DataInv, DeepConstants
<1>4. RunInv
  <2>1. run = [w \in Worker |-> Off]
    BY DEF Init
  <2> QED
    BY <2>1, OffIsGood DEF RunInv
<1> QED
  BY <1>3, <1>4 DEF DeepInv

\* Nothing a pass has said of a file rests on the clock or the configured model.
LEMMA QuietStep ==
  ASSUME DeepInv, UNCHANGED <<disk, db, run, ghost, runs, faults>>,
         now' \in 0..MaxClock, model' \in Model, edits' \in 0..MaxEdits
  PROVE  DeepInv'
<1>1. DataInv'
  BY DEF DeepInv, DataInv, WholeFile, OrphansAreAnnounced, Behind, Texts, disk, db, ghost
<1>2. ASSUME NEW w \in Worker PROVE Sound(w, run[w])'
  <2>1. Sound(w, run[w])
    BY DEF DeepInv, RunInv
  <2>2. /\ UNCHANGED <<content, mtime, chunk, slipped>> /\ run'[w] = run[w]
        /\ entry \subseteq entry' /\ warned \subseteq warned'
    BY DEF disk, db, ghost
  <2> QED
    BY <2>1, <2>2, SoundStays, SoundOf
<1> QED
  BY <1>1, <1>2 DEF DeepInv, RunInv

LEMMA StepKeepsDeepInv == DeepInv /\ [Next]_vars => DeepInv'
<1> SUFFICES ASSUME DeepInv, [Next]_vars PROVE DeepInv'
  OBVIOUS
<1>1. /\ now \in 0..MaxClock /\ model \in Model
      /\ edits \in 0..MaxEdits /\ faults \in 0..MaxFaults
  BY DEF DeepInv, DataInv
<1>2. CASE Tick
  <2>1. /\ UNCHANGED <<disk, db, run, ghost, runs, faults>> /\ model' = model /\ edits' = edits
        /\ now' = now + 1 /\ now < MaxClock
    BY <1>2 DEF Tick
  <2>2. now' \in 0..MaxClock
    BY <1>1, <2>1, DeepConstants DEF DeepConstants
  <2> QED
    BY <1>1, <2>1, <2>2, QuietStep
<1>3. CASE \E m \in Model : SwitchModel(m)
  <2>1. /\ UNCHANGED <<disk, db, run, ghost, runs, faults>> /\ now' = now /\ model' \in Model
        /\ edits' = edits + 1 /\ edits < MaxEdits
    BY <1>3 DEF SwitchModel
  <2>2. edits' \in 0..MaxEdits
    BY <1>1, <2>1, DeepConstants DEF DeepConstants
  <2> QED
    BY <1>1, <2>1, <2>2, QuietStep
<1>4. ASSUME NEW f \in File, NEW c \in Version[f], Edit(f, c) PROVE DeepInv'
  BY <1>4, EditStep
<1>5. ASSUME NEW w \in Worker, Crash(w) PROVE DeepInv'
  <2>1. /\ run' = [run EXCEPT ![w] = Off] /\ UNCHANGED <<now, disk, model, db, ghost, edits, runs>>
        /\ faults' = faults + 1 /\ faults < MaxFaults
    BY <1>5 DEF Crash, Fault
  <2>2. faults' \in 0..MaxFaults
    BY <1>1, <2>1, DeepConstants DEF DeepConstants
  <2> QED
    BY <2>1, <2>2, OffStep
<1>6. ASSUME NEW w \in Worker, NEW f \in File, Take(w, f) PROVE DeepInv'
  <2>1. CASE Current(f, run[w].snap[f]) /\ Skip(w, f)
    BY <1>6, <2>1, SkipStep
  <2>2. CASE Parse(w, f)
    BY <1>6, <2>2, ParseStep
  <2> QED
    BY <1>6, <2>1, <2>2 DEF Take
<1>7. ASSUME NEW w \in Worker, Pass(w) PROVE DeepInv'
  BY <1>6, <1>7, PartitionStep, EmbedStep, WriteEntryStep, WriteChunksStep, FinishStep DEF Pass
<1>8. CASE UNCHANGED vars
  <2>1. UNCHANGED <<disk, db, run, ghost, runs, faults>> /\ now' = now /\ model' = model
        /\ edits' = edits
    BY <1>8 DEF vars
  <2> QED
    BY <1>1, <2>1, QuietStep
<1> QED
  BY <1>2, <1>3, <1>4, <1>5, <1>7, <1>8, StartStep, CancelStep DEF Next

LEMMA Invariance == Spec => []DeepInv
BY InitDeepInv, StepKeepsDeepInv, PTL DEF Spec

-----------------------------------------------------------------------------
(* What it implies.                                                         *)

LEMMA WiderSeq ==
  ASSUME NEW S, NEW T, S \subseteq T
  PROVE  Seq(S) \subseteq Seq(T)
OBVIOUS

LEMMA RunsHaveTheirType ==
  ASSUME RunInv, NEW w \in Worker
  PROVE  /\ run[w] \in
              [pc : Pc, mode : Mode, model : Model \cup {None}, snap : [File -> 0..MaxClock],
               todo : SUBSET File, cur : Seq([file : File, text : Seq(Text)]),
               buf : Seq(Item), queue : Seq(Tagged), out : Seq(Item), cancel : BOOLEAN,
               told : SUBSET File, gain : BOOLEAN, lost : SUBSET File,
               changed : SUBSET File, blank : SUBSET File]
         /\ run[w].pc = "partition" => run[w].cur # <<>>
         /\ run[w].pc \in {"entry", "chunks"} => run[w].out # <<>>
         /\ \A k \in DOMAIN run[w].buf : DOMAIN run[w].buf[k].vec = DOMAIN run[w].buf[k].text
         /\ \A k \in DOMAIN run[w].out : DOMAIN run[w].out[k].vec = DOMAIN run[w].out[k].text
<1>1. PICK r \in GoodRun : r = run[w] /\ Shape(r)
  BY DEF RunInv, Sound
<1>2. GoodRead \subseteq [file : File, text : Seq(Text)] /\ GoodItem \subseteq Item
  BY DEF GoodRead, GoodItem
<1>3. r.cur \in Seq(GoodRead) /\ r.buf \in Seq(GoodItem) /\ r.out \in Seq(GoodItem)
  BY DEF GoodRun, GoodFields
<1>4. /\ r.cur \in Seq([file : File, text : Seq(Text)]) /\ r.buf \in Seq(Item)
      /\ r.out \in Seq(Item)
  <2>1. Seq(GoodRead) \subseteq Seq([file : File, text : Seq(Text)])
    BY <1>2, WiderSeq
  <2>2. Seq(GoodItem) \subseteq Seq(Item)
    BY <1>2, WiderSeq
  <2> QED
    BY <1>3, <2>1, <2>2, Zenon
<1>5. r \in [pc : Pc, mode : Mode, model : Model \cup {None}, snap : [File -> 0..MaxClock],
             todo : SUBSET File, cur : Seq([file : File, text : Seq(Text)]),
             buf : Seq(Item), queue : Seq(Tagged), out : Seq(Item), cancel : BOOLEAN,
             told : SUBSET File, gain : BOOLEAN, lost : SUBSET File,
             changed : SUBSET File, blank : SUBSET File]
  BY <1>4 DEF GoodRun, GoodFields
<1>6. /\ r.pc = "partition" => r.cur # <<>>
      /\ r.pc \in {"entry", "chunks"} => r.out # <<>>
  <2>1. Len(<<>>) # 1
    OBVIOUS
  <2>2. /\ r.pc = "partition" => Len(r.cur) = 1
        /\ r.pc \in {"entry", "chunks"} => r.out # <<>>
    BY <1>1 DEF Shape
  <2> QED
    BY <2>1, <2>2, Zenon
<1>7. \A s \in Seq(GoodItem) : \A k \in DOMAIN s : DOMAIN s[k].vec = DOMAIN s[k].text
  <2> TAKE s \in Seq(GoodItem)
  <2> TAKE k \in DOMAIN s
  <2>1. s[k] \in GoodItem
    OBVIOUS
  <2> QED
    BY <2>1 DEF GoodItem
<1> QED
  BY <1>1, <1>3, <1>5, <1>6, <1>7, Zenon

\* All the state of the deep pass has its type: the rows, their stamps, and what
\* each pass holds in memory, which agrees with the phase it is in.
THEOREM DeepTypes == Spec => []DeepTypeOK
<1>1. DeepInv => DeepTypeOK
  <2> SUFFICES ASSUME DeepInv PROVE DeepTypeOK
    OBVIOUS
  <2>1. DataInv /\ RunInv
    BY DEF DeepInv
  <2>2. chunk \in [File -> Seq(Row)]
    <3>1. GoodRow \subseteq Row
      BY DEF GoodRow
    <3>2. Seq(GoodRow) \subseteq Seq(Row)
      BY <3>1, WiderSeq
    <3> QED
      BY <2>1, <3>2 DEF DataInv
  <2> DEFINE T == [pc : Pc, mode : Mode, model : Model \cup {None}, snap : [File -> 0..MaxClock],
               todo : SUBSET File, cur : Seq([file : File, text : Seq(Text)]),
               buf : Seq(Item), queue : Seq(Tagged), out : Seq(Item), cancel : BOOLEAN,
               told : SUBSET File, gain : BOOLEAN, lost : SUBSET File,
               changed : SUBSET File, blank : SUBSET File]
  <2>3. \A w \in Worker : run[w] \in T
    BY <2>1, RunsHaveTheirType
  <2>4. run \in [Worker -> T]
    <3> HIDE DEF T
    <3> QED
      BY <2>1, <2>3 DEF RunInv
  <2>5. \A w \in Worker :
         /\ run[w].pc = "partition" => run[w].cur # <<>>
         /\ run[w].pc \in {"entry", "chunks"} => run[w].out # <<>>
         /\ \A k \in DOMAIN run[w].buf : DOMAIN run[w].buf[k].vec = DOMAIN run[w].buf[k].text
         /\ \A k \in DOMAIN run[w].out : DOMAIN run[w].out[k].vec = DOMAIN run[w].out[k].text
    BY <2>1, RunsHaveTheirType
  <2> QED
    BY <2>1, <2>2, <2>4, <2>5, Zenon DEF DeepTypeOK, DataInv, Pc
<1> QED
  BY <1>1, Invariance, PTL

\* The rows of a file are one whole version of it, whichever passes overlap, fail
\* or die: rows are replaced together, by a text that was read in one piece.
THEOREM WholeFiles == Spec => []WholeFile
<1>1. DeepInv => WholeFile
  BY DEF DeepInv, DataInv
<1> QED
  BY <1>1, Invariance, PTL

\* A stored vector was made of the text it is stored beside, whatever batch it
\* came back in, or whatever row it was taken over from.
THEOREM VectorsOfTheirTexts == Spec => []VectorOfItsText
<1>1. DeepInv => VectorOfItsText
  <2> SUFFICES ASSUME DeepInv, NEW f \in File, NEW i \in DOMAIN chunk[f], chunk[f][i].vec # None
               PROVE  chunk[f][i].vec.of = chunk[f][i].text
    BY DEF VectorOfItsText
  <2>1. chunk[f] \in Seq(GoodRow)
    BY DEF DeepInv, DataInv
  <2>2. chunk[f][i] \in GoodRow
    BY <2>1
  <2> QED
    BY <2>2 DEF GoodRow
<1> QED
  BY <1>1, Invariance, PTL

\* Chunks without an entries row, which the next prune would delete, come only
\* with the warning that the row could not be written.
THEOREM OrphansAnnounced == Spec => []OrphansAreAnnounced
<1>1. DeepInv => OrphansAreAnnounced
  BY DEF DeepInv, DataInv
<1> QED
  BY <1>1, Invariance, PTL

\* A web job counts a file when it is stored and not while it waits in memory for
\* its batch, and has counted all it took when it ends.
THEOREM ProgressKept == Spec => []ProgressIsKept
<1>1. DeepInv => ProgressIsKept
  <2> SUFFICES ASSUME DeepInv, NEW w \in Worker \ Terminal
               PROVE  /\ run[w].told \cap InMemory(w) = {}
                      /\ run[w].pc \in Ended => run[w].told = File \ run[w].todo
    BY DEF ProgressIsKept
  <2>1. run \in [Worker -> GoodRun] /\ Shape(run[w]) /\ Counted(w, run[w])
    BY DEF DeepInv, RunInv, Sound
  <2>2. InMemory(w) = Memory(run[w])
    BY DEF InMemory, Memory, Files
  <2>3. run[w].pc \in Ended => Memory(run[w]) = {}
    BY <2>1, FilesOfNone DEF Shape, Memory, Ended
  <2>4. run[w].pc \in Ended => run[w].pc # "idle"
    BY DEF Ended
  <2> QED
    BY <2>1, <2>2, <2>3, <2>4 DEF Counted
<1> QED
  BY <1>1, Invariance, PTL

\* A pass that ends well leaves each file as it is on disk and wholly embedded, but
\* for what it reported, what changed meanwhile, and edits no stamp can show.
THEOREM DoneCurrent == Spec => []DoneIsCurrent
<1>1. DeepInv => DoneIsCurrent
  <2> SUFFICES ASSUME DeepInv, NEW w \in Worker,
                      NEW f \in File \ (run[w].lost \cup run[w].changed \cup slipped),
                      run[w].pc = "done", run[w].mode # "summaries"
               PROVE  /\ Texts(chunk[f]) = content[f]
                      /\ run[w].mode = "vectors" /\ f \notin run[w].blank =>
                           \A i \in DOMAIN chunk[f] : chunk[f][i].vec # None
    BY DEF DoneIsCurrent
  <2>1. Shape(run[w]) /\ Truthful(run[w])
    BY DEF DeepInv, RunInv, Sound
  <2>2. run[w].todo = {} /\ Memory(run[w]) = {}
    BY <2>1, FilesOfNone DEF Shape, Memory, Ended
  <2> QED
    BY <2>1, <2>2 DEF Truthful, NoGaps
<1> QED
  BY <1>1, Invariance, PTL

=============================================================================
