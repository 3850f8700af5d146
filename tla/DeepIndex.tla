----------------------------- MODULE DeepIndex -----------------------------
(***************************************************************************)
(* The deep pass: every file of a walk is read, cut into chunks, its       *)
(* chunks embedded in batches that span files, and the file stored, an     *)
(* entries row in one transaction and all its chunk rows in the next.      *)
(*                                                                         *)
(* Terminal commands and web jobs run the same loop over one database, at  *)
(* the same time if the user starts both, while files are being edited,    *)
(* the model server fails, a write fails, or the process dies.  Only the   *)
(* database survives a death: a later pass has nothing else to decide by   *)
(* which files it may skip and which vectors it may keep.                  *)
(*                                                                         *)
(* A chunk is its text.  Chunk hashes are taken to tell texts apart.       *)
(***************************************************************************)
EXTENDS Naturals, Sequences, FiniteSets

CONSTANTS
  Worker,       \* processes that run deep passes
  Terminal,     \* the ones started from the terminal; the others are web jobs
  File,
  Text,         \* chunk texts
  Version,      \* of each file, the sequences of chunks it may hold
  Model,        \* embedding models
  None,
  BatchSize,    \* EMBED_BATCH_SIZE
  MaxClock,     \* bound: seconds
  MaxRuns,      \* bound: passes started
  MaxEdits,     \* bound: edits of files and of the configuration
  MaxFaults     \* bound: deaths, and failures of parser, store and model server

ASSUME DeepConstants ==
  /\ Terminal \subseteq Worker
  /\ Version \in [File -> SUBSET Seq(Text)]
  /\ None \notin Model
  /\ BatchSize \in Nat \ {0}
  /\ MaxClock \in Nat
  /\ MaxRuns \in Nat
  /\ MaxEdits \in Nat
  /\ MaxFaults \in Nat

VARIABLES
  now,       \* the clock, in the whole seconds mtimes and stamps are compared in
  content,   \* what each file holds on disk
  mtime,     \* and when it was last written
  model,     \* the configured embedding model
  entry,     \* files with an entries row
  chunk,     \* the chunk rows of each file, by seq
  indexed,   \* their indexed_at
  run,       \* what each worker's pass holds in memory
  slipped,   \* history: files edited where no later pass can see it
  warned,    \* history: files whose entries row could not be written
  edits, runs, faults    \* counters of the bounds

disk  == <<content, mtime>>
db    == <<entry, chunk, indexed>>
ghost == <<slipped, warned>>
vars  == <<now, disk, model, db, run, ghost, edits, runs, faults>>

-----------------------------------------------------------------------------
(* Data.                                                                   *)

Vector == [of : Text, by : Model]
Row    == [text : Text, vec : Vector \cup {None}]

\* A file the pass has read: its chunks and the vectors it has for them.
Item == [file : File, text : Seq(Text), vec : Seq(Vector \cup {None})]

\* A text waiting to be embedded, tagged with its file's place in the batcher and
\* its slot in that file.
Tagged == [text : Text, id : Nat, slot : Nat]

Mode == {"vectors", "text", "summaries"}    \* plain, --no-embed, summaries-only

Ended == {"done", "failed", "cancelled"}

Off == [pc |-> "idle", mode |-> "vectors", model |-> None, snap |-> [f \in File |-> 0],
        todo |-> {}, cur |-> <<>>, buf |-> <<>>, queue |-> <<>>, out |-> <<>>,
        cancel |-> FALSE, told |-> {}, gain |-> FALSE, lost |-> {},
        changed |-> {}, blank |-> {}]

Texts(rows) == [i \in DOMAIN rows |-> rows[i].text]

Misses(item) == {i \in DOMAIN item.text : item.vec[i] = None}

\* Slip: a file whose embedding failed half-way counts as current.
CurrentDespiteGaps(f, m) == chunk[f] # <<>> /\ indexed[f] >= m

\* chunks_current_for_mtime: rows no older than the file, none without a vector.
Current(f, m) ==
  /\ chunk[f] # <<>>
  /\ indexed[f] >= m
  /\ \A i \in DOMAIN chunk[f] : chunk[f][i].vec # None

\* cached_embeddings_by_hash: the vector stored for a text of this file.
Cached(f, t) ==
  LET kept == {chunk[f][i].vec : i \in {j \in DOMAIN chunk[f] : chunk[f][j].text = t}} \ {None}
  IN  IF kept = {} THEN None ELSE CHOOSE v \in kept : TRUE

\* Slip: rows are replaced one by one, those of a longer old version stay.
ReplacedInPlace(old, item) ==
  [i \in DOMAIN item.text \cup DOMAIN old |->
     IF i \in DOMAIN item.text THEN [text |-> item.text[i], vec |-> item.vec[i]]
     ELSE old[i]]

\* replace_file_chunks: the old rows are cleared, then the new ones inserted.
Replaced(old, item) ==
  [i \in DOMAIN item.text |-> [text |-> item.text[i], vec |-> item.vec[i]]]

\* Only a web job counts the files it is through with.
Told(w, r, f) == IF w \in Terminal THEN r ELSE [r EXCEPT !.told = @ \cup {f}]

Fault == faults < MaxFaults /\ faults' = faults + 1
NoFault == UNCHANGED faults

-----------------------------------------------------------------------------
(* The world around the passes.                                            *)

Tick ==
  /\ now < MaxClock
  /\ now' = now + 1
  /\ UNCHANGED <<disk, model, db, run, ghost, edits, runs, faults>>

\* An edit in the second the rows are stamped with, or an earlier one, goes unseen.
Edit(f, c) ==
  /\ edits < MaxEdits
  /\ c # content[f]
  /\ edits' = edits + 1
  /\ content' = [content EXCEPT ![f] = c]
  /\ mtime' = [mtime EXCEPT ![f] = now]
  /\ slipped' = IF chunk[f] # <<>> /\ indexed[f] >= now /\ c # Texts(chunk[f])
                THEN slipped \cup {f} ELSE slipped \ {f}
  /\ run' = [w \in Worker |-> IF run[w] = Off THEN Off
                              ELSE [run[w] EXCEPT !.changed = @ \cup {f}]]
  /\ UNCHANGED <<now, model, db, warned, runs, faults>>

\* The user configures another embedding model (a server is restarted to read it).
SwitchModel(m) ==
  /\ edits < MaxEdits
  /\ m # model
  /\ edits' = edits + 1
  /\ model' = m
  /\ UNCHANGED <<now, disk, db, run, ghost, runs, faults>>

-----------------------------------------------------------------------------
(* A pass.                                                                 *)

\* The walk: modification times as of now, and the files to go through.
Start(w, mode) ==
  /\ run[w].pc \in {"idle"} \cup Ended
  /\ runs < MaxRuns
  /\ w \notin Terminal => mode # "text"
  /\ runs' = runs + 1
  /\ run' = [run EXCEPT ![w] = [Off EXCEPT !.pc = "loop", !.mode = mode,
                                           !.model = model, !.snap = mtime, !.todo = File]]
  /\ UNCHANGED <<now, disk, model, db, ghost, edits, faults>>

\* A web job finds, before its next file, that it was asked to stop.
Cancel(w) ==
  /\ w \notin Terminal
  /\ run[w].pc = "loop" /\ run[w].todo # {}
  /\ ~run[w].cancel
  /\ run' = [run EXCEPT ![w].cancel = TRUE]
  /\ UNCHANGED <<now, disk, model, db, ghost, edits, runs, faults>>

Skip(w, f) ==
  /\ run' = [run EXCEPT ![w] = Told(w, [run[w] EXCEPT !.todo = @ \ {f}, !.gain = TRUE], f)]
  /\ NoFault

Parse(w, f) ==
  \/ /\ run' = [run EXCEPT ![w].pc = "partition", ![w].todo = @ \ {f},
                           ![w].cur = <<[file |-> f, text |-> content[f]]>>]
     /\ NoFault
  \/ /\ Fault
     /\ run' = [run EXCEPT ![w] = Told(w, [run[w] EXCEPT !.todo = @ \ {f},
                                                         !.lost = @ \cup {f}], f)]

\* The next file: left alone if the database says it is current, else read.
Take(w, f) ==
  /\ run[w].pc = "loop" /\ ~run[w].cancel
  /\ f \in run[w].todo
  /\ IF Current(f, run[w].snap[f]) THEN Skip(w, f) ELSE Parse(w, f)
  /\ UNCHANGED <<now, disk, model, db, ghost, edits, runs>>

\* Slip: a text is tagged with its place among the texts to embed.
TaggedByMiss(item, k, slots) ==
  [n \in DOMAIN slots |-> [text |-> item.text[slots[n]], id |-> k, slot |-> n]]

\* miss_texts: the file's texts at these slots, each with its tag.
Tags(item, k, slots) ==
  [n \in DOMAIN slots |-> [text |-> item.text[slots[n]], id |-> k, slot |-> slots[n]]]

\* The slots of S in ascending order.
InOrder(slots, S) ==
  /\ S = {slots[n] : n \in DOMAIN slots}
  /\ \A n, m \in DOMAIN slots : n < m => slots[n] < slots[m]

\* add_file: the file joins those in flight, its texts the flat queue of all of them.
Registered(r, item, slots) ==
  LET queue == r.queue \o Tags(item, Len(r.buf) + 1, slots)
  IN  [r EXCEPT !.pc = IF Len(queue) >= BatchSize THEN "embed" ELSE "loop",
                !.cur = <<>>, !.buf = Append(@, item), !.queue = queue]

\* Slip: progress moves when a file is handed to the batcher.
BufferTelling(w, r, item, slots) == Told(w, Registered(r, item, slots), item.file)

\* A file in the batcher is not counted until it is stored.
Buffer(w, r, item, slots) == Registered(r, item, slots)

\* Chunks whose text has a stored vector keep it; the file waits in the batcher
\* if any is left to embed, and is stored at once if none is.
Partition(w) ==
  LET r    == run[w]
      f    == r.cur[1].file
      text == r.cur[1].text
      item == [file |-> f, text |-> text,
               vec |-> [i \in DOMAIN text |->
                          IF r.mode = "vectors" THEN Cached(f, text[i]) ELSE None]]
  IN  /\ r.pc = "partition"
      /\ IF r.mode = "vectors" /\ Misses(item) # {}
         THEN \E slots \in [1..Cardinality(Misses(item)) -> Misses(item)] :
                /\ InOrder(slots, Misses(item))
                /\ run' = [run EXCEPT ![w] = Buffer(w, r, item, slots)]
         ELSE run' = [run EXCEPT ![w] =
                [r EXCEPT !.pc = "entry", !.cur = <<>>, !.out = <<item>>]]
      /\ UNCHANGED <<now, disk, model, db, ghost, edits, runs, faults>>

\* embed_all: a vector for every text of the queue, in its order, None where the call
\* failed (or gave a vector of another dimension than configured).
EmbedAll(r, failed) ==
  [n \in DOMAIN r.queue |->
     IF n \in failed THEN None ELSE [of |-> r.queue[n].text, by |-> r.model]]

\* scatter: queue and results are taken in step, and each result goes where the tag
\* says (no tag occurs twice); without one the slot stays as it was.  A file's texts are
\* all in the queue, one after the other: all files are complete, in the order added.
Scatter(r, results) ==
  [k \in DOMAIN r.buf |-> [r.buf[k] EXCEPT !.vec = [i \in DOMAIN @ |->
     LET routed == {n \in DOMAIN results : /\ r.queue[n].id = k /\ r.queue[n].slot = i
                                           /\ results[n] # None}
     IN  IF routed = {} THEN @[i]
         ELSE results[CHOOSE n \in routed : TRUE]]]]

\* A full batch is embedded, and the last one when the walk is through or cancelled.
Embed(w) ==
  /\ \/ run[w].pc = "embed"
     \/ run[w].pc = "loop" /\ run[w].buf # <<>> /\ (run[w].todo = {} \/ run[w].cancel)
  /\ \E failed \in SUBSET (DOMAIN run[w].queue) :
       /\ IF failed = {} THEN NoFault ELSE Fault
       /\ run' = [run EXCEPT ![w].pc = "entry", ![w].buf = <<>>, ![w].queue = <<>>,
                             ![w].out = Scatter(run[w], EmbedAll(run[w], failed))]
  /\ UNCHANGED <<now, disk, model, db, ghost, edits, runs>>

\* Slip: a command goes on to the chunks without a word, too.
EntryFailedQuietly(w, f) ==
  run' = [run EXCEPT ![w].pc = "chunks", ![w].lost = @ \cup {f}] /\ UNCHANGED warned

\* upsert_entries for the file at hand.  If it fails a command stops there; a
\* web job warns and goes on to the chunks.
EntryFailed(w, f) ==
  IF w \in Terminal
  THEN run' = [run EXCEPT ![w] = Off] /\ UNCHANGED warned
  ELSE /\ run' = [run EXCEPT ![w].pc = "chunks", ![w].lost = @ \cup {f}]
       /\ warned' = warned \cup {f}

WriteEntry(w) ==
  LET f == run[w].out[1].file
  IN  /\ run[w].pc = "entry"
      /\ \/ /\ entry' = entry \cup {f}
            /\ run' = [run EXCEPT ![w].pc = "chunks",
                         ![w].gain = @ \/ run[w].mode = "summaries"]
            /\ UNCHANGED warned /\ NoFault
         \/ Fault /\ EntryFailed(w, f) /\ UNCHANGED entry
      /\ UNCHANGED <<now, disk, model, chunk, indexed, slipped, edits, runs>>

\* Slip: one file too many.
ThroughOneMore(w, r, f) ==
  Told(w, [r EXCEPT !.out = Tail(@), !.pc = IF Len(r.out) = 0 THEN "loop" ELSE "entry"], f)

\* The file is through: counted, and the pass turns to the next one.
Through(w, r, f) ==
  Told(w, [r EXCEPT !.out = Tail(@), !.pc = IF Len(r.out) = 1 THEN "loop" ELSE "entry"], f)

\* replace_file_chunks for the file at hand, in one transaction.  Summaries-only
\* stores no chunks, but a file with nothing in it always loses its old ones.
WriteChunks(w) ==
  LET r    == run[w]
      item == r.out[1]
      f    == item.file
      gap  == Misses(item) # {}
      old  == item.text # content[f]
      mine == [r EXCEPT !.gain = @ \/ (r.mode # "summaries" /\ item.text # <<>>)]
  IN  /\ r.pc = "chunks"
      /\ \/ /\ r.mode = "summaries" /\ item.text # <<>>
            /\ run' = [run EXCEPT ![w] = Through(w, r, f)]
            /\ UNCHANGED <<chunk, indexed, slipped>> /\ NoFault
         \/ /\ r.mode # "summaries" \/ item.text = <<>>
            /\ chunk' = [chunk EXCEPT ![f] = Replaced(@, item)]
            /\ indexed' = [indexed EXCEPT ![f] = now]
            /\ slipped' = IF old /\ item.text # <<>>
                          THEN slipped \cup {f} ELSE slipped \ {f}
            /\ run' = [v \in Worker |->
                 LET o == IF v = w THEN Through(w, mine, f) ELSE run[v]
                 IN  IF o = Off THEN Off
                     ELSE [o EXCEPT !.blank = IF gap THEN @ \cup {f} ELSE @,
                                    !.changed = IF old THEN @ \cup {f} ELSE @]]
            /\ NoFault
         \/ /\ r.mode # "summaries" \/ item.text = <<>>
            /\ Fault
            /\ run' = [run EXCEPT ![w] = IF w \in Terminal THEN Off
                         ELSE Through(w, [r EXCEPT !.lost = @ \cup {f}], f)]
            /\ UNCHANGED <<chunk, indexed, slipped>>
      /\ UNCHANGED <<now, disk, model, entry, warned, edits, runs>>

\* Nothing written, nothing current and an error: the web job failed.
NothingDone(r) == ~r.gain /\ r.lost # {}

Finish(w) ==
  LET r == run[w]
  IN  /\ r.pc = "loop" /\ r.buf = <<>>
      /\ r.todo = {} \/ r.cancel
      /\ run' = [run EXCEPT ![w].pc =
           IF r.todo # {} THEN "cancelled"
           ELSE IF w \notin Terminal /\ NothingDone(r) THEN "failed"
           ELSE "done"]
      /\ UNCHANGED <<now, disk, model, db, ghost, edits, runs, faults>>

\* The process dies.
Crash(w) ==
  /\ run[w].pc \notin {"idle"} \cup Ended
  /\ Fault
  /\ run' = [run EXCEPT ![w] = Off]
  /\ UNCHANGED <<now, disk, model, db, ghost, edits, runs>>

-----------------------------------------------------------------------------
Init ==
  /\ now = 0
  /\ content \in [File -> UNION {Version[f] : f \in File}]
  /\ \A f \in File : content[f] \in Version[f]
  /\ mtime = [f \in File |-> 0]
  /\ model \in Model
  /\ entry = {} /\ chunk = [f \in File |-> <<>>] /\ indexed = [f \in File |-> 0]
  /\ run = [w \in Worker |-> Off]
  /\ slipped = {} /\ warned = {}
  /\ edits = 0 /\ runs = 0 /\ faults = 0

Pass(w) ==
  \/ \E f \in File : Take(w, f)
  \/ Partition(w) \/ Embed(w)
  \/ WriteEntry(w) \/ WriteChunks(w) \/ Finish(w)

Next ==
  \/ Tick
  \/ \E f \in File : \E c \in Version[f] : Edit(f, c)
  \/ \E m \in Model : SwitchModel(m)
  \/ \E w \in Worker :
       \/ \E mode \in Mode : Start(w, mode)
       \/ Cancel(w) \/ Crash(w) \/ Pass(w)

Spec == Init /\ [][Next]_vars

-----------------------------------------------------------------------------
(* What the deep pass promises.                                            *)

DeepTypeOK ==
  /\ now \in 0..MaxClock
  /\ (\A f \in File : content[f] \in Version[f]) /\ mtime \in [File -> 0..MaxClock]
  /\ model \in Model
  /\ entry \subseteq File
  /\ chunk \in [File -> Seq(Row)] /\ indexed \in [File -> 0..MaxClock]
  /\ slipped \subseteq File /\ warned \subseteq File
  /\ edits \in 0..MaxEdits /\ runs \in 0..MaxRuns /\ faults \in 0..MaxFaults
  /\ run \in [Worker ->
       [pc : {"idle", "loop", "partition", "embed", "entry", "chunks"} \cup Ended,
        mode : Mode, model : Model \cup {None}, snap : [File -> 0..MaxClock],
        todo : SUBSET File, cur : Seq([file : File, text : Seq(Text)]),
        buf : Seq(Item), queue : Seq(Tagged), out : Seq(Item), cancel : BOOLEAN,
        told : SUBSET File, gain : BOOLEAN, lost : SUBSET File,
        changed : SUBSET File, blank : SUBSET File]]
  /\ \A w \in Worker :
       /\ run[w].pc = "partition" => run[w].cur # <<>>
       /\ run[w].pc \in {"entry", "chunks"} => run[w].out # <<>>
       /\ \A k \in DOMAIN run[w].buf :
            DOMAIN run[w].buf[k].vec = DOMAIN run[w].buf[k].text
       /\ \A k \in DOMAIN run[w].out :
            DOMAIN run[w].out[k].vec = DOMAIN run[w].out[k].text

\* Whatever overlaps or dies, the rows of a file are the chunks of one whole
\* version of it: no chunk of a longer, older version stays behind.
WholeFile == \A f \in File : chunk[f] # <<>> => Texts(chunk[f]) \in Version[f]

\* A vector stored beside a chunk was made of that chunk's text, through the flat queue
\* of texts of several files, its tags, gaps among the results, vectors already there in
\* other slots of the file, and reuse by content hash.
VectorOfItsText ==
  \A f \in File : \A i \in DOMAIN chunk[f] :
    chunk[f][i].vec # None => chunk[f][i].vec.of = chunk[f][i].text

\* Chunks whose file has no entries row are deleted by the next prune.  It comes
\* to that only where a warning said the row could not be written.
OrphansAreAnnounced ==
  \A f \in File : chunk[f] # <<>> => f \in entry \cup warned

\* Progress never counts a file that exists only in memory, where a crash would
\* lose it; and a job that ends has counted every file it took.
InMemory(w) ==
  {run[w].cur[k].file : k \in DOMAIN run[w].cur}
    \cup {run[w].buf[k].file : k \in DOMAIN run[w].buf}
    \cup {run[w].out[k].file : k \in DOMAIN run[w].out}

ProgressIsKept ==
  \A w \in Worker \ Terminal :
    /\ run[w].told \cap InMemory(w) = {}
    /\ run[w].pc \in Ended => run[w].told = File \ run[w].todo

\* A pass that ends well leaves every file as it is on disk, with every vector,
\* whatever earlier or simultaneous passes left half done.  Excused are files the
\* pass reported, files edited or overwritten from an old version since its walk,
\* files stored with gaps meanwhile, and files with an edit no pass can see.
DoneIsCurrent ==
  \A w \in Worker : \A f \in File \ (run[w].lost \cup run[w].changed \cup slipped) :
    run[w].pc = "done" /\ run[w].mode # "summaries" =>
      /\ Texts(chunk[f]) = content[f]
      /\ run[w].mode = "vectors" /\ f \notin run[w].blank =>
           \A i \in DOMAIN chunk[f] : chunk[f][i].vec # None

\* TROUBLESHOOTING.md: after a change of embedding model, deep over the roots
\* leaves everything embedded by the same model.  The code skips what is current
\* and reuses vectors by text hash, whichever model made them.
OneModelAfterDeep ==
  \A w \in Worker : \A f \in File :
    run[w].pc = "done" /\ run[w].mode = "vectors" =>
      \A i \in DOMAIN chunk[f] :
        chunk[f][i].vec # None => chunk[f][i].vec.by = run[w].model

=============================================================================
