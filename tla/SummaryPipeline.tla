-------------------------- MODULE SummaryPipeline --------------------------
(***************************************************************************)
(* What flows through the summary queue: file contents on disk, the        *)
(* entries' recorded mtimes, chunks, and the hash-gated summaries of files *)
(* and directories (crates/query/src/summarize.rs,                         *)
(* crates/core/src/store/summaries.rs, apps/indexa/src/commands/watch.rs). *)
(*                                                                         *)
(* Every action here is an action of SummaryQueue with the data it moves,  *)
(* so a behaviour of this module is a behaviour of the queue.              *)
(*                                                                         *)
(* A content is a number, and its SHA-256 the same number.  The summary of *)
(* a file is the content that was described; that of a directory maps each *)
(* child to the summary that was composed into it.                         *)
(***************************************************************************)
EXTENDS SummaryQueue

CONSTANTS
  KeepsChunks,   \* mode Augment: `deep` stores chunks; else SummariesOnly
  Watching,      \* `indexa watch` is running
  Reverts,       \* an edit may restore an earlier content
  Meanwhile,     \* requests that may arrive while a run is in hand
  MaxVersion,    \* bound: contents
  MaxTime,       \* bound: seconds on the clock
  Absent         \* no content, no hash

File == Path \ Dir
Content == 1..MaxVersion
Requests == {"enqueue", "regenerate", "remove"}

ASSUME PipelineAssumption ==
  /\ KeepsChunks \in BOOLEAN /\ Watching \in BOOLEAN /\ Reverts \in BOOLEAN
  /\ Meanwhile \subseteq Requests
  /\ Volatile \subseteq File
  /\ MaxVersion \in Nat \ {0}
  /\ MaxTime \in Nat
  /\ Absent \notin Nat
  /\ \A p \in Path : \A d \in Ancestors[p] : Ancestors[d] \subseteq Ancestors[p]

VARIABLES
  disk,       \* the content of each file, or Absent
  newest,     \* the newest content written so far
  mtime,      \* the mtime of each file and directory
  clock,      \* now, in seconds
  seen,       \* entries.modified_s
  chunks,     \* the content a file's chunks were cut from
  summary,    \* the summaries table: a row for each path that has been summarized
  run,        \* what each loop's current run has read so far
  touched,    \* file events the watcher has not handled yet: <<kind, file>>
  watch,      \* the watch handler
  asked,      \* history: regenerations asked for and not yet delivered
  lapsed,     \* history: paths whose last run gave nothing, or came too early
  refreshed,  \* history: a refresh was queued over an up-to-date index and an
              \* idle queue, and nothing has changed since
  restored    \* history: files that were given back an earlier content

diskVars  == <<disk, newest, mtime, clock>>
storeVars == <<seen, chunks, summary>>
watchVars == <<touched, watch>>
pastVars  == <<asked, lapsed, refreshed, restored>>
pipeVars  == <<diskVars, storeVars, run, watchVars, pastVars>>

Summarized(p) == p \in DOMAIN summary
\* A run that has made up its mind about p is in hand.
Begun(p) == \E w \in Worker : run[w].step # "none" /\ item[w] = p
Children(d) ==
  {p \in Path : d \in Ancestors[p] /\ \A e \in Ancestors[p] : Depth[e] <= Depth[d]}

\* Two fields of a run and two of a summary are history, which no step reads:
\* old, other bytes were described than were hashed, because the chunks were of
\* others; known, the path had an entry when the run began; orphaned, that entry
\* was gone when the summary was stored.
NoRun == [step |-> "none", hash |-> Absent, text |-> Absent, at |-> 0,
          old |-> FALSE, known |-> FALSE]
Idle  == [step |-> "idle", file |-> Absent, text |-> Absent, time |-> 0, todo |-> {}]
RunStep   == {"none", "gated", "sampled", "skip", "empty", "written"}
WatchStep == {"idle", "read", "mark"}
ChangeKind == {"upsert", "remove"}

PipelineTypeOK ==
  /\ disk \in [File -> Content \cup {Absent}]
  /\ newest \in Content
  /\ mtime \in [Path -> 0..MaxTime]
  /\ clock \in 0..MaxTime
  /\ seen \in [Path -> 0..MaxTime]
  /\ chunks \in [File -> Content \cup {Absent}]
  /\ DOMAIN summary \subseteq Path
  /\ \A f \in File : Summarized(f) =>
       /\ summary[f].hash \in Content \cup {Absent}
       /\ summary[f].text \in Content
  /\ \A d \in Dir : Summarized(d) => DOMAIN summary[d].text \subseteq Children(d)
  /\ \A w \in Worker : run[w].step \in RunStep
  /\ \A w \in Worker : run[w].step # "none" => phase[w] = "running"
  /\ touched \subseteq ChangeKind \X File
  /\ watch.step \in WatchStep /\ watch.todo \subseteq Path
  /\ watch.step = "read" => watch.file \in File
  /\ asked \subseteq Path /\ lapsed \subseteq Path
  /\ refreshed \in BOOLEAN
  /\ restored \subseteq File

\* After the first scan and deep of a tree, before anything is summarized.
PipelineInit ==
  /\ Init
  /\ disk = [f \in File |-> IF entry[f] = "none" THEN Absent ELSE 1]
  /\ entry \in [Path -> {"ok", "none"}]
  /\ newest = 1
  /\ mtime = [p \in Path |-> 0]
  /\ clock = 0
  /\ seen = [p \in Path |-> 0]
  /\ chunks = [f \in File |-> IF KeepsChunks THEN disk[f] ELSE Absent]
  /\ summary = [p \in {} |-> Absent]
  /\ run = [w \in Worker |-> NoRun]
  /\ touched = {}
  /\ watch = Idle
  /\ asked = {}
  /\ lapsed = {}
  /\ refreshed = FALSE
  /\ restored = {}

-----------------------------------------------------------------------------
(* One run: summarize_file or summarize_directory.                          *)

AtStep(w, s, S) == phase[w] = "running" /\ run[w].step = s /\ item[w] \in S
Advance(w, r) ==
  /\ run' = [run EXCEPT ![w] = r]
  /\ UNCHANGED <<vars, diskVars, storeVars, watchVars>>

\* The stored hash is that of the content at hand: nothing to do.
Gate(p, hash) ==
  hash # Absent /\ Summarized(p) /\ summary[p].hash = hash

\* The boundary is checked again; the start of the run is stamped; the file is
\* hashed (Absent when it cannot be read) and its summary row looked up.
BeginFile(w) ==
  LET f == item[w] IN
  /\ AtStep(w, "none", File)
  /\ Allowed(f)
  /\ Advance(w, [step |-> IF Gate(f, disk[f]) THEN "skip" ELSE "gated",
                 hash |-> disk[f], text |-> Absent, at |-> clock,
                 old |-> FALSE, known |-> entry[f] # "none"])
  /\ UNCHANGED pastVars

RefuseFile(w) ==
  /\ AtStep(w, "none", File)
  /\ ~Allowed(item[w])
  /\ FinishAs(w, "failed")
  /\ UNCHANGED pipeVars

\* What the describer is shown: the chunks if there are any, else the file.
SampleOf(f) == IF chunks[f] # Absent THEN chunks[f] ELSE disk[f]

Sample(w) ==
  LET f == item[w]  text == SampleOf(f) IN
  /\ AtStep(w, "gated", File)
  /\ Advance(w, [step |-> IF text = Absent THEN "empty" ELSE "sampled",
                 hash |-> run[w].hash, text |-> text, at |-> run[w].at,
                 old |-> chunks[f] \notin {Absent, run[w].hash},
                 known |-> run[w].known])
  /\ lapsed' = IF text = Absent THEN lapsed \cup {f} ELSE lapsed
  /\ UNCHANGED <<asked, refreshed, restored>>

\* The children's summaries are read once: for the Merkle hash, which is empty
\* when a child has no hash, and for the roll-up itself.
SummarizedChildren(d) == {c \in Children(d) : Summarized(c)}
\* Slip: the Merkle hash is of the children's names only.
DirHashOfNames(d) == {<<c, c>> : c \in SummarizedChildren(d)}
DirHash(d) ==
  IF \E c \in SummarizedChildren(d) : summary[c].hash = Absent THEN Absent
  ELSE {<<c, summary[c].hash>> : c \in SummarizedChildren(d)}
RollUp(d) == [c \in SummarizedChildren(d) |-> summary[c].text]

BeginDir(w) ==
  LET d == item[w] IN
  /\ AtStep(w, "none", Dir)
  /\ Advance(w, [step |-> IF SummarizedChildren(d) = {} THEN "empty"
                            ELSE IF Gate(d, DirHash(d)) THEN "skip" ELSE "sampled",
                 hash |-> DirHash(d), text |-> RollUp(d), at |-> clock,
                 old |-> FALSE, known |-> entry[d] # "none"])
  /\ lapsed' = IF HasUnfinished(d) \/ SummarizedChildren(d) = {} THEN lapsed \cup {d}
               ELSE lapsed \ {d}
  /\ UNCHANGED <<asked, refreshed, restored>>

\* The model answers with nothing.
EmptyAnswer(w) ==
  /\ AtStep(w, "sampled", Path)
  /\ Advance(w, [run[w] EXCEPT !.step = "empty"])
  /\ lapsed' = lapsed \cup {item[w]}
  /\ UNCHANGED <<asked, refreshed, restored>>

\* upsert_summary: the path's row is there now, and says this.
Upsert(p, s) ==
  summary' = [q \in DOMAIN summary \cup {p} |-> IF q = p THEN s ELSE summary[q]]

\* What a run stores: the hash and the time it took before it read anything.
Stores(w, hash, at) ==
  LET p == item[w] IN
  /\ AtStep(w, "sampled", Path)
  /\ Upsert(p, [hash |-> hash, text |-> run[w].text, at |-> at, old |-> run[w].old,
                orphaned |-> run[w].known /\ entry[p] = "none"])
  /\ asked' = asked \ {p}
  /\ lapsed' = IF p \in File THEN lapsed \ {p} ELSE lapsed
  /\ run' = [run EXCEPT ![w].step = "written"]
  /\ UNCHANGED <<vars, diskVars, seen, chunks, watchVars, refreshed, restored>>

\* Slip: the run is stamped when it ends.
WriteLateStamp(w) == Stores(w, run[w].hash, clock)

\* Slip: a file is hashed after it was read.
WriteLateHash(w) ==
  Stores(w, IF item[w] \in File THEN disk[item[w]] ELSE run[w].hash, run[w].at)

\* The summary is stored, whatever has happened to the path meanwhile.
Write(w) == Stores(w, run[w].hash, run[w].at)

\* Slip: a loop keeps the state of its last run.
KeepRun(w) == UNCHANGED run

EndRun(w) == run' = [run EXCEPT ![w] = NoRun]

Complete(w) ==
  /\ run[w].step \in {"skip", "empty", "written"}
  /\ FinishAs(w, "done")
  /\ EndRun(w)
  /\ UNCHANGED <<diskVars, storeVars, watchVars, pastVars>>

\* The describer fails (unreachable, timed out, out of memory).
DescriberError(w) ==
  /\ run[w].step = "sampled"
  /\ FinishAs(w, "failed")
  /\ EndRun(w)
  /\ UNCHANGED <<diskVars, storeVars, watchVars, pastVars>>

Run(w) ==
  \/ BeginFile(w) \/ RefuseFile(w) \/ Sample(w) \/ BeginDir(w)
  \/ EmptyAnswer(w) \/ Write(w) \/ Complete(w) \/ DescriberError(w)

-----------------------------------------------------------------------------
(* The queue's own steps, which move no data but may end a run.             *)

Queue ==
  \/ \E w \in Worker :
       \/ /\ \/ Claim(w) \/ CheckAllowed(w) \/ DeleteOrphan(w)
             \/ CheckSubtree(w) \/ CheckSubtreeReadError(w) \/ Defer(w)
             \/ StartJob(w) \/ EndJob(w)
          /\ UNCHANGED run
       \/ (StoreErrorMarked(w) \/ StoreErrorUnmarked(w)) /\ EndRun(w)
  \/ \E pr \in Proc :
       \/ Boot(pr) /\ UNCHANGED run
       \/ /\ Crash(pr)
          /\ run' = [w \in Worker |-> IF ProcOf[w] = pr THEN NoRun ELSE run[w]]

QueueStep == Queue /\ UNCHANGED <<diskVars, storeVars, watchVars, pastVars>>

-----------------------------------------------------------------------------
(* The files.                                                               *)

Parent(p) == Deepest(Ancestors[p])

\* What the operating system tells the watcher.
Notify(kind, f) ==
  touched' = IF Watching THEN touched \cup {<<kind, f>>} ELSE touched

\* A content is written to f: a new one, or an earlier one is restored.
WriteDisk(f) ==
  /\ \/ /\ newest < MaxVersion
        /\ newest' = newest + 1
        /\ disk' = [disk EXCEPT ![f] = newest + 1]
        /\ UNCHANGED restored
     \/ /\ Reverts
        /\ \E c \in 1..newest : c # disk[f] /\ disk' = [disk EXCEPT ![f] = c]
        /\ restored' = restored \cup {f}
        /\ UNCHANGED newest
  /\ Notify("upsert", f)

Edit(f) ==
  /\ disk[f] # Absent
  /\ WriteDisk(f)
  /\ mtime' = [mtime EXCEPT ![f] = clock]

\* Creating or deleting a file bumps its directory's mtime as well.
Create(f) ==
  /\ disk[f] = Absent
  /\ WriteDisk(f)
  /\ mtime' = [p \in Path |-> IF p \in {f} \cup Parent(f) THEN clock ELSE mtime[p]]

Delete(f) ==
  /\ disk[f] # Absent
  /\ disk' = [disk EXCEPT ![f] = Absent]
  /\ mtime' = [p \in Path |-> IF p \in Parent(f) THEN clock ELSE mtime[p]]
  /\ Notify("remove", f)
  /\ UNCHANGED <<newest, restored>>

Disk ==
  /\ \/ \E f \in File : Edit(f)
     \/ \E f \in Volatile : Create(f) \/ Delete(f)
  /\ refreshed' = FALSE
  /\ UNCHANGED <<vars, clock, storeVars, run, watch, asked, lapsed>>

Tick ==
  /\ clock < MaxTime
  /\ clock' = clock + 1
  /\ UNCHANGED <<vars, disk, newest, mtime, storeVars, run, watchVars, pastVars>>

-----------------------------------------------------------------------------
(* Requests: scan, deep, summarize, Regenerate.                             *)

Idling == \A p \in Path : ~Held(p)
May(request) == Idling \/ request \in Meanwhile

\* The walk upserts what it finds ...
Present == {p \in Path : p \in Dir \/ disk[p] # Absent}
ScanUpsert ==
  /\ UpsertEntries(Present, "ok")
  /\ seen' = [p \in Path |-> IF p \in Present THEN mtime[p] ELSE seen[p]]
  /\ UNCHANGED <<diskVars, chunks, summary, run, watchVars, pastVars>>

\* Slip: the summaries table is left out of the deletion.
ForgetAllButSummary(S) ==
  /\ DeleteEntries(S)
  /\ chunks' = [f \in File |-> IF f \in S THEN Absent ELSE chunks[f]]
  /\ refreshed' = FALSE
  /\ UNCHANGED summary

\* The rows of S go from every table.
Forget(S) ==
  /\ DeleteEntries(S)
  /\ chunks' = [f \in File |-> IF f \in S THEN Absent ELSE chunks[f]]
  /\ summary' = [p \in DOMAIN summary \ S |-> summary[p]]
  /\ refreshed' = FALSE

\* ... and reconciliation deletes what it did not find.
ScanPrune ==
  /\ May("remove")
  /\ Forget({f \in Volatile : disk[f] = Absent /\ entry[f] # "none"})
  /\ UNCHANGED <<diskVars, seen, run, watchVars, asked, lapsed, restored>>

\* deep re-reads one file; only mode Augment stores its chunks.
Deep(f) ==
  /\ disk[f] # Absent
  /\ UpsertEntries({f}, "ok")
  /\ seen' = [seen EXCEPT ![f] = mtime[f]]
  /\ chunks' = IF KeepsChunks THEN [chunks EXCEPT ![f] = disk[f]] ELSE chunks
  /\ UNCHANGED <<diskVars, summary, run, watchVars, pastVars>>

\* enqueue_subtree: what is new, what is stale by mtime, and what is above them.
NewPaths == {p \in Path : entry[p] = "ok" /\ state[p] = "none"}
\* Slip: > instead of >=, which misses an edit in the second of the stamp.
StaleLate(p) == Summarized(p) /\ seen[p] > summary[p].at
Stale(p) == Summarized(p) /\ seen[p] >= summary[p].at
StalePaths == {p \in Path : entry[p] = "ok" /\ Stale(p)}
\* Slip: no dirty propagation to the directories above.
WithoutAncestors(S) == S
WithAncestors(S) == S \cup UNION {Ancestors[p] : p \in S}

\* A row that is worked on ignores its mark, and a roll-up in hand may have read its
\* children by then: it came too early.
Ignored(S) == lapsed' = lapsed \cup {d \in S \cap Dir : Held(d)}

UpToDate ==
  \A p \in Path :
    /\ entry[p] = IF p \in Present THEN "ok" ELSE "none"
    /\ p \in Present => seen[p] = mtime[p]
    /\ p \in File /\ KeepsChunks => chunks[p] = disk[p]

EnqueueSubtree ==
  /\ May("enqueue")
  /\ MarkForResummary(WithAncestors(NewPaths \cup StalePaths))
  /\ Ignored(WithAncestors(NewPaths \cup StalePaths))
  /\ refreshed' = (UpToDate /\ Idling /\ watch = Idle /\ touched = {})
  /\ UNCHANGED <<diskVars, storeVars, run, watchVars, asked, restored>>

\* Slip: Regenerate marks the rows and trusts the stored hashes.
RegenerateByHash ==
  /\ May("regenerate")
  /\ MarkForResummary({p \in Path : entry[p] = "ok"})
  /\ Ignored({p \in Path : entry[p] = "ok"})
  /\ asked' = asked \cup {p \in Path : entry[p] = "ok" /\ Allowed(p) /\ ~Begun(p)}
  /\ UNCHANGED <<diskVars, storeVars, run, watchVars, refreshed, restored>>

\* requeue_subtree: blank every stored hash, then mark every entry.
Regenerate ==
  /\ May("regenerate")
  /\ MarkForResummary({p \in Path : entry[p] = "ok"})
  /\ summary' = [p \in DOMAIN summary |-> [summary[p] EXCEPT !.hash = Absent]]
  /\ Ignored({p \in Path : entry[p] = "ok"})
  /\ asked' = asked \cup {p \in Path : entry[p] = "ok" /\ Allowed(p) /\ ~Begun(p)}
  /\ UNCHANGED <<diskVars, seen, chunks, run, watchVars, refreshed, restored>>

-----------------------------------------------------------------------------
(* The watch handler, one file event at a time.                             *)

\* A removal is handled before the upserts of its batch.
HandleUpsert(f) ==
  /\ watch = Idle
  /\ <<"upsert", f>> \in touched
  /\ <<"remove", f>> \notin touched
  /\ touched' = touched \ {<<"upsert", f>>}

\* A file that is gone by now does not parse: its event is dropped.
WatchGone(f) ==
  /\ HandleUpsert(f)
  /\ disk[f] = Absent
  /\ UNCHANGED <<vars, diskVars, storeVars, run, watch, pastVars>>

\* Metadata and content are read, then parsed and embedded, with no store open.
WatchRead(f) ==
  /\ HandleUpsert(f)
  /\ disk[f] # Absent
  /\ watch' = [Idle EXCEPT !.step = "read", !.file = f, !.text = disk[f],
                           !.time = mtime[f]]
  /\ UNCHANGED <<vars, diskVars, storeVars, run, pastVars>>

WatchStore ==
  LET f == watch.file IN
  /\ watch.step = "read"
  /\ UpsertEntries({f}, "ok")
  /\ seen' = [seen EXCEPT ![f] = watch.time]
  /\ chunks' = [chunks EXCEPT ![f] = watch.text]
  /\ watch' = [Idle EXCEPT !.step = "mark", !.todo = WithAncestors({f})]
  /\ UNCHANGED <<diskVars, summary, run, touched, pastVars>>

\* Slip: the rows of a removed file go, its directories are not told.
WatchRemoveSilently(f) ==
  /\ watch = Idle
  /\ <<"remove", f>> \in touched
  /\ May("remove")
  /\ Forget({f})
  /\ touched' = touched \ {<<"remove", f>>}
  /\ UNCHANGED <<diskVars, seen, run, watch, asked, lapsed, restored>>

\* delete_subtree, even when the file has been created again meanwhile: another
\* event tells.
WatchRemove(f) ==
  /\ watch = Idle
  /\ <<"remove", f>> \in touched
  /\ May("remove")
  /\ Forget({f})
  /\ watch' = [Idle EXCEPT !.step = "mark", !.todo = Ancestors[f]]
  /\ touched' = touched \ {<<"remove", f>>}
  /\ UNCHANGED <<diskVars, seen, run, asked, lapsed, restored>>

\* The file first, then the directories above it, nearest first.
WatchMark ==
  /\ watch.step = "mark"
  /\ \E p \in Deepest(watch.todo) :
       /\ MarkForResummary({p})
       /\ Ignored({p})
       /\ watch' = IF watch.todo = {p} THEN Idle
                   ELSE [watch EXCEPT !.todo = @ \ {p}]
  /\ UNCHANGED <<diskVars, storeVars, run, touched, asked, refreshed, restored>>

Watch ==
  \/ \E f \in File : WatchRead(f)
  \/ \E f \in Volatile : WatchRemove(f) \/ WatchGone(f)
  \/ WatchStore \/ WatchMark

-----------------------------------------------------------------------------
PipelineNext ==
  \/ QueueStep
  \/ \E w \in Worker : Run(w)
  \/ Disk \/ Tick \/ Watch
  \/ ScanUpsert \/ ScanPrune \/ EnqueueSubtree \/ Regenerate
  \/ \E f \in File : Deep(f)

PipelineSpec == PipelineInit /\ [][PipelineNext]_<<vars, pipeVars>>

-----------------------------------------------------------------------------
(* Properties.                                                              *)

\* What the freshness gate takes for granted: a summary that carries the hash of
\* the file's bytes is true for these bytes.
SkippedIsTrue ==
  \A f \in File :
    Summarized(f) /\ disk[f] # Absent /\ summary[f].hash = disk[f]
      => summary[f].text = disk[f]

\* The freshness gate is sound, but for two ways to fool it: the chunks that were
\* described, in the mode that keeps chunks, which is the default, were of other
\* bytes than those hashed; or an edit gave the file an earlier content back.
\* Other than so, a file whose stored hash is that of its bytes has a summary of
\* those bytes, whatever was edited, deleted or created while it was made.
GateSound ==
  \A f \in File \ restored :
    Summarized(f) /\ ~summary[f].old /\ disk[f] # Absent /\ summary[f].hash = disk[f]
      => summary[f].text = disk[f]

\* So is that of directories: a Merkle hash of the children's hashes that is the
\* stored one has a roll-up of the summaries the children have, all the way down.
MerkleGateSound ==
  \A d \in Dir :
    Summarized(d) /\ DirHash(d) # Absent /\ summary[d].hash = DirHash(d)
      => summary[d].text = RollUp(d)

\* A summary of other bytes than the file's is seen to be stale as soon as the
\* file's mtime has been recorded, even when the edit came during the run; not so
\* one that was made from chunks of other bytes than those hashed.
StaleIsSeen ==
  \A f \in File :
    Summarized(f) /\ ~summary[f].old /\ disk[f] # Absent /\ summary[f].text # disk[f]
      => mtime[f] >= summary[f].at

Settled == \A p \in Path : state[p] \in {"none", "done"}

\* Once a refresh over an up-to-date index has drained, every file's summary
\* is of its current content, or was made earlier, from chunks of other bytes than
\* those hashed ...
FilesConverge ==
  refreshed /\ Settled =>
    \A f \in File \ (lapsed \cup Sensitive) :
      entry[f] = "ok" =>
        Summarized(f) /\ (summary[f].text = disk[f] \/ summary[f].old)

\* ... and every roll-up is of the summaries its children have.
RollUpsConverge ==
  refreshed /\ Settled =>
    \A d \in Dir \ lapsed : Summarized(d) => summary[d].text = RollUp(d)

\* What Regenerate was asked for is generated anew before its row is done,
\* even though the content's hash has not changed; not so what a run was in hand
\* for that had passed its gate, since such a row is not marked, nor a directory
\* that has nothing to compose by then.
RegenerateDefeatsGate ==
  \A p \in asked \ lapsed : Summarized(p) /\ state[p] = "done" => Held(p)

\* No summary outlives the entry it is of, but for one stored by a run that was
\* in hand when the entry went.
NoGhostSummary ==
  \A p \in Path : Summarized(p) /\ ~summary[p].orphaned => entry[p] # "none"

\* The watcher has handled every event and the queue has drained.
Quiet == watch = Idle /\ touched = {} /\ Settled

\* Then no roll-up speaks of a file whose entry is gone, but for one whose summary a
\* run brought back that was in hand when it went, and for a directory whose last run
\* had nothing to compose, which leaves the old roll-up as it is.
RollUpsForgetTheDead ==
  Quiet => \A d \in Dir \ lapsed : Summarized(d) =>
    \A c \in DOMAIN summary[d].text :
      entry[c] # "none" \/ (Summarized(c) /\ summary[c].orphaned)

\* enqueue_subtree queues everything that has no summary yet.
EnqueueMissesNothing ==
  [][EnqueueSubtree => \A p \in Path :
       Allowed(p) /\ entry[p] = "ok" /\ ~Summarized(p)
         => state'[p] \in {"pending", "in_flight"}]_<<vars, pipeVars>>
=============================================================================
