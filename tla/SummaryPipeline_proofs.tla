---------------------- MODULE SummaryPipeline_proofs ----------------------
(***************************************************************************)
(* Proofs about SummaryPipeline, for every tree, every set of loops, and   *)
(* any number of contents and seconds.                                     *)
(***************************************************************************)
EXTENDS SummaryPipeline, SummaryQueue_proofs

USE DEF Stores

(* The pipeline implements the queue: whatever data a step moves, what it   *)
(* does to entries, rows and loops is a step of SummaryQueue or nothing.    *)

\* The watch handler works on paths of the tree.
WatchTyped ==
  /\ watch.step = "read" => watch.file \in File
  /\ watch.todo \subseteq Path
  /\ watch = [step |-> watch.step, file |-> watch.file, text |-> watch.text,
              time |-> watch.time, todo |-> watch.todo]

LEMMA FilesArePaths == File \subseteq Path /\ Volatile \subseteq File
BY PipelineAssumption DEF PipelineAssumption, File

LEMMA AncestorsInPath ==
  ASSUME NEW S \in SUBSET Path
  PROVE  WithAncestors(S) \subseteq Path
BY QueueAssumption DEF QueueAssumption, WithAncestors

LEMMA InitWatchTyped == PipelineInit => WatchTyped
BY DEF PipelineInit, WatchTyped, Idle

LEMMA WatchWatchTyped ==
  ASSUME WatchTyped, Watch
  PROVE  WatchTyped'
<1> USE DEF WatchTyped, Idle
<1>1. ASSUME NEW f \in File, WatchRead(f) PROVE WatchTyped'
  BY <1>1 DEF WatchRead
<1>2. ASSUME NEW f \in Volatile, WatchRemove(f) \/ WatchGone(f) PROVE WatchTyped'
  BY <1>2, FilesArePaths, QueueAssumption DEF WatchRemove, WatchGone, QueueAssumption
<1>3. CASE WatchStore
  <2>1. WithAncestors({watch.file}) \subseteq Path
    BY <1>3, FilesArePaths, AncestorsInPath DEF WatchStore
  <2> QED
    BY <1>3, <2>1 DEF WatchStore
<1>4. CASE WatchMark
  <2>2. PICK p : watch' = IF watch.todo = {p} THEN Idle
                          ELSE [watch EXCEPT !.todo = @ \ {p}]
    BY <1>4 DEF WatchMark
  <2>3. CASE watch.todo = {p}
    BY <2>2, <2>3
  <2>4. CASE watch.todo # {p}
    <3>1. watch' = [step |-> watch.step, file |-> watch.file, text |-> watch.text,
                    time |-> watch.time, todo |-> watch.todo \ {p}]
      BY <2>2, <2>4
    <3> QED
      BY <3>1
  <2> QED
    BY <2>3, <2>4
<1> QED
  BY <1>1, <1>2, <1>3, <1>4 DEF Watch

LEMMA NextWatchTyped ==
  ASSUME WatchTyped, [PipelineNext]_<<vars, pipeVars>>
  PROVE  WatchTyped'
<1>1. CASE UNCHANGED watch
  BY <1>1 DEF WatchTyped
<1>2. CASE QueueStep
  BY <1>1, <1>2 DEF QueueStep, watchVars
<1>3. ASSUME NEW w \in Worker, Run(w) PROVE UNCHANGED watch
  BY <1>3 DEF Run, BeginFile, RefuseFile, Sample, BeginDir, EmptyAnswer, Write,
    Complete, DescriberError, Advance, pipeVars, watchVars
<1>4. CASE Disk \/ Tick \/ ScanUpsert \/ ScanPrune \/ EnqueueSubtree \/ Regenerate
  BY <1>1, <1>4 DEF Disk, Tick, ScanUpsert, ScanPrune, EnqueueSubtree,
    Regenerate, watchVars
<1>5. ASSUME NEW f \in File, Deep(f) PROVE UNCHANGED watch
  BY <1>5 DEF Deep, watchVars
<1> QED
  BY <1>1, <1>2, <1>3, <1>4, <1>5, WatchWatchTyped
  DEF PipelineNext, pipeVars, watchVars

LEMMA RunIsQueueStep ==
  ASSUME NEW w \in Worker, Run(w)
  PROVE  [Next]_vars
<1>1. CASE BeginFile(w) \/ Sample(w) \/ BeginDir(w) \/ EmptyAnswer(w) \/ Write(w)
  BY <1>1 DEF BeginFile, Sample, BeginDir, EmptyAnswer, Write, Advance
<1>2. CASE RefuseFile(w) \/ Complete(w) \/ DescriberError(w)
  <2>1. Finish(w)
    BY <1>2 DEF RefuseFile, Complete, DescriberError, Finish
  <2> QED
    BY <2>1 DEF Next, Step
<1> QED
  BY <1>1, <1>2 DEF Run

LEMMA QueueIsQueueStep == QueueStep => Next
BY DEF QueueStep, Queue, Next, Step, Fault

LEMMA WatchIsQueueStep ==
  ASSUME WatchTyped, Watch
  PROVE  [Next]_vars
<1>1. ASSUME NEW f \in File, WatchRead(f) \/ WatchGone(f) PROVE UNCHANGED vars
  BY <1>1 DEF WatchRead, WatchGone
<1>2. ASSUME NEW f \in Volatile, WatchRemove(f) PROVE Environment
  <2>1. DeleteEntries({f}) /\ {f} \in SUBSET Volatile
    BY <1>2 DEF WatchRemove, Forget
  <2> QED
    BY <2>1 DEF Environment
<1>3. CASE WatchStore
  <2>1. UpsertEntries({watch.file}, "ok") /\ {watch.file} \in SUBSET Path
    BY <1>3, FilesArePaths DEF WatchStore, WatchTyped
  <2> QED
    BY <2>1 DEF Environment, Next
<1>4. CASE WatchMark
  <2>1. PICK p \in Path : MarkForResummary({p})
    BY <1>4 DEF WatchMark, WatchTyped, Deepest
  <2>2. {p} \in SUBSET Path
    OBVIOUS
  <2> QED
    BY <2>1, <2>2 DEF Environment, Next
<1> QED
  BY <1>1, <1>2, <1>3, <1>4, FilesArePaths DEF Watch, Next

LEMMA RequestIsQueueStep ==
  ASSUME ScanUpsert \/ ScanPrune \/ EnqueueSubtree \/ Regenerate \/ \E f \in File : Deep(f)
  PROVE  Environment
<1>1. CASE ScanUpsert
  <2>1. UpsertEntries(Present, "ok") /\ Present \in SUBSET Path
    BY <1>1 DEF ScanUpsert, Present
  <2> QED
    BY <2>1 DEF Environment
<1>2. CASE ScanPrune
  <2>1. \E S \in SUBSET Volatile : DeleteEntries(S)
    BY <1>2 DEF ScanPrune, Forget
  <2> QED
    BY <2>1 DEF Environment
<1>3. CASE EnqueueSubtree
  <2>1. NewPaths \cup StalePaths \in SUBSET Path
    BY DEF NewPaths, StalePaths
  <2>2. \E S \in SUBSET Path : MarkForResummary(S)
    BY <1>3, <2>1, AncestorsInPath DEF EnqueueSubtree
  <2> QED
    BY <2>2 DEF Environment
<1>4. CASE Regenerate
  <2>1. \E S \in SUBSET Path : MarkForResummary(S)
    BY <1>4 DEF Regenerate
  <2> QED
    BY <2>1 DEF Environment
<1>5. ASSUME NEW f \in File, Deep(f) PROVE Environment
  <2>1. UpsertEntries({f}, "ok") /\ {f} \in SUBSET Path
    BY <1>5, FilesArePaths DEF Deep
  <2> QED
    BY <2>1 DEF Environment
<1> QED
  BY <1>1, <1>2, <1>3, <1>4, <1>5

LEMMA PipelineStepIsQueueStep ==
  ASSUME WatchTyped, [PipelineNext]_<<vars, pipeVars>>
  PROVE  [Next]_vars
<1>1. CASE Disk \/ Tick
  BY <1>1 DEF Disk, Tick
<1>2. CASE ScanUpsert \/ ScanPrune \/ EnqueueSubtree \/ Regenerate \/ \E f \in File : Deep(f)
  BY <1>2, RequestIsQueueStep DEF Next
<1> QED
  BY <1>1, <1>2, RunIsQueueStep, QueueIsQueueStep, WatchIsQueueStep DEF PipelineNext

\* The data the loops, the watcher, a scan and deep move around does not let
\* them do anything to the queue that SummaryQueue does not describe
\* (process_queue_item_with_passes, enqueue_subtree, requeue_subtree, watch.rs).
THEOREM PipelineImplementsQueue == PipelineSpec => Spec
<1>1. PipelineInit => Init /\ WatchTyped
  BY InitWatchTyped DEF PipelineInit
<1>2. WatchTyped /\ [PipelineNext]_<<vars, pipeVars>> => WatchTyped' /\ [Next]_vars
  BY NextWatchTyped, PipelineStepIsQueueStep
<1> QED
  BY <1>1, <1>2, PTL DEF PipelineSpec, Spec

-----------------------------------------------------------------------------
(* The freshness gate is sound, whichever mode the pipeline runs in, for    *)
(* every summary that was not made from old chunks and every file that was  *)
(* not given an earlier content back.                                       *)

IsRun(r) ==
  r = [step |-> r.step, hash |-> r.hash, text |-> r.text, at |-> r.at,
       old |-> r.old, known |-> r.known]
IsSummary(s) ==
  s = [hash |-> s.hash, text |-> s.text, at |-> s.at, old |-> s.old,
       orphaned |-> s.orphaned]

SummaryTable ==
  /\ summary = [p \in DOMAIN summary |-> summary[p]]
  /\ DOMAIN summary \subseteq Path
  /\ \A p \in Path : Summarized(p) => IsSummary(summary[p])

LEMMA Stored ==
  ASSUME SummaryTable, NEW p \in Path, NEW s, IsSummary(s), Upsert(p, s)
  PROVE  /\ SummaryTable'
         /\ Summarized(p)' /\ summary'[p] = s
         /\ \A q \in Path : q # p => /\ (Summarized(q)' <=> Summarized(q))
                                     /\ (Summarized(q) => summary'[q] = summary[q])
BY DEF SummaryTable, Upsert, Summarized, IsSummary

RunShape ==
  /\ run = [w \in Worker |-> run[w]]
  /\ \A w \in Worker : IsRun(run[w])
  /\ \A w \in Worker : run[w].step # "none" => phase[w] = "running"

GateShape ==
  /\ newest \in Nat
  /\ disk \in [File -> Nat \cup {Absent}]
  /\ WatchTyped
  /\ RunShape
  /\ SummaryTable

\* A hash of a file that was ever written; the next content will be another.
Known(h) == h = Absent \/ (h \in Nat /\ h <= newest)

\* A run about to write has described the bytes it hashed, if the file still
\* has them.
RunsSound ==
  \A w \in Worker : run[w].step # "none" /\ item[w] \in File =>
    /\ Known(run[w].hash)
    /\ /\ run[w].step = "sampled" /\ ~run[w].old
       /\ item[w] \notin restored
       /\ disk[item[w]] # Absent
       /\ run[w].hash = disk[item[w]]
       => run[w].text = disk[item[w]]

GateInv ==
  /\ TypeInv
  /\ GateShape
  /\ \A f \in File : Known(disk[f])
  /\ \A f \in File : Summarized(f) => Known(summary[f].hash)
  /\ RunsSound
  /\ GateSound

LEMMA InitGate == PipelineInit => GateInv
<1> SUFFICES ASSUME PipelineInit PROVE GateInv
  OBVIOUS
<1>1. TypeInv
  BY InitTypeInv DEF PipelineInit
<1>2. \A f \in File : disk[f] = Absent \/ disk[f] = 1
  BY DEF PipelineInit
<1>3. GateShape
  BY <1>2, InitWatchTyped DEF PipelineInit, GateShape, RunShape, SummaryTable, Summarized,
    NoRun, IsRun
<1> QED
  BY <1>1, <1>2, <1>3, FilesArePaths
  DEF PipelineInit, GateInv, Known, RunsSound, GateSound, Summarized, NoRun

\* Nothing is lost by a step that leaves the files alone, ends runs or carries
\* them on, and forgets summaries or blanks their hashes.
RunsCarryOn ==
  /\ run' = [w \in Worker |-> IF run'[w] = NoRun THEN NoRun ELSE run[w]]
  /\ \A w \in Worker : run'[w].step # "none" =>
       run'[w] = run[w] /\ item'[w] = item[w] /\ phase'[w] = phase[w]

SummariesFade ==
  /\ summary' = [p \in DOMAIN summary' |-> summary'[p]]
  /\ DOMAIN summary' \subseteq DOMAIN summary
  /\ \A p \in Path : Summarized(p)' =>
       /\ Summarized(p)
       /\ summary'[p] = [hash |-> summary'[p].hash, text |-> summary[p].text,
                         at |-> summary[p].at, old |-> summary[p].old,
                         orphaned |-> summary[p].orphaned]
       /\ summary'[p].hash \in {summary[p].hash, Absent}

LEMMA Fading ==
  ASSUME SummaryTable, UNCHANGED summary \/ (\E S : Forget(S)) \/ Regenerate
  PROVE  SummariesFade
<1> USE DEF SummaryTable, SummariesFade, Summarized, IsSummary
<1>1. CASE UNCHANGED summary
  BY <1>1
<1>2. ASSUME NEW S, Forget(S) PROVE SummariesFade
  BY <1>2 DEF Forget
<1>3. CASE Regenerate
  BY <1>3 DEF Regenerate
<1> QED
  BY <1>1, <1>2, <1>3

LEMMA FadedTable ==
  ASSUME SummaryTable, SummariesFade
  PROVE  SummaryTable'
BY DEF SummaryTable, SummariesFade, IsSummary, Summarized

LEMMA FrameGate ==
  ASSUME GateInv, TypeInv', WatchTyped', UNCHANGED <<newest, disk, restored>>,
         RunsCarryOn, SummariesFade
  PROVE  GateInv'
<1>1. GateShape'
  BY FadedTable DEF GateInv, GateShape, RunShape, RunsCarryOn, NoRun, IsRun
<1>2. (\A f \in File : Known(disk[f]))'
  BY DEF GateInv, Known
<1>3. (\A f \in File : Summarized(f) => Known(summary[f].hash))'
  BY FilesArePaths DEF GateInv, Known, SummariesFade
<1>4. RunsSound'
  BY DEF GateInv, RunsSound, Known, RunsCarryOn
<1>5. GateSound'
  <2>1. ASSUME NEW f \in File, Summarized(f)'
        PROVE  /\ Summarized(f)
               /\ summary'[f].text = summary[f].text
               /\ summary'[f].old = summary[f].old
               /\ summary'[f].hash \in {summary[f].hash, Absent}
    BY <2>1, FilesArePaths DEF SummariesFade, Summarized
  <2> QED
    BY <2>1 DEF GateInv, GateSound
<1> QED
  BY <1>1, <1>2, <1>3, <1>4, <1>5 DEF GateInv

\* The queue's own steps start no run, and the ends of runs end them.
LEMMA QueueRuns ==
  ASSUME TypeInv, RunShape, QueueStep
  PROVE  RunsCarryOn
<1> USE DEF TypeInv, TypeOK, RunShape
<1>1. ASSUME NEW w \in Worker,
             Claim(w) \/ CheckAllowed(w) \/ DeleteOrphan(w) \/ CheckSubtree(w)
               \/ CheckSubtreeReadError(w) \/ Defer(w) \/ StartJob(w) \/ EndJob(w),
             UNCHANGED run
      PROVE  RunsCarryOn
  <2>1. phase[w] # "running" /\ \A v \in Worker : v # w =>
          phase'[v] = phase[v] /\ item'[v] = item[v]
    BY <1>1 DEF Claim, CheckAllowed, DeleteOrphan, CheckSubtree,
      CheckSubtreeReadError, Defer, StartJob, EndJob, Release
  <2> QED
    BY <1>1, <2>1 DEF RunsCarryOn, NoRun
<1>2. ASSUME NEW w \in Worker, StoreErrorMarked(w) \/ StoreErrorUnmarked(w), EndRun(w)
      PROVE  RunsCarryOn
  <2>1. \A v \in Worker : v # w => phase'[v] = phase[v] /\ item'[v] = item[v]
    BY <1>2 DEF StoreErrorMarked, StoreErrorUnmarked, Release
  <2> QED
    BY <1>2, <2>1 DEF RunsCarryOn, NoRun, EndRun
<1>3. ASSUME NEW pr \in Proc, Boot(pr), UNCHANGED run
      PROVE  RunsCarryOn
  <2>1. \A w \in Worker : phase[w] = "running" => phase'[w] = phase[w] /\ item'[w] = item[w]
    BY <1>3 DEF Boot, Sweep, OffWhenDown
  <2> QED
    BY <1>3, <2>1 DEF RunsCarryOn, NoRun
<1>4. ASSUME NEW pr \in Proc, Crash(pr),
             run' = [w \in Worker |-> IF ProcOf[w] = pr THEN NoRun ELSE run[w]]
      PROVE  RunsCarryOn
  BY <1>4 DEF Crash, RunsCarryOn, NoRun
<1> QED
  BY <1>1, <1>2, <1>3, <1>4 DEF QueueStep, Queue

\* So do those that end a run in good order, or before it has begun.
Ending(w) == RefuseFile(w) \/ Complete(w) \/ DescriberError(w)

LEMMA EndingRuns ==
  ASSUME TypeInv, RunShape, NEW w \in Worker, Ending(w)
  PROVE  RunsCarryOn
<1> USE DEF Ending
<1>1. PICK s : FinishAs(w, s)
  BY DEF RefuseFile, Complete, DescriberError
<1>2. \A v \in Worker : v # w => phase'[v] = phase[v] /\ item'[v] = item[v]
  BY <1>1 DEF FinishAs, Release, TypeInv, TypeOK
<1>3. run[w].step = "none" \/ run' = [run EXCEPT ![w] = NoRun]
  BY DEF RefuseFile, AtStep, Complete, DescriberError, EndRun
<1>4. run' = run \/ run' = [run EXCEPT ![w] = NoRun]
  BY DEF RefuseFile, Complete, DescriberError, EndRun, pipeVars
<1>5. CASE run' = run /\ run[w].step = "none"
  BY <1>2, <1>5 DEF RunShape, RunsCarryOn, NoRun
<1>6. CASE run' = [run EXCEPT ![w] = NoRun]
  BY <1>2, <1>6 DEF RunShape, RunsCarryOn, NoRun
<1> QED
  BY <1>3, <1>4, <1>5, <1>6

\* Requests, the disk and the watcher leave the loops alone.
Outside ==
  Disk \/ Tick \/ Watch \/ ScanUpsert \/ ScanPrune \/ EnqueueSubtree \/ Regenerate
    \/ \E f \in File : Deep(f)

LEMMA OutsideRuns ==
  ASSUME Outside
  PROVE  UNCHANGED <<run, phase, item>>
BY DEF Outside, workerVars, Disk, Tick, Watch, WatchRead, WatchGone, WatchRemove, WatchStore,
  WatchMark, ScanUpsert, ScanPrune, EnqueueSubtree, Regenerate, Deep, Forget, vars,
  UpsertEntries, DeleteEntries, MarkForResummary

LEMMA QueueGate ==
  ASSUME GateInv, TypeInv', WatchTyped', QueueStep
  PROVE  GateInv'
<1>1. SummariesFade
  BY Fading DEF QueueStep, storeVars, GateInv, GateShape
<1>2. RunsCarryOn
  BY QueueRuns DEF GateInv, GateShape
<1> QED
  BY <1>1, <1>2, FrameGate DEF QueueStep, diskVars, pastVars

LEMMA RequestGate ==
  ASSUME GateInv, TypeInv', WatchTyped', Outside, ~Disk
  PROVE  GateInv'
<1> USE DEF Outside, diskVars, storeVars, pastVars
<1>1. UNCHANGED <<run, phase, item>>
  BY OutsideRuns
<1>2. RunsCarryOn
  BY <1>1 DEF GateInv, GateShape, RunShape, RunsCarryOn, NoRun
<1>3. UNCHANGED <<newest, disk, restored>>
  BY DEF Tick, ScanUpsert, ScanPrune, EnqueueSubtree, Regenerate, Deep, Watch, WatchRead,
    WatchGone, WatchRemove, WatchStore, WatchMark
<1>4. UNCHANGED summary \/ (\E S : Forget(S)) \/ Regenerate
  BY DEF Tick, ScanUpsert, ScanPrune, EnqueueSubtree, Deep, Watch, WatchRead, WatchGone,
    WatchRemove, WatchStore, WatchMark
<1>5. SummariesFade
  BY <1>4, Fading DEF GateInv, GateShape
<1> QED
  BY <1>2, <1>3, <1>5, FrameGate

\* What is written to a file is no content any hash is of, or one it had before.
LEMMA DiskGate ==
  ASSUME GateInv, TypeInv', WatchTyped', Disk
  PROVE  GateInv'
<1> USE DEF GateInv, GateShape, RunShape, storeVars
<1> DEFINE Writes(f, c) ==
      /\ disk' = [disk EXCEPT ![f] = c]
      /\ \/ newest' = newest + 1 /\ c = newest + 1 /\ restored' = restored
         \/ newest' = newest /\ c = Absent /\ restored' = restored
         \/ newest' = newest /\ c \in 1..newest /\ restored' = restored \cup {f}
<1>1. ASSUME NEW f \in File, WriteDisk(f)
      PROVE  \E c : Writes(f, c)
  BY <1>1 DEF WriteDisk
<1>2. ASSUME NEW f \in File, Delete(f)
      PROVE  \E c : Writes(f, c)
  BY <1>2 DEF Delete
<1>3. PICK f \in File : \E c : Writes(f, c)
  BY <1>1, <1>2, FilesArePaths DEF Disk, Edit, Create
<1>4. PICK c : Writes(f, c)
  BY <1>3
<1>5. UNCHANGED <<summary, run, phase, item>>
  BY DEF Disk, vars
<1>6. /\ restored \subseteq restored'
      /\ \A g \in File : disk'[g] = disk[g] \/ disk'[g] = Absent \/ disk'[g] = newest + 1
                           \/ g \in restored'
  BY <1>4
<1>7. GateShape'
  BY <1>4, <1>5 DEF SummaryTable, Summarized
<1>8. \A h : Known(h) => Known(h)' /\ h # newest + 1
  BY <1>4, PipelineAssumption DEF Known, PipelineAssumption
<1>9. \A g \in File : Known(disk[g])'
  BY <1>4, <1>8 DEF Known
<1>10. \A g \in File : Summarized(g)' => Known(summary[g].hash)'
  BY <1>5, <1>8 DEF Summarized
<1> HIDE DEF Writes
<1>11. RunsSound'
  BY <1>5, <1>6, <1>8 DEF RunsSound
<1>12. GateSound'
  BY <1>5, <1>6, <1>8 DEF GateSound, Summarized
<1> QED
  BY <1>7, <1>9, <1>10, <1>11, <1>12

LEMMA NewStep ==
  ASSUME NEW q, IsRun(q), NEW s
  PROVE  [q EXCEPT !.step = s] =
           [step |-> s, hash |-> q.hash, text |-> q.text, at |-> q.at,
            old |-> q.old, known |-> q.known]
BY DEF IsRun

LEMMA RunGate ==
  ASSUME GateInv, TypeInv', WatchTyped', NEW w \in Worker, Run(w)
  PROVE  GateInv'
<1> USE DEF GateInv, GateShape, RunShape, diskVars, storeVars, pastVars
<1>1. CASE RefuseFile(w) \/ Complete(w) \/ DescriberError(w)
  <2>1. RunsCarryOn
    BY <1>1, EndingRuns DEF Ending
  <2>2. SummariesFade /\ UNCHANGED <<newest, disk, restored>>
    BY <1>1, Fading DEF RefuseFile, Complete, DescriberError, pipeVars
  <2> QED
    BY <2>1, <2>2, FrameGate
<1>2. ASSUME NEW r, Advance(w, r), UNCHANGED restored, IsRun(r), phase[w] = "running",
             item[w] \in File =>
               /\ Known(r.hash)
               /\ r.step = "sampled" => r.old
                                        \/ r.text = disk[item[w]]
                                        \/ r.hash # disk[item[w]]
                                        \/ disk[item[w]] = Absent
      PROVE  GateInv'
  <2>1. /\ UNCHANGED <<phase, item, newest, disk, summary, restored>>
        /\ run' = [run EXCEPT ![w] = r]
    BY <1>2 DEF Advance, vars
  <2>2. GateShape'
    BY <1>2, <2>1 DEF SummaryTable, Summarized
  <2>3. RunsSound'
    BY <1>2, <2>1 DEF RunsSound, Known
  <2> QED
    BY <2>1, <2>2, <2>3 DEF Known, GateSound, Summarized
<1>3. CASE BeginFile(w)
  BY <1>2, <1>3 DEF BeginFile, AtStep, IsRun
<1>4. CASE Sample(w)
  <2>1. item[w] \in File /\ phase[w] = "running" /\ Known(run[w].hash)
    BY <1>4 DEF Sample, AtStep, RunsSound
  <2>2. PICK r : /\ Advance(w, r) /\ IsRun(r) /\ r.hash = run[w].hash
                 /\ r.text = SampleOf(item[w])
                 /\ r.old = (chunks[item[w]] \notin {Absent, run[w].hash})
    BY <1>4 DEF Sample, IsRun
  <2>3. r.old \/ r.text = disk[item[w]] \/ r.hash # disk[item[w]]
    BY <2>2 DEF SampleOf
  <2> QED
    BY <1>2, <1>4, <2>1, <2>2, <2>3 DEF Sample
<1>5. CASE BeginDir(w)
  <2>1. PICK r : Advance(w, r) /\ IsRun(r) /\ UNCHANGED restored
    BY <1>5 DEF BeginDir, IsRun
  <2>2. phase[w] = "running" /\ item[w] \notin File
    BY <1>5 DEF BeginDir, AtStep, File
  <2> QED
    BY <1>2, <2>1, <2>2
<1>6. CASE EmptyAnswer(w)
  <2> DEFINE r == [run[w] EXCEPT !.step = "empty"]
  <2>1. phase[w] = "running" /\ run[w].step = "sampled" /\ Advance(w, r)
        /\ UNCHANGED restored
    BY <1>6 DEF EmptyAnswer, AtStep
  <2>2. r = [step |-> "empty", hash |-> run[w].hash, text |-> run[w].text,
             at |-> run[w].at, old |-> run[w].old, known |-> run[w].known]
    BY NewStep
  <2> HIDE DEF r
  <2>3. IsRun(r) /\ r.hash = run[w].hash /\ r.step = "empty"
    BY <2>2 DEF IsRun
  <2>4. item[w] \in File => Known(run[w].hash)
    BY <2>1 DEF RunsSound
  <2> QED
    BY <1>2, <2>1, <2>3, <2>4
<1>7. CASE Write(w)
  <2> DEFINE p == item[w]
             s == [hash |-> run[w].hash, text |-> run[w].text, at |-> run[w].at,
                   old |-> run[w].old, orphaned |-> run[w].known /\ entry[p] = "none"]
  <2>1. p \in Path /\ phase[w] = "running" /\ run[w].step = "sampled"
    BY <1>7 DEF Write, AtStep
  <2>2. UNCHANGED <<phase, item, newest, disk, restored>>
    BY <1>7 DEF Write, vars
  <2>3. /\ SummaryTable'
        /\ summary'[p] = s
        /\ \A q \in Path : q # p => /\ (Summarized(q)' <=> Summarized(q))
                                    /\ (Summarized(q) => summary'[q] = summary[q])
    <3>1. Upsert(p, s)
      BY <1>7 DEF Write
    <3> QED
      BY <2>1, <3>1, Stored DEF IsSummary
  <2>4. run' = [run EXCEPT ![w] =
          [step |-> "written", hash |-> run[w].hash, text |-> run[w].text,
           at |-> run[w].at, old |-> run[w].old, known |-> run[w].known]]
    <3>1. run' = [run EXCEPT ![w].step = "written"]
      BY <1>7 DEF Write
    <3>2. [run[w] EXCEPT !.step = "written"] =
            [step |-> "written", hash |-> run[w].hash, text |-> run[w].text,
             at |-> run[w].at, old |-> run[w].old, known |-> run[w].known]
      BY NewStep
    <3> QED
      BY <3>1, <3>2
  <2>5. GateShape'
    BY <2>1, <2>2, <2>3, <2>4 DEF IsRun
  <2>6. RunsSound'
    BY <2>1, <2>2, <2>4 DEF RunsSound, Known
  <2>8. p \in File =>
          /\ Known(summary[p].hash)'
          /\ p \notin restored /\ ~summary'[p].old /\ disk[p] # Absent
               /\ summary'[p].hash = disk[p] => summary'[p].text = disk[p]
    BY <2>1, <2>2, <2>3 DEF RunsSound, Known
  <2> QED
    BY <2>2, <2>3, <2>5, <2>6, <2>8, FilesArePaths DEF Known, GateSound
<1> QED
  BY <1>1, <1>3, <1>4, <1>5, <1>6, <1>7 DEF Run

LEMMA NextGate ==
  ASSUME GateInv, [PipelineNext]_<<vars, pipeVars>>
  PROVE  GateInv'
<1>1. WatchTyped'
  BY NextWatchTyped DEF GateInv, GateShape
<1>2. TypeInv'
  BY PipelineStepIsQueueStep, NextTypeInv DEF GateInv, GateShape
<1>3. CASE UNCHANGED <<vars, pipeVars>>
  BY <1>1, <1>2, <1>3 DEF vars, pipeVars, diskVars, storeVars, pastVars, GateInv, GateShape,
    RunShape, SummaryTable, Known, RunsSound, GateSound, Summarized
<1>4. CASE Outside
  BY <1>1, <1>2, <1>4, DiskGate, RequestGate
<1> QED
  BY <1>1, <1>2, <1>3, <1>4, QueueGate, RunGate DEF PipelineNext, Outside

\* A file that the freshness gate skips has a summary of the very bytes it has,
\* whatever edits, deletions, re-queues, crashes and other loops come between
\* the hash, the reading and the write (summarize_file), and whether or not
\* chunks are described in the file's stead: unless those chunks were of other
\* bytes than the run had hashed, or the file was given an earlier content back.
THEOREM GateIsSound == PipelineSpec => []GateSound
<1>1. PipelineInit => GateInv
  BY InitGate
<1>2. GateInv /\ [PipelineNext]_<<vars, pipeVars>> => GateInv'
  BY NextGate
<1>3. GateInv => GateSound
  BY DEF GateInv
<1> QED
  BY <1>1, <1>2, <1>3, PTL DEF PipelineSpec

-----------------------------------------------------------------------------
USE DEF EntryState, RowState, Phase, Busy, queueVars, workerVars, Steady, Holds

(* The types of the data.                                                   *)

\* Files, clocks and the watcher; none of this depends on the loops.
FilesTyped ==
  /\ disk \in [File -> Content \cup {Absent}]
  /\ newest \in Content
  /\ mtime \in [Path -> 0..MaxTime]
  /\ clock \in 0..MaxTime
  /\ seen \in [Path -> 0..MaxTime]
  /\ chunks \in [File -> Content \cup {Absent}]
  /\ touched \subseteq ChangeKind \X File
  /\ watch.step \in WatchStep
  /\ WatchTyped
  /\ watch.step = "read" => watch.text \in Content \cup {Absent} /\ watch.time \in 0..MaxTime
  /\ watch.step # "mark" => watch.todo = {}
  /\ lapsed \subseteq Path /\ asked \subseteq Path /\ refreshed \in BOOLEAN
  /\ restored \subseteq File

\* A run knows what it was sent for, and a summary is of the kind of its path.
FileRun(r) ==
  /\ r.hash \in Content \cup {Absent} /\ r.at \in 0..MaxTime
  /\ r.step = "sampled" => r.text \in Content
DirRun(r, d) == DOMAIN r.text \subseteq Children(d)

RunsTyped ==
  /\ RunShape
  /\ \A w \in Worker :
       /\ run[w].step \in RunStep
       /\ run[w].step = "none" => run[w] = NoRun
       /\ run[w].step # "none" => /\ item[w] \in File => FileRun(run[w])
                                  /\ item[w] \in Dir => DirRun(run[w], item[w])
  /\ SummaryTable
  /\ \A f \in File : Summarized(f) =>
       summary[f].hash \in Content \cup {Absent} /\ summary[f].text \in Content
         /\ summary[f].at \in 0..MaxTime
  /\ \A d \in Dir : Summarized(d) => DOMAIN summary[d].text \subseteq Children(d)

LEMMA InitTyped == PipelineInit => FilesTyped /\ RunsTyped
<1> SUFFICES ASSUME PipelineInit PROVE FilesTyped /\ RunsTyped
  OBVIOUS
<1>1. \A f \in File : disk[f] \in {1, Absent}
  BY DEF PipelineInit
<1>2. 1 \in Content /\ 0 \in 0..MaxTime
  BY PipelineAssumption DEF PipelineAssumption, Content
<1>3. FilesTyped
  BY <1>2, InitWatchTyped DEF PipelineInit, FilesTyped, WatchStep, Idle, WatchTyped
<1>4. RunsTyped
  <2>1. \A w \in Worker : run[w] = NoRun /\ run[w].step = "none" /\ IsRun(run[w])
    BY DEF PipelineInit, IsRun, NoRun
  <2>2. \A p \in Path : ~Summarized(p)
    BY DEF PipelineInit, Summarized
  <2>3. run = [w \in Worker |-> run[w]] /\ SummaryTable
    BY DEF PipelineInit, SummaryTable, Summarized
  <2> QED
    BY <2>1, <2>2, <2>3, FilesArePaths, QueueAssumption
    DEF RunsTyped, RunShape, RunStep, QueueAssumption
<1> QED
  BY <1>3, <1>4

LEMMA WriteDiskTyped ==
  ASSUME FilesTyped, NEW f \in File, WriteDisk(f)
  PROVE  /\ disk' \in [File -> Content \cup {Absent}] /\ newest' \in Content
         /\ touched' \subseteq ChangeKind \X File /\ restored' \subseteq File
<1>1. newest' \in Content /\ touched' \subseteq ChangeKind \X File
  BY PipelineAssumption DEF PipelineAssumption, FilesTyped, WriteDisk, Notify, ChangeKind, Content
<1>2. PICK c \in Content : disk' = [disk EXCEPT ![f] = c]
  BY PipelineAssumption DEF PipelineAssumption, FilesTyped, WriteDisk, Content
<1>3. restored' \subseteq File
  BY DEF WriteDisk, FilesTyped
<1> QED
  BY <1>1, <1>2, <1>3 DEF FilesTyped

LEMMA DiskTyped ==
  ASSUME FilesTyped, Disk \/ Tick
  PROVE  FilesTyped'
<1> USE FilesArePaths DEF FilesTyped
<1>1. CASE Tick
  <2>1. clock' \in 0..MaxTime
    BY <1>1, PipelineAssumption DEF Tick, PipelineAssumption
  <2> QED
    BY <1>1, <2>1 DEF Tick, storeVars, watchVars, pastVars, WatchTyped
<1>2. CASE Disk
  <2>1. UNCHANGED <<clock, seen, chunks, watch, asked, lapsed>> /\ refreshed' = FALSE
    BY <1>2 DEF Disk, storeVars
  <2>2. ASSUME NEW f \in File, Edit(f) \/ Create(f) \/ Delete(f)
        PROVE  /\ disk' \in [File -> Content \cup {Absent}] /\ newest' \in Content
               /\ touched' \subseteq ChangeKind \X File /\ mtime' \in [Path -> 0..MaxTime]
               /\ restored' \subseteq File
    <3>1. mtime' \in [Path -> 0..MaxTime]
      BY <2>2 DEF Edit, Create, Delete
    <3>2. CASE Edit(f) \/ Create(f)
      BY <3>1, <3>2, WriteDiskTyped DEF Edit, Create
    <3>3. CASE Delete(f)
      BY <3>1, <3>3 DEF Delete, Notify, ChangeKind
    <3> QED
      BY <2>2, <3>2, <3>3
  <2>3. /\ disk' \in [File -> Content \cup {Absent}] /\ newest' \in Content
        /\ touched' \subseteq ChangeKind \X File /\ mtime' \in [Path -> 0..MaxTime]
        /\ restored' \subseteq File
    BY <1>2, <2>2 DEF Disk
  <2> QED
    BY <2>1, <2>3 DEF WatchTyped
<1> QED
  BY <1>1, <1>2

LEMMA RequestTyped ==
  ASSUME FilesTyped, ScanUpsert \/ ScanPrune \/ EnqueueSubtree \/ Regenerate
                       \/ \E f \in File : Deep(f)
  PROVE  FilesTyped'
<1> USE FilesArePaths DEF FilesTyped, diskVars, storeVars, watchVars, pastVars, WatchTyped
<1>1. CASE ScanUpsert
  BY <1>1 DEF ScanUpsert
<1>2. CASE ScanPrune
  BY <1>2 DEF ScanPrune, Forget
<1>3. CASE EnqueueSubtree
  BY <1>3, QueueAssumption DEF EnqueueSubtree, Ignored, QueueAssumption
<1>4. CASE Regenerate
  BY <1>4, QueueAssumption DEF Regenerate, Ignored, QueueAssumption
<1>5. ASSUME NEW f \in File, Deep(f) PROVE FilesTyped'
  BY <1>5 DEF Deep
<1> QED
  BY <1>1, <1>2, <1>3, <1>4, <1>5

LEMMA WatchFilesTyped ==
  ASSUME FilesTyped, Watch
  PROVE  FilesTyped'
<1>1. WatchTyped'
  BY WatchWatchTyped DEF FilesTyped
<1> USE FilesArePaths DEF FilesTyped, diskVars, storeVars, pastVars, Idle, WatchStep
<1>2. ASSUME NEW f \in File, WatchRead(f) \/ WatchGone(f) PROVE FilesTyped'
  BY <1>1, <1>2 DEF WatchRead, WatchGone, HandleUpsert
<1>3. ASSUME NEW f \in Volatile, WatchRemove(f) PROVE FilesTyped'
  BY <1>1, <1>3 DEF WatchRemove, Forget
<1>4. CASE WatchStore
  <2>1. watch.file \in File /\ watch.text \in Content \cup {Absent} /\ watch.time \in 0..MaxTime
    BY <1>4 DEF WatchStore, WatchTyped
  <2>2. /\ watch' = [Idle EXCEPT !.step = "mark", !.todo = WithAncestors({watch.file})]
        /\ UNCHANGED <<disk, newest, mtime, clock, touched, asked, lapsed, refreshed, restored>>
        /\ seen' = [seen EXCEPT ![watch.file] = watch.time]
        /\ chunks' = [chunks EXCEPT ![watch.file] = watch.text]
    BY <1>4 DEF WatchStore
  <2>3. watch'.step = "mark"
    BY <2>2
  <2> QED
    BY <1>1, <2>1, <2>2, <2>3
<1>5. CASE WatchMark
  <2>1. PICK p \in watch.todo : /\ watch' = IF watch.todo = {p} THEN Idle
                                            ELSE [watch EXCEPT !.todo = @ \ {p}]
                                /\ Ignored({p})
    BY <1>5 DEF WatchMark, Deepest
  <2>2. watch.step = "mark"
    BY <1>5 DEF WatchMark
  <2>3. watch' = Idle \/ watch'.step = "mark"
    <3>1. CASE watch.todo # {p}
      <4>1. watch' = [step |-> watch.step, file |-> watch.file, text |-> watch.text,
                      time |-> watch.time, todo |-> watch.todo \ {p}]
        BY <2>1, <3>1 DEF WatchTyped
      <4> QED
        BY <2>2, <4>1
    <3> QED
      BY <2>1, <3>1
  <2>4. UNCHANGED <<disk, newest, mtime, clock, seen, chunks, touched, asked, refreshed, restored>>
    BY <1>5 DEF WatchMark
  <2>5. lapsed' \subseteq Path
    BY <2>1, QueueAssumption DEF Ignored, QueueAssumption
  <2> QED
    BY <1>1, <2>3, <2>4, <2>5
<1> QED
  BY <1>2, <1>3, <1>4, <1>5 DEF Watch

LEMMA RunFilesTyped ==
  ASSUME FilesTyped, TypeInv, NEW w \in Worker, Run(w)
  PROVE  FilesTyped'
<1>1. UNCHANGED <<disk, newest, mtime, clock, seen, chunks, touched, watch, refreshed, restored>>
  BY DEF Run, BeginFile, RefuseFile, Sample, BeginDir, EmptyAnswer, Write, Complete,
    DescriberError, Advance, pipeVars, diskVars, storeVars, watchVars, pastVars
<1>2. asked' \subseteq asked
  BY DEF Run, BeginFile, RefuseFile, Sample, BeginDir, EmptyAnswer, Write, Complete,
    DescriberError, Advance, pipeVars, pastVars
<1>3. lapsed' \subseteq lapsed \cup {item[w]} /\ (lapsed' # lapsed => item[w] \in Path)
  BY FilesArePaths, QueueAssumption DEF QueueAssumption, Run, BeginFile, RefuseFile, Sample,
    BeginDir, EmptyAnswer, Write, Complete, DescriberError, AtStep, pipeVars, pastVars
<1> QED
  BY <1>1, <1>2, <1>3 DEF FilesTyped, WatchTyped

\* Steps that leave the runs alone or end them, and forget or blank summaries.
LEMMA FrameRuns ==
  ASSUME RunsTyped, RunsCarryOn, SummariesFade
  PROVE  RunsTyped'
<1>1. RunShape'
  BY DEF RunsTyped, RunShape, RunsCarryOn, NoRun, IsRun
<1>2. \A w \in Worker : run'[w] = NoRun \/ (run'[w] = run[w] /\ run[w].step # "none" /\ item'[w] = item[w])
  <2> TAKE w \in Worker
  <2>1. CASE run'[w] = NoRun
    BY <2>1
  <2>2. CASE run'[w] # NoRun /\ run'[w] = run[w]
    BY <2>2 DEF RunsTyped, RunsCarryOn, NoRun
  <2> QED
    BY <2>1, <2>2 DEF RunsCarryOn
<1>3. \A w \in Worker : /\ run'[w].step \in RunStep
                        /\ run'[w].step = "none" => run'[w] = NoRun
                        /\ run'[w].step # "none" =>
                             /\ item'[w] \in File => FileRun(run'[w])
                             /\ item'[w] \in Dir => DirRun(run'[w], item'[w])
  <2> TAKE w \in Worker
  <2>1. CASE run'[w] = NoRun
    BY <2>1 DEF NoRun, RunStep
  <2>2. CASE run'[w] = run[w] /\ run[w].step # "none" /\ item'[w] = item[w]
    BY <2>2 DEF RunsTyped
  <2> QED
    BY <1>2, <2>1, <2>2
<1>4. SummaryTable'
  BY FadedTable DEF RunsTyped
<1>5. \A p \in Path : Summarized(p)' => /\ Summarized(p)
                                        /\ summary'[p].hash \in {summary[p].hash, Absent}
                                        /\ summary'[p].text = summary[p].text
                                        /\ summary'[p].at = summary[p].at
  BY DEF SummariesFade, Summarized
<1>6. \A f \in File : Summarized(f)' =>
        summary'[f].hash \in Content \cup {Absent} /\ summary'[f].text \in Content
          /\ summary'[f].at \in 0..MaxTime
  BY <1>5, FilesArePaths DEF RunsTyped
<1>7. \A d \in Dir : Summarized(d)' => DOMAIN summary'[d].text \subseteq Children(d)
  BY <1>5, QueueAssumption DEF RunsTyped, QueueAssumption
<1> QED
  BY <1>1, <1>3, <1>4, <1>6, <1>7 DEF RunsTyped, FileRun, DirRun

\* A run goes on to its next step, or begins.
LEMMA AdvanceRuns ==
  ASSUME RunsTyped, NEW w \in Worker, NEW r, phase[w] = "running", Advance(w, r), IsRun(r),
         r.step \in RunStep \ {"none"},
         item[w] \in File => FileRun(r),
         item[w] \in Dir => DirRun(r, item[w])
  PROVE  RunsTyped'
<1>1. /\ UNCHANGED <<phase, item, summary>>
      /\ run' = [run EXCEPT ![w] = r]
  BY DEF Advance, vars, storeVars
<1>2. RunShape'
  BY <1>1 DEF RunsTyped, RunShape
<1>3. run'[w] = r /\ \A v \in Worker : v # w => run'[v] = run[v]
  BY <1>1 DEF RunsTyped, RunShape
<1>4. \A v \in Worker : /\ run'[v].step \in RunStep
                        /\ run'[v].step = "none" => run'[v] = NoRun
                        /\ run'[v].step # "none" =>
                             /\ item[v] \in File => FileRun(run'[v])
                             /\ item[v] \in Dir => DirRun(run'[v], item[v])
  BY <1>3 DEF RunsTyped
<1> QED
  BY <1>1, <1>2, <1>4 DEF RunsTyped, SummaryTable, Summarized, FileRun, DirRun

LEMMA FileOrDir ==
  ASSUME TypeInv, NEW w \in Worker, phase[w] = "running"
  PROVE  item[w] \in Path /\ (item[w] \in File <=> item[w] \notin Dir)
BY DEF TypeInv, TypeOK, File

LEMMA RunRunsTyped ==
  ASSUME FilesTyped, RunsTyped, TypeInv, NEW w \in Worker, Run(w)
  PROVE  RunsTyped'
<1>0. RunShape
  BY DEF RunsTyped
<1>1. CASE Ending(w)
  <2>1. RunsCarryOn
    BY <1>0, <1>1, EndingRuns
  <2>2. UNCHANGED summary
    BY <1>1 DEF Ending, RefuseFile, Complete, DescriberError, pipeVars, storeVars
  <2> QED
    BY <2>1, <2>2, FrameRuns, Fading DEF RunsTyped
<1>2. CASE BeginFile(w)
  <2>1. item[w] \in File /\ phase[w] = "running"
    BY <1>2 DEF BeginFile, AtStep
  <2>2. PICK r : /\ Advance(w, r) /\ IsRun(r) /\ r.step \in {"skip", "gated"}
                 /\ r.hash = disk[item[w]] /\ r.at = clock
    BY <1>2 DEF BeginFile, IsRun
  <2>3. FileRun(r) /\ item[w] \notin Dir
    BY <2>1, <2>2, FilesArePaths DEF FileRun, FilesTyped, File
  <2> QED
    BY <2>1, <2>2, <2>3, AdvanceRuns DEF RunStep
<1>3. CASE Sample(w)
  <2>1. item[w] \in File /\ phase[w] = "running" /\ FileRun(run[w]) /\ item[w] \notin Dir
    BY <1>3 DEF Sample, AtStep, RunsTyped, File
  <2>2. SampleOf(item[w]) \in Content \cup {Absent}
    BY <2>1 DEF SampleOf, FilesTyped
  <2>3. PICK r : /\ Advance(w, r) /\ IsRun(r)
                 /\ r.step = IF SampleOf(item[w]) = Absent THEN "empty" ELSE "sampled"
                 /\ r.hash = run[w].hash /\ r.at = run[w].at /\ r.text = SampleOf(item[w])
    BY <1>3 DEF Sample, IsRun
  <2>4. FileRun(r)
    BY <2>1, <2>2, <2>3 DEF FileRun
  <2> QED
    BY <2>1, <2>3, <2>4, AdvanceRuns DEF RunStep
<1>4. CASE BeginDir(w)
  <2>1. item[w] \in Dir /\ phase[w] = "running" /\ item[w] \notin File
    BY <1>4 DEF BeginDir, AtStep, File
  <2>2. PICK r : /\ Advance(w, r) /\ IsRun(r) /\ r.step \in {"empty", "skip", "sampled"}
                 /\ r.text = RollUp(item[w])
    BY <1>4 DEF BeginDir, IsRun
  <2>3. DirRun(r, item[w])
    BY <2>2 DEF DirRun, RollUp, SummarizedChildren
  <2> QED
    BY <2>1, <2>2, <2>3, AdvanceRuns DEF RunStep
<1>5. CASE EmptyAnswer(w)
  <2>1. phase[w] = "running" /\ run[w].step = "sampled" /\ IsRun(run[w])
    BY <1>5 DEF EmptyAnswer, AtStep, RunsTyped, RunShape
  <2>2. PICK r : Advance(w, r) /\ IsRun(r) /\ r.step = "empty"
                 /\ r.hash = run[w].hash /\ r.text = run[w].text /\ r.at = run[w].at
    BY <1>5, <2>1, NewStep DEF EmptyAnswer, IsRun
  <2>3. /\ item[w] \in File => FileRun(r)
        /\ item[w] \in Dir => DirRun(r, item[w])
    BY <2>1, <2>2 DEF RunsTyped, FileRun, DirRun
  <2> QED
    BY <2>1, <2>2, <2>3, AdvanceRuns DEF RunStep
<1>6. CASE Write(w)
  <2> DEFINE p == item[w]
             r == [step |-> "written", hash |-> run[w].hash, text |-> run[w].text,
                   at |-> run[w].at, old |-> run[w].old, known |-> run[w].known]
             s == [hash |-> run[w].hash, text |-> run[w].text, at |-> run[w].at,
                   old |-> run[w].old, orphaned |-> run[w].known /\ entry[p] = "none"]
  <2>1. /\ phase[w] = "running" /\ run[w].step = "sampled" /\ p \in Path
        /\ UNCHANGED <<phase, item>>
        /\ run' = [run EXCEPT ![w].step = "written"]
        /\ Upsert(p, s)
    BY <1>6 DEF Write, AtStep, vars
  <2>2. run'[w] = r /\ \A v \in Worker : v # w => run'[v] = run[v]
    <3>1. IsRun(run[w])
      BY DEF RunsTyped, RunShape
    <3> QED
      BY <2>1, <3>1, NewStep DEF RunsTyped, RunShape
  <2>3. /\ p \in File => s.hash \in Content \cup {Absent} /\ s.text \in Content /\ s.at \in 0..MaxTime
        /\ p \in Dir => DOMAIN s.text \subseteq Children(p)
    BY <2>1 DEF RunsTyped, FileRun, DirRun
  <2>4. IsRun(r) /\ IsSummary(s) /\ r.step = "written" /\ r.hash = run[w].hash
        /\ r.text = run[w].text /\ r.at = run[w].at
    BY DEF IsRun, IsSummary
  <2> HIDE DEF r, s
  <2>5. RunShape'
    BY <2>1, <2>2, <2>4 DEF RunsTyped, RunShape
  <2>6. \A v \in Worker : /\ run'[v].step \in RunStep
                          /\ run'[v].step = "none" => run'[v] = NoRun
                          /\ run'[v].step # "none" =>
                               /\ item[v] \in File => FileRun(run'[v])
                               /\ item[v] \in Dir => DirRun(run'[v], item[v])
    BY <2>1, <2>2, <2>4 DEF RunsTyped, FileRun, DirRun, RunStep
  <2>7. /\ SummaryTable' /\ summary'[p] = s
        /\ \A q \in Path : q # p /\ Summarized(q)' => Summarized(q) /\ summary'[q] = summary[q]
    BY <2>1, <2>4, Stored DEF RunsTyped
  <2>9. \A f \in File : Summarized(f)' =>
          summary'[f].hash \in Content \cup {Absent} /\ summary'[f].text \in Content
            /\ summary'[f].at \in 0..MaxTime
    BY <2>3, <2>7, FilesArePaths DEF RunsTyped
  <2>10. \A d \in Dir : Summarized(d)' => DOMAIN summary'[d].text \subseteq Children(d)
    BY <2>3, <2>7, QueueAssumption DEF RunsTyped, QueueAssumption
  <2> QED
    BY <2>1, <2>5, <2>6, <2>7, <2>9, <2>10 DEF RunsTyped, FileRun, DirRun
<1> QED
  BY <1>1, <1>2, <1>3, <1>4, <1>5, <1>6 DEF Run, Ending

LEMMA OutsideCarryOn ==
  ASSUME RunShape, \A w \in Worker : run[w].step = "none" => run[w] = NoRun, Outside
  PROVE  RunsCarryOn
<1>1. UNCHANGED <<run, phase, item>>
  BY OutsideRuns
<1> QED
  BY <1>1 DEF RunShape, RunsCarryOn

LEMMA OutsideFade ==
  ASSUME RunsTyped, Outside
  PROVE  SummariesFade
<1>1. UNCHANGED summary \/ (\E S : Forget(S)) \/ Regenerate
  BY DEF Outside, Disk, Tick, Watch, WatchRead, WatchGone, WatchRemove,
    WatchStore, WatchMark, ScanUpsert, ScanPrune, EnqueueSubtree, Deep, storeVars
<1> QED
  BY <1>1, Fading DEF RunsTyped

DataTyped == TypeInv /\ FilesTyped /\ RunsTyped

LEMMA NextTyped == DataTyped /\ [PipelineNext]_<<vars, pipeVars>> => DataTyped'
<1> SUFFICES ASSUME DataTyped, [PipelineNext]_<<vars, pipeVars>> PROVE DataTyped'
  OBVIOUS
<1>1. TypeInv'
  BY PipelineStepIsQueueStep, NextTypeInv DEF DataTyped, FilesTyped
<1>2. FilesTyped'
  <2>1. CASE UNCHANGED <<disk, newest, mtime, clock, seen, chunks, touched, watch, asked, lapsed, refreshed, restored>>
    BY <2>1 DEF DataTyped, FilesTyped, WatchTyped
  <2>2. QueueStep => UNCHANGED <<disk, newest, mtime, clock, seen, chunks, touched, watch, asked, lapsed, refreshed, restored>>
    BY DEF QueueStep, diskVars, storeVars, watchVars, pastVars
  <2> QED
    BY <2>1, <2>2, RunFilesTyped, DiskTyped, RequestTyped, WatchFilesTyped
    DEF PipelineNext, DataTyped, pipeVars, diskVars, storeVars, watchVars, pastVars
<1>3. RunsTyped'
  <2>1. CASE UNCHANGED <<vars, pipeVars>>
    <3>1. RunsCarryOn /\ SummariesFade
      BY <2>1, Fading DEF vars, pipeVars, storeVars, DataTyped, RunsTyped, RunShape, RunsCarryOn
    <3> QED
      BY <3>1, FrameRuns DEF DataTyped
  <2>2. CASE QueueStep
    <3>1. SummariesFade
      BY <2>2, Fading DEF QueueStep, storeVars, DataTyped, RunsTyped
    <3> QED
      BY <2>2, <3>1, QueueRuns, FrameRuns DEF DataTyped, RunsTyped
  <2>3. CASE Outside
    BY <2>3, OutsideCarryOn, OutsideFade, FrameRuns DEF DataTyped, RunsTyped
  <2> QED
    BY <2>1, <2>2, <2>3, RunRunsTyped DEF PipelineNext, DataTyped, Outside
<1> QED
  BY <1>1, <1>2, <1>3 DEF DataTyped

\* All the data keeps its type; in particular a run knows what kind of path it has in
\* hand, and a roll-up is of children of its directory only.
THEOREM PipelineTypes == PipelineSpec => []PipelineTypeOK
<1>1. PipelineInit => DataTyped
  BY InitTyped, InitTypeInv DEF PipelineInit, DataTyped
<1>2. DataTyped => PipelineTypeOK
  BY DEF DataTyped, PipelineTypeOK, FilesTyped, RunsTyped, RunShape, SummaryTable, WatchTyped
<1> QED
  BY <1>1, <1>2, NextTyped, PTL DEF PipelineSpec

\* The steps that leave the loops' runs to themselves and the summaries at most poorer.
LEMMA OrderlyStep ==
  ASSUME DataTyped, [PipelineNext]_<<vars, pipeVars>>,
         ~ \E w \in Worker : Run(w) /\ ~Ending(w)
  PROVE  RunsCarryOn /\ SummariesFade
<1>1. CASE UNCHANGED <<vars, pipeVars>>
  BY <1>1, Fading DEF vars, pipeVars, storeVars, DataTyped, RunsTyped, RunShape, RunsCarryOn
<1>2. CASE QueueStep
  <2>1. SummariesFade
    BY <1>2, Fading DEF QueueStep, storeVars, DataTyped, RunsTyped
  <2> QED
    BY <1>2, <2>1, QueueRuns DEF DataTyped, RunsTyped
<1>3. CASE Outside
  BY <1>3, OutsideCarryOn, OutsideFade DEF DataTyped, RunsTyped
<1>4. ASSUME NEW w \in Worker, Ending(w) PROVE RunsCarryOn /\ SummariesFade
  <2>1. UNCHANGED summary
    BY <1>4 DEF Ending, RefuseFile, Complete, DescriberError, pipeVars, storeVars
  <2> QED
    BY <1>4, <2>1, EndingRuns, Fading DEF DataTyped, RunsTyped
<1> QED
  BY <1>1, <1>2, <1>3, <1>4 DEF PipelineNext, Outside

-----------------------------------------------------------------------------
(* An edit during a run is seen by its time stamp.                          *)

\* What was hashed, or shown to the describer, is what the file has, or the file was
\* written no earlier than the run's stamp.
Foreseen(f, text, at) == disk[f] = Absent \/ text = disk[f] \/ mtime[f] >= at
StillForeseen(f, text, at) == disk'[f] = Absent \/ text = disk'[f] \/ mtime'[f] >= at

StaleInv ==
  /\ DataTyped
  /\ \A f \in File : mtime[f] <= clock
  /\ \A f \in File : Summarized(f) =>
       /\ summary[f].at <= clock
       /\ ~summary[f].old => Foreseen(f, summary[f].text, summary[f].at)
  /\ \A w \in Worker : run[w].step # "none" /\ item[w] \in File =>
       /\ run[w].at <= clock
       /\ Foreseen(item[w], run[w].hash, run[w].at)
       /\ run[w].step = "sampled" /\ ~run[w].old =>
            Foreseen(item[w], run[w].text, run[w].at)

LEMMA InitStale == PipelineInit => StaleInv
<1> SUFFICES ASSUME PipelineInit PROVE StaleInv
  OBVIOUS
<1>1. DataTyped
  BY InitTyped, InitTypeInv DEF PipelineInit, DataTyped
<1> QED
  BY <1>1, FilesArePaths DEF PipelineInit, StaleInv, Summarized, NoRun

\* Whatever happens to the files and the clock, what was foreseen stays so.
LEMMA TimePasses ==
  ASSUME StaleInv, DataTyped', [PipelineNext]_<<vars, pipeVars>>
  PROVE  /\ clock <= clock'
         /\ \A f \in File : mtime'[f] <= clock'
         /\ \A f \in File, at \in Nat : at <= clock => at <= clock'
         /\ \A f \in File, at \in Nat : \A text :
              at <= clock /\ Foreseen(f, text, at) => StillForeseen(f, text, at)
<1> USE FilesArePaths
<1>1. \A f \in File : mtime[f] \in Nat /\ clock \in Nat /\ clock' \in Nat /\ mtime'[f] \in Nat
  BY PipelineAssumption DEF StaleInv, DataTyped, FilesTyped, PipelineAssumption
<1>2. CASE Disk
  <2>1. clock' = clock
    BY <1>2 DEF Disk
  <2>2. ASSUME NEW g \in File, WriteDisk(g)
        PROVE  \A f \in File : f # g => disk'[f] = disk[f]
    BY <2>2 DEF WriteDisk, StaleInv, DataTyped, FilesTyped
  <2>3. \A f \in File : /\ mtime'[f] \in {mtime[f], clock}
                        /\ disk'[f] = disk[f] \/ disk'[f] = Absent \/ mtime'[f] = clock
    <3>1. ASSUME NEW g \in File, Edit(g) \/ Create(g) PROVE <2>3
      <4>1. /\ \A f \in File : f # g => disk'[f] = disk[f]
            /\ \A f \in File : mtime'[f] \in {mtime[f], clock}
            /\ mtime'[g] = clock
        BY <2>2, <3>1 DEF Edit, Create, StaleInv, DataTyped, FilesTyped
      <4> QED
        BY <4>1
    <3>2. ASSUME NEW g \in File, Delete(g) PROVE <2>3
      BY <3>2 DEF Delete, StaleInv, DataTyped, FilesTyped
    <3> QED
      BY <1>2, <3>1, <3>2 DEF Disk
  <2>4. /\ clock \in Nat
        /\ \A f \in File : mtime'[f] <= clock' /\ mtime[f] <= clock /\ mtime'[f] >= mtime[f]
    <3>1. clock \in Nat
      BY PipelineAssumption DEF PipelineAssumption, StaleInv, DataTyped, FilesTyped
    <3> QED
      BY <1>1, <2>1, <2>3, <3>1 DEF StaleInv
  <2>5. ASSUME NEW f \in File, NEW at \in Nat, NEW text, at <= clock, Foreseen(f, text, at)
        PROVE  StillForeseen(f, text, at)
    <3>1. CASE disk'[f] = Absent
      BY <3>1 DEF Foreseen, StillForeseen
    <3>2. CASE mtime'[f] = clock
      BY <2>5, <3>2 DEF Foreseen, StillForeseen
    <3>3. CASE disk'[f] = disk[f] /\ mtime'[f] = mtime[f]
      BY <2>5, <3>3 DEF Foreseen, StillForeseen
    <3> QED
      BY <2>3, <3>1, <3>2, <3>3
  <2> QED
    BY <1>1, <2>1, <2>4, <2>5
<1>3. CASE Tick
  <2>1. clock' = clock + 1 /\ UNCHANGED <<disk, mtime>>
    BY <1>3 DEF Tick
  <2>2. \A f \in File, at \in Nat : \A text : Foreseen(f, text, at) => StillForeseen(f, text, at)
    BY <2>1 DEF Foreseen, StillForeseen
  <2>3. clock <= clock' /\ \A f \in File : mtime[f] <= clock => mtime'[f] <= clock'
    <3>1. clock \in Nat
      BY PipelineAssumption DEF PipelineAssumption, StaleInv, DataTyped, FilesTyped
    <3> QED
      BY <1>1, <2>1, <3>1
  <2>4. \A at \in Nat : at <= clock => at <= clock'
    <3>1. clock \in Nat
      BY PipelineAssumption DEF PipelineAssumption, StaleInv, DataTyped, FilesTyped
    <3> QED
      BY <2>1, <3>1
  <2> QED
    BY <2>2, <2>3, <2>4 DEF StaleInv
<1>4. CASE UNCHANGED <<disk, mtime, clock>>
  <2>1. \A f \in File, at \in Nat : \A text : Foreseen(f, text, at) => StillForeseen(f, text, at)
    BY <1>4 DEF Foreseen, StillForeseen
  <2>2. clock <= clock'
    BY <1>4, PipelineAssumption DEF PipelineAssumption, StaleInv, DataTyped, FilesTyped
  <2> QED
    BY <1>4, <2>1, <2>2 DEF StaleInv
<1>5. UNCHANGED <<disk, mtime, clock>> \/ Disk \/ Tick
  BY DEF PipelineNext, pipeVars, QueueStep, diskVars, Run, BeginFile, RefuseFile, Sample, BeginDir,
    EmptyAnswer, Write, Complete, DescriberError, Advance, Watch, WatchRead, WatchGone, WatchRemove,
    WatchStore, WatchMark, ScanUpsert, ScanPrune, EnqueueSubtree, Regenerate, Deep
<1> QED
  BY <1>2, <1>3, <1>4, <1>5

LEMMA RunStale ==
  ASSUME StaleInv, DataTyped', NEW w \in Worker, Run(w), ~Ending(w)
  PROVE  StaleInv'
<1> USE FilesArePaths
<1>0. RunShape /\ RunsTyped /\ FilesTyped /\ TypeInv
  BY DEF StaleInv, DataTyped, RunsTyped
<1>1. UNCHANGED <<disk, mtime, clock, item>>
  BY DEF Run, Ending, BeginFile, Sample, BeginDir, EmptyAnswer, Write, Advance, vars, diskVars
<1>2. \A v \in Worker : v # w => run'[v] = run[v]
  BY <1>0 DEF Run, Ending, BeginFile, Sample, BeginDir, EmptyAnswer, Write, Advance, RunShape
<1>3. ASSUME item[w] \in File
      PROVE  /\ run'[w].at <= clock
             /\ Foreseen(item[w], run'[w].hash, run'[w].at)
             /\ run'[w].step = "sampled" /\ ~run'[w].old =>
                  Foreseen(item[w], run'[w].text, run'[w].at)
  <2>1. CASE BeginFile(w)
    <3>1. run'[w].at = clock /\ run'[w].hash = disk[item[w]] /\ run'[w].step # "sampled"
      BY <1>0, <2>1 DEF BeginFile, Advance, RunShape
    <3>2. clock <= clock
      BY <1>0, PipelineAssumption DEF FilesTyped, PipelineAssumption
    <3> QED
      BY <3>1, <3>2 DEF Foreseen
  <2>2. CASE Sample(w)
    <3>1. /\ run[w].step # "none"
          /\ run'[w].hash = run[w].hash /\ run'[w].at = run[w].at
          /\ run'[w].text = SampleOf(item[w])
          /\ run'[w].old = (chunks[item[w]] \notin {Absent, run[w].hash})
      BY <1>0, <2>2 DEF Sample, AtStep, Advance, RunShape
    <3>2. run'[w].old \/ run'[w].text \in {disk[item[w]], run[w].hash}
      BY <3>1 DEF SampleOf
    <3> QED
      BY <1>3, <3>1, <3>2 DEF StaleInv, Foreseen
  <2>3. CASE EmptyAnswer(w) \/ Write(w)
    <3>1. IsRun(run[w]) /\ run[w].step = "sampled"
      BY <1>0, <2>3 DEF RunShape, EmptyAnswer, Write, AtStep
    <3>2. PICK s : s # "sampled" /\ run' = [run EXCEPT ![w] = [run[w] EXCEPT !.step = s]]
      BY <2>3 DEF EmptyAnswer, Write, Advance
    <3>3. run'[w] = [step |-> s, hash |-> run[w].hash, text |-> run[w].text, at |-> run[w].at,
                     old |-> run[w].old, known |-> run[w].known]
      BY <1>0, <3>1, <3>2, NewStep DEF RunShape
    <3> QED
      BY <1>3, <3>1, <3>2, <3>3 DEF StaleInv
  <2>4. ~BeginDir(w)
    BY <1>3 DEF BeginDir, AtStep, File
  <2> QED
    BY <2>1, <2>2, <2>3, <2>4 DEF Run, Ending
<1>4. \A f \in File : Summarized(f)' =>
        /\ summary'[f].at <= clock
        /\ ~summary'[f].old => Foreseen(f, summary'[f].text, summary'[f].at)
  <2>1. CASE Write(w)
    <3> DEFINE s == [hash |-> run[w].hash, text |-> run[w].text, at |-> run[w].at,
                     old |-> run[w].old,
                     orphaned |-> run[w].known /\ entry[item[w]] = "none"]
    <3>1. run[w].step = "sampled" /\ item[w] \in Path /\ Upsert(item[w], s)
      BY <2>1 DEF Write, AtStep
    <3>2. /\ summary'[item[w]].at = run[w].at /\ summary'[item[w]].text = run[w].text
          /\ summary'[item[w]].old = run[w].old
          /\ \A p \in Path : p # item[w] /\ Summarized(p)' =>
               Summarized(p) /\ summary'[p] = summary[p]
      BY <1>0, <3>1, Stored DEF RunsTyped, IsSummary
    <3> QED
      BY <3>1, <3>2 DEF StaleInv
  <2>2. CASE UNCHANGED summary
    BY <2>2 DEF StaleInv, Summarized
  <2> QED
    BY <2>1, <2>2 DEF Run, Ending, BeginFile, Sample, BeginDir, EmptyAnswer, Advance, storeVars
<1> QED
  BY <1>1, <1>2, <1>3, <1>4 DEF StaleInv, Foreseen

LEMMA NextStale ==
  ASSUME StaleInv, [PipelineNext]_<<vars, pipeVars>>
  PROVE  StaleInv'
<1>1. DataTyped'
  BY NextTyped DEF StaleInv
<1>2. CASE ~ \E w \in Worker : Run(w) /\ ~Ending(w)
  <2>1. RunsCarryOn /\ SummariesFade
    BY <1>2, OrderlyStep DEF StaleInv
  <2>2. ASSUME NEW f \in File, Summarized(f)'
        PROVE  /\ summary'[f].at <= clock'
               /\ ~summary'[f].old => StillForeseen(f, summary'[f].text, summary'[f].at)
    <3>1. /\ Summarized(f) /\ summary'[f].text = summary[f].text
          /\ summary'[f].at = summary[f].at /\ summary'[f].old = summary[f].old
      BY <2>1, <2>2, FilesArePaths DEF SummariesFade, Summarized
    <3>2. summary[f].at \in Nat /\ summary[f].at <= clock
      BY <3>1 DEF StaleInv, DataTyped, RunsTyped
    <3>3. ~summary[f].old => Foreseen(f, summary[f].text, summary[f].at)
      BY <3>1 DEF StaleInv
    <3>4. summary[f].at <= clock'
      BY <1>1, <3>2, TimePasses
    <3>5. ASSUME ~summary[f].old PROVE StillForeseen(f, summary[f].text, summary[f].at)
      BY <1>1, <3>2, <3>3, <3>5, TimePasses
    <3> QED
      BY <3>1, <3>4, <3>5
  <2>3. ASSUME NEW w \in Worker, run'[w].step # "none", item'[w] \in File
        PROVE  /\ run'[w].at <= clock'
               /\ StillForeseen(item'[w], run'[w].hash, run'[w].at)
               /\ run'[w].step = "sampled" /\ ~run'[w].old =>
                    StillForeseen(item'[w], run'[w].text, run'[w].at)
    <3>1. run'[w] = run[w] /\ item'[w] = item[w]
      BY <2>1, <2>3 DEF RunsCarryOn
    <3>2. run[w].at \in Nat /\ run[w].at <= clock
      BY <2>3, <3>1 DEF StaleInv, DataTyped, RunsTyped, FileRun
    <3>3. /\ Foreseen(item[w], run[w].hash, run[w].at)
          /\ run[w].step = "sampled" /\ ~run[w].old =>
               Foreseen(item[w], run[w].text, run[w].at)
      BY <2>3, <3>1 DEF StaleInv
    <3>4. run[w].at <= clock'
      BY <1>1, <2>3, <3>1, <3>2, TimePasses
    <3>5. \A text : Foreseen(item[w], text, run[w].at) => StillForeseen(item[w], text, run[w].at)
      BY <1>1, <2>3, <3>1, <3>2, TimePasses
    <3> QED
      BY <3>1, <3>3, <3>4, <3>5
  <2>4. \A f \in File : mtime'[f] <= clock'
    BY <1>1, TimePasses
  <2> QED
    BY <1>1, <2>2, <2>3, <2>4 DEF StaleInv, Foreseen, StillForeseen
<1> QED
  BY <1>1, <1>2, RunStale DEF StaleInv

\* A summary of other bytes than the file has carries a stamp no later than the
\* file's mtime, however the edits, runs, crashes and requests interleave and whether
\* or not chunks are described in the file's stead, unless those were of other bytes
\* than the run had hashed: the run is stamped before it hashes and reads, so the
\* next enqueue_subtree that has seen the mtime finds the file stale
\* (summarize_file, stale_summarized_paths).
THEOREM StaleSeen == PipelineSpec => []StaleIsSeen
<1>1. PipelineInit => StaleInv
  BY InitStale
<1>2. StaleInv /\ [PipelineNext]_<<vars, pipeVars>> => StaleInv'
  BY NextStale
<1>3. StaleInv => StaleIsSeen
  BY DEF StaleInv, StaleIsSeen, Foreseen
<1> QED
  BY <1>1, <1>2, <1>3, PTL DEF PipelineSpec

-----------------------------------------------------------------------------
(* Entries and rows.                                                        *)

\* Entries come by an upsert and go by a removal; nothing else writes them.
LEMMA EntrySteps ==
  ASSUME WatchTyped, [PipelineNext]_<<vars, pipeVars>>
  PROVE  \/ UNCHANGED entry
         \/ Outside /\ \E S \in SUBSET Path : UpsertEntries(S, "ok")
         \/ Outside /\ May("remove") /\ \E S \in SUBSET Volatile : Forget(S)
<1>1. CASE UNCHANGED <<vars, pipeVars>> \/ Disk \/ Tick
  BY <1>1 DEF vars, Disk, Tick
<1>2. CASE QueueStep
  BY <1>2 DEF QueueStep, Queue, Claim, CheckAllowed, DeleteOrphan, CheckSubtree,
    CheckSubtreeReadError, Defer, StartJob, EndJob, StoreErrorMarked, StoreErrorUnmarked,
    Boot, Crash
<1>3. ASSUME NEW w \in Worker, Run(w) PROVE UNCHANGED entry
  BY <1>3 DEF Run, BeginFile, RefuseFile, Sample, BeginDir, EmptyAnswer, Write, Complete,
    DescriberError, Advance, vars, FinishAs
<1>4. CASE ScanUpsert \/ \E f \in File : Deep(f)
  <2>1. Present \in SUBSET Path /\ \A f \in File : {f} \in SUBSET Path
    BY FilesArePaths DEF Present
  <2> QED
    BY <1>4, <2>1 DEF Outside, ScanUpsert, Deep
<1>5. CASE ScanPrune
  BY <1>5 DEF Outside, ScanPrune
<1>6. CASE EnqueueSubtree \/ Regenerate
  BY <1>6 DEF EnqueueSubtree, Regenerate, MarkForResummary
<1>7. CASE Watch
  <2>1. ASSUME NEW f \in Volatile, WatchRemove(f)
        PROVE  May("remove") /\ \E S \in SUBSET Volatile : Forget(S)
    <3>1. {f} \in SUBSET Volatile
      OBVIOUS
    <3> QED
      BY <2>1, <3>1 DEF WatchRemove
  <2>2. CASE WatchStore
    <3>1. {watch.file} \in SUBSET Path /\ UpsertEntries({watch.file}, "ok")
      BY <2>2, FilesArePaths DEF WatchStore, WatchTyped
    <3> QED
      BY <1>7, <3>1 DEF Outside
  <2>3. ASSUME NEW f \in File, WatchRead(f) \/ WatchGone(f) PROVE UNCHANGED entry
    BY <2>3 DEF WatchRead, WatchGone, vars
  <2>4. CASE WatchMark
    BY <2>4 DEF WatchMark, MarkForResummary
  <2> QED
    BY <1>7, <2>1, <2>2, <2>3, <2>4, FilesArePaths DEF Outside, Watch
<1> QED
  BY <1>1, <1>2, <1>3, <1>4, <1>5, <1>6, <1>7 DEF PipelineNext

\* A secret is never queued, so no loop ever has one in hand.
SecretsUnqueued ==
  /\ \A p \in Sensitive : state[p] = "none"
  /\ \A w \in Worker : item[w] \notin Sensitive

LEMMA NextSecrets ==
  ASSUME TypeInv, SecretsUnqueued, [Next]_vars
  PROVE  SecretsUnqueued'
<1> USE QueueAssumption DEF QueueAssumption, SecretsUnqueued, TypeInv, TypeOK, Event
<1>1. ASSUME NEW w \in Worker, Step(w) \/ Fault(w) PROVE SecretsUnqueued'
  <2>1. CASE Claim(w)
    BY <2>1 DEF Claim, Pending, Deepest
  <2>2. CASE CheckAllowed(w) \/ CheckSubtree(w) \/ CheckSubtreeReadError(w)
    BY <2>2 DEF CheckAllowed, CheckSubtree, CheckSubtreeReadError
  <2>3. CASE DeleteOrphan(w)
    BY <2>3 DEF DeleteOrphan, DropRow, Release
  <2>5. CASE Defer(w)
    BY <2>5 DEF Defer, MarkRow, Release
  <2>6. CASE StoreErrorMarked(w) \/ StoreErrorUnmarked(w)
    BY <2>6 DEF StoreErrorMarked, StoreErrorUnmarked, MarkRow, Release
  <2>4. CASE Finish(w)
    BY <2>4 DEF Finish, FinishAs, MarkRow, Release
  <2> QED
    BY <1>1, <2>1, <2>2, <2>3, <2>4, <2>5, <2>6 DEF Step, Fault
<1>2. ASSUME NEW w \in Worker, StartJob(w) \/ EndJob(w) PROVE SecretsUnqueued'
  BY <1>2 DEF StartJob, EndJob
<1>3. ASSUME NEW pr \in Proc, Boot(pr) \/ Crash(pr) PROVE SecretsUnqueued'
  <2>1. CASE Boot(pr)
    BY <2>1 DEF Boot, Sweep, Swept
  <2>2. CASE Crash(pr)
    BY <2>2 DEF Crash
  <2> QED
    BY <1>3, <2>1, <2>2
<1>4. CASE Environment
  BY <1>4 DEF Environment, Enqueue, MarkForResummary, Retry, MarkRow, UpsertEntries,
    DeleteEntries, PruneOrphans, DropRows, Allowed
<1>5. CASE UNCHANGED vars
  BY <1>5 DEF vars
<1> QED
  BY <1>1, <1>2, <1>3, <1>4, <1>5 DEF Next

RowInv ==
  /\ DataTyped
  /\ \A p \in Path : entry[p] \in {"ok", "none"}
  /\ LastingEntries
  /\ SecretsUnqueued

LEMMA InitRow == PipelineInit => RowInv
<1> SUFFICES ASSUME PipelineInit PROVE RowInv
  OBVIOUS
<1>1. DataTyped
  BY InitTyped, InitTypeInv DEF PipelineInit, DataTyped
<1> QED
  BY <1>1, QueueAssumption
  DEF PipelineInit, Init, RowInv, LastingEntries, SecretsUnqueued, QueueAssumption

LEMMA NextRow == RowInv /\ [PipelineNext]_<<vars, pipeVars>> => RowInv'
<1> SUFFICES ASSUME RowInv, [PipelineNext]_<<vars, pipeVars>> PROVE RowInv'
  OBVIOUS
<1>1. DataTyped' /\ WatchTyped
  BY NextTyped DEF RowInv, DataTyped, FilesTyped
<1>2. SecretsUnqueued'
  BY <1>1, PipelineStepIsQueueStep, NextSecrets DEF RowInv, DataTyped
<1>3. CASE UNCHANGED entry
  BY <1>1, <1>2, <1>3 DEF RowInv, LastingEntries
<1>4. ASSUME NEW S \in SUBSET Path, UpsertEntries(S, "ok") PROVE RowInv'
  BY <1>1, <1>2, <1>4 DEF UpsertEntries, RowInv, LastingEntries
<1>5. ASSUME NEW S \in SUBSET Volatile, Forget(S) PROVE RowInv'
  BY <1>1, <1>2, <1>5 DEF Forget, DeleteEntries, RowInv, LastingEntries
<1> QED
  BY <1>1, <1>3, <1>4, <1>5, EntrySteps

LEMMA AlwaysRow == PipelineSpec => []RowInv
BY InitRow, NextRow, PTL DEF PipelineSpec

\* A loop in the middle of a run holds its item.
LEMMA BusyHolds ==
  ASSUME DataTyped, NEW w \in Worker, run[w].step # "none"
  PROVE  item[w] \in Path /\ Holds(w, item[w]) /\ Held(item[w])
BY DEF DataTyped, RunsTyped, RunShape, TypeInv, TypeOK, Held

-----------------------------------------------------------------------------
(* No summary outlives its entry.                                           *)

\* Some path of the tree, such as a directory, does not come and go.
SomethingLasts == \E p \in Path : p \notin Volatile

GhostInv ==
  /\ RowInv
  /\ \A w \in Worker : run[w].step # "none" => run[w].known
  /\ NoGhostSummary

LEMMA InitGhost == PipelineInit => GhostInv
<1> SUFFICES ASSUME PipelineInit PROVE GhostInv
  OBVIOUS
<1>1. RowInv
  BY InitRow
<1> QED
  BY <1>1 DEF PipelineInit, GhostInv, NoGhostSummary, Summarized, NoRun

LEMMA RunGhost ==
  ASSUME SomethingLasts, GhostInv, RowInv', NEW w \in Worker, Run(w), ~Ending(w)
  PROVE  GhostInv'
<1>0. RunShape /\ SummaryTable
  BY DEF GhostInv, RowInv, DataTyped, RunsTyped
<1>1. UNCHANGED <<entry, item>> /\ item[w] \in Path
  BY DEF Run, Ending, BeginFile, Sample, BeginDir, EmptyAnswer, Write, Advance, vars,
    AtStep, GhostInv, RowInv, DataTyped, TypeInv, TypeOK
<1>2. \A v \in Worker : v # w => run'[v] = run[v]
  BY <1>0 DEF RunShape, Run, Ending, BeginFile, Sample, BeginDir, EmptyAnswer, Write, Advance
<1>3. run'[w].known
  <2>1. CASE BeginFile(w)
    <3>1. entry[item[w]] # "none"
      BY <1>1, <2>1 DEF BeginFile, Allowed, SomethingLasts, GhostInv, RowInv, LastingEntries
    <3> QED
      BY <1>0, <2>1, <3>1 DEF BeginFile, Advance, RunShape
  <2>2. CASE BeginDir(w)
    <3>1. entry[item[w]] # "none"
      BY <1>1, <2>2, FilesArePaths DEF BeginDir, AtStep, GhostInv, RowInv, LastingEntries, File
    <3> QED
      BY <1>0, <2>2, <3>1 DEF BeginDir, Advance, RunShape
  <2>3. CASE Sample(w)
    BY <1>0, <2>3 DEF Sample, AtStep, Advance, RunShape, GhostInv
  <2>4. CASE EmptyAnswer(w) \/ Write(w)
    <3>1. run[w].known
      BY <2>4 DEF EmptyAnswer, Write, AtStep, GhostInv
    <3>2. PICK s : run' = [run EXCEPT ![w] = [run[w] EXCEPT !.step = s]]
      BY <2>4 DEF EmptyAnswer, Write, Advance
    <3>3. run'[w] = [step |-> s, hash |-> run[w].hash, text |-> run[w].text,
                     at |-> run[w].at, old |-> run[w].old, known |-> run[w].known]
      BY <1>0, <3>2, NewStep DEF RunShape
    <3> QED
      BY <3>1, <3>3
  <2> QED
    BY <2>1, <2>2, <2>3, <2>4 DEF Run, Ending
<1>4. \A p \in Path : Summarized(p)' /\ ~summary'[p].orphaned => entry[p] # "none"
  <2>1. CASE Write(w)
    <3> DEFINE s == [hash |-> run[w].hash, text |-> run[w].text, at |-> run[w].at,
                     old |-> run[w].old,
                     orphaned |-> run[w].known /\ entry[item[w]] = "none"]
    <3>1. run[w].known /\ Upsert(item[w], s) /\ IsSummary(s)
      BY <2>1 DEF Write, AtStep, GhostInv, IsSummary
    <3>2. s.orphaned = (entry[item[w]] = "none")
      BY <3>1
    <3> HIDE DEF s
    <3> QED
      BY <1>0, <1>1, <3>1, <3>2, Stored DEF GhostInv, NoGhostSummary
  <2>2. CASE UNCHANGED summary
    BY <2>2 DEF Summarized, GhostInv, NoGhostSummary
  <2> QED
    BY <2>1, <2>2 DEF Run, Ending, BeginFile, Sample, BeginDir, EmptyAnswer, Advance, storeVars
<1> QED
  BY <1>1, <1>2, <1>3, <1>4 DEF GhostInv, NoGhostSummary

LEMMA NextGhost ==
  ASSUME SomethingLasts, GhostInv, [PipelineNext]_<<vars, pipeVars>>
  PROVE  GhostInv'
<1>1. RowInv' /\ WatchTyped
  BY NextRow DEF GhostInv, RowInv, DataTyped, FilesTyped
<1>2. CASE ~ \E w \in Worker : Run(w) /\ ~Ending(w)
  <2>1. RunsCarryOn /\ SummariesFade
    BY <1>2, OrderlyStep DEF GhostInv, RowInv
  <2>2. \A w \in Worker : run'[w].step # "none" => run'[w].known
    BY <2>1 DEF RunsCarryOn, GhostInv
  <2>3. \A p \in Path : Summarized(p)' =>
          Summarized(p) /\ summary'[p].orphaned = summary[p].orphaned
    BY <2>1 DEF SummariesFade, Summarized
  <2>4. CASE \A p \in Path : entry[p] # "none" => entry'[p] # "none"
    BY <1>1, <2>2, <2>3, <2>4 DEF GhostInv, NoGhostSummary
  <2>5. ASSUME NEW S \in SUBSET Volatile, Forget(S) PROVE GhostInv'
    <3>1. \A p \in Path : Summarized(p)' => p \notin S
      BY <2>5 DEF Forget, Summarized
    <3>2. \A p \in Path : p \notin S => entry'[p] = entry[p]
      BY <2>5 DEF Forget, DeleteEntries
    <3> QED
      BY <1>1, <2>2, <2>3, <3>1, <3>2 DEF GhostInv, NoGhostSummary
  <2>6. ASSUME NEW S \in SUBSET Path, UpsertEntries(S, "ok")
        PROVE  \A p \in Path : entry[p] # "none" => entry'[p] # "none"
    BY <2>6 DEF UpsertEntries
  <2> QED
    BY <1>1, <2>4, <2>5, <2>6, EntrySteps
<1> QED
  BY <1>1, <1>2, RunGhost

\* A summary whose entry is gone was stored by a run that had begun while the entry
\* was there, and lost it on the way (upsert_summary asks for no entry): a removal
\* takes the summaries along, whenever it comes (delete_subtree,
\* reconcile_by_generation), and no run begins on a path that has no entry, as long
\* as the index is not empty (summary_path_allowed).
THEOREM NoGhosts == SomethingLasts => (PipelineSpec => []NoGhostSummary)
<1> SUFFICES ASSUME SomethingLasts PROVE PipelineSpec => []NoGhostSummary
  OBVIOUS
<1>1. GhostInv /\ [PipelineNext]_<<vars, pipeVars>> => GhostInv'
  BY NextGhost
<1>2. GhostInv => NoGhostSummary
  BY DEF GhostInv
<1> QED
  BY InitGhost, <1>1, <1>2, PTL DEF PipelineSpec

-----------------------------------------------------------------------------
(* Refreshes converge.                                                      *)

\* A row is done when a run of it completes, and goes when its path is refused or
\* removed; every other step leaves it, or leaves it unsettled.
LEMMA RowSteps ==
  ASSUME DataTyped, [PipelineNext]_<<vars, pipeVars>>, NEW p \in Path
  PROVE  \/ state'[p] = state[p]
         \/ state'[p] \notin {"none", "done"}
         \/ \E w \in Worker : Complete(w) /\ item[w] = p
         \/ \E w \in Worker : phase[w] = "orphaned" /\ item[w] = p /\ state'[p] = "none"
         \/ Outside /\ May("remove") /\ \E S \in SUBSET Volatile : p \in S /\ Forget(S)
<1> USE DEF DataTyped, TypeInv, TypeOK
<1>1. CASE UNCHANGED state
  BY <1>1
<1>2. CASE QueueStep
  <2>1. ASSUME NEW w \in Worker,
               Claim(w) \/ CheckAllowed(w) \/ DeleteOrphan(w) \/ CheckSubtree(w)
                 \/ CheckSubtreeReadError(w) \/ Defer(w) \/ StartJob(w) \/ EndJob(w)
        PROVE  \/ state'[p] = state[p]
               \/ state'[p] \notin {"none", "done"}
               \/ phase[w] = "orphaned" /\ item[w] = p /\ state'[p] = "none"
    BY <2>1 DEF Claim, CheckAllowed, DeleteOrphan, DropRow, CheckSubtree, CheckSubtreeReadError,
      Defer, MarkRow, StartJob, EndJob, Release
  <2>2. ASSUME NEW w \in Worker, StoreErrorMarked(w) \/ StoreErrorUnmarked(w)
        PROVE  state'[p] = state[p] \/ state'[p] \notin {"none", "done"}
    BY <2>2 DEF StoreErrorMarked, StoreErrorUnmarked, MarkRow
  <2>3. ASSUME NEW pr \in Proc, Boot(pr) \/ Crash(pr)
        PROVE  state'[p] = state[p] \/ state'[p] \notin {"none", "done"}
    BY <2>3 DEF Boot, Sweep, Swept, Crash
  <2> QED
    BY <1>2, <2>1, <2>2, <2>3 DEF QueueStep, Queue
<1>3. ASSUME NEW w \in Worker, Run(w)
      PROVE  \/ state'[p] = state[p]
             \/ state'[p] \notin {"none", "done"}
             \/ Complete(w) /\ item[w] = p
  <2>1. CASE RefuseFile(w) \/ DescriberError(w)
    BY <2>1 DEF RefuseFile, DescriberError, FinishAs, MarkRow
  <2>2. CASE Complete(w)
    BY <2>2 DEF Complete, FinishAs, MarkRow
  <2>3. CASE BeginFile(w) \/ Sample(w) \/ BeginDir(w) \/ EmptyAnswer(w) \/ Write(w)
    BY <2>3 DEF BeginFile, Sample, BeginDir, EmptyAnswer, Write, Advance, vars
  <2> QED
    BY <1>3, <2>1, <2>2, <2>3 DEF Run
<1>4. ASSUME NEW S \in SUBSET Volatile, Forget(S)
      PROVE  p \in S \/ state'[p] = state[p]
  BY <1>4 DEF Forget, DeleteEntries, DropRows
<1>5. ASSUME NEW S, MarkForResummary(S)
      PROVE  state'[p] = state[p] \/ state'[p] \notin {"none", "done"}
  BY <1>5 DEF MarkForResummary
<1>6. CASE ScanPrune
  <2>1. PICK S \in SUBSET Volatile : Forget(S) /\ May("remove")
    BY <1>6 DEF ScanPrune
  <2> QED
    BY <1>4, <1>6, <2>1 DEF Outside
<1>7. CASE EnqueueSubtree \/ Regenerate
  BY <1>5, <1>7 DEF EnqueueSubtree, Regenerate
<1>8. CASE Disk \/ Tick \/ ScanUpsert \/ \E f \in File : Deep(f)
  BY <1>8 DEF Disk, Tick, ScanUpsert, Deep, UpsertEntries, vars
<1>9. CASE Watch
  <2>1. ASSUME NEW f \in Volatile, WatchRemove(f)
        PROVE  (p \in {f} /\ Forget({f}) /\ May("remove")) \/ state'[p] = state[p]
    BY <1>4, <2>1 DEF WatchRemove
  <2>2. ASSUME NEW f \in Volatile PROVE {f} \in SUBSET Volatile
    OBVIOUS
  <2>3. CASE WatchMark
    BY <1>5, <2>3 DEF WatchMark
  <2>4. CASE WatchStore
    BY <2>4 DEF WatchStore, UpsertEntries
  <2>5. ASSUME NEW f \in File, WatchRead(f) \/ WatchGone(f) PROVE state'[p] = state[p]
    BY <2>5 DEF WatchRead, WatchGone, vars
  <2> QED
    BY <1>9, <2>1, <2>2, <2>3, <2>4, <2>5, FilesArePaths DEF Watch, Outside
<1> QED
  BY <1>1, <1>2, <1>3, <1>6, <1>7, <1>8, <1>9 DEF PipelineNext, vars

\* Only a file's own write takes it off the list of the lapsed.
LEMMA LapsedFiles ==
  ASSUME [PipelineNext]_<<vars, pipeVars>>, NEW f \in File, f \in lapsed, f \notin lapsed'
  PROVE  \E w \in Worker : Write(w) /\ item[w] = f
<1>1. ASSUME NEW w \in Worker, Run(w) PROVE Write(w) /\ item[w] = f
  BY <1>1 DEF Run, BeginFile, RefuseFile, Sample, BeginDir, EmptyAnswer, Write, Complete,
    DescriberError, pipeVars, pastVars, AtStep, File
<1>2. ~UNCHANGED pastVars
  BY DEF pastVars
<1> QED
  BY <1>1, <1>2 DEF PipelineNext, pipeVars, QueueStep, Disk, Tick, Watch, WatchRead, WatchGone,
    WatchRemove, WatchStore, WatchMark, ScanUpsert, ScanPrune, EnqueueSubtree, Regenerate, Deep,
    Ignored, pastVars

\* A removal waits for the runs in hand, if files go at all.
RemovalsWait == Volatile = {} \/ "remove" \notin Meanwhile

LEMMA RemovalIsQuiet ==
  ASSUME RemovalsWait, DataTyped, May("remove"), NEW S \in SUBSET Volatile
  PROVE  S = {} \/ \A w \in Worker : run[w].step = "none"
<1>1. CASE Volatile = {}
  BY <1>1
<1>2. CASE "remove" \notin Meanwhile
  BY <1>2, BusyHolds DEF May, Idling
<1> QED
  BY <1>1, <1>2 DEF RemovalsWait

\* What has been written is there, and a row is not done without.
Delivered ==
  /\ \A w \in Worker : item[w] \in File =>
       /\ run[w].step \in {"skip", "written"} => Summarized(item[w])
       /\ run[w].step = "empty" => Summarized(item[w]) \/ item[w] \in lapsed
  /\ \A f \in File \ lapsed : state[f] = "done" => Summarized(f)

LEMMA WriteSummarizes ==
  ASSUME DataTyped, NEW w \in Worker, Write(w), NEW p \in Path, item[w] = p
  PROVE  /\ Summarized(p)' /\ UNCHANGED <<state, item>>
         /\ summary'[p].hash = run[w].hash /\ summary'[p].text = run[w].text
         /\ summary'[p].at = run[w].at /\ IsSummary(summary'[p])
         /\ \A q \in Path : q # p => /\ (Summarized(q)' <=> Summarized(q))
                                     /\ (Summarized(q) => summary'[q] = summary[q])
<1> DEFINE s == [hash |-> run[w].hash, text |-> run[w].text, at |-> run[w].at,
                 old |-> run[w].old, orphaned |-> run[w].known /\ entry[p] = "none"]
<1>1. Upsert(p, s) /\ UNCHANGED <<state, item>>
  BY DEF Write, vars
<1> QED
  BY <1>1, Stored DEF DataTyped, RunsTyped, IsSummary

LEMMA KeptSummaries ==
  ASSUME DataTyped, [PipelineNext]_<<vars, pipeVars>>, NEW p \in Path, Summarized(p)
  PROVE  \/ Summarized(p)'
         \/ Outside /\ May("remove") /\ \E S \in SUBSET Volatile : p \in S /\ Forget(S)
<1>1. CASE UNCHANGED summary
  BY <1>1 DEF Summarized
<1>2. ASSUME NEW S \in SUBSET Volatile, Forget(S) PROVE p \in S \/ Summarized(p)'
  BY <1>2 DEF Forget, Summarized
<1>3. CASE ScanPrune
  <2>1. PICK S \in SUBSET Volatile : Forget(S) /\ May("remove")
    BY <1>3 DEF ScanPrune
  <2> QED
    BY <1>2, <1>3, <2>1 DEF Outside
<1>4. ASSUME NEW g \in Volatile, WatchRemove(g)
      PROVE  \/ Summarized(p)'
             \/ Outside /\ May("remove") /\ \E S \in SUBSET Volatile : p \in S /\ Forget(S)
  <2>1. Forget({g}) /\ {g} \in SUBSET Volatile /\ May("remove") /\ Outside
    BY <1>4 DEF WatchRemove, Outside, Watch
  <2> QED
    BY <1>2, <2>1
<1>5. CASE Regenerate
  BY <1>5 DEF Regenerate, Summarized
<1>6. ASSUME NEW w \in Worker, Write(w) PROVE Summarized(p)'
  <2>1. item[w] \in Path
    BY <1>6 DEF Write, AtStep
  <2> QED
    BY <1>6, <2>1, WriteSummarizes
<1> QED
  BY <1>1, <1>3, <1>4, <1>5, <1>6 DEF PipelineNext, pipeVars, QueueStep, Run, BeginFile, RefuseFile,
    Sample, BeginDir, EmptyAnswer, Complete, DescriberError, Advance, Disk, Tick, Watch, WatchRead,
    WatchGone, WatchStore, WatchMark, ScanUpsert, EnqueueSubtree, Deep, storeVars

LEMMA NextDelivered ==
  ASSUME RemovalsWait, DataTyped, Delivered, [PipelineNext]_<<vars, pipeVars>>
  PROVE  Delivered'
<1> USE FilesArePaths
<1>1. ASSUME NEW f \in File, f \in lapsed, f \notin lapsed'
      PROVE  Summarized(f)'
  BY <1>1, LapsedFiles, WriteSummarizes
<1>2. ASSUME Outside, May("remove"), NEW S \in SUBSET Volatile, S # {}, Forget(S)
      PROVE  Delivered'
  <2>1. UNCHANGED run /\ \A w \in Worker : run[w].step = "none"
    BY <1>2, OutsideRuns, RemovalIsQuiet
  <2>2. \A f \in File : state'[f] = "done" => state[f] = "done" /\ (Summarized(f) => Summarized(f)')
    BY <1>2 DEF Forget, DeleteEntries, DropRows, Summarized
  <2> QED
    BY <1>1, <2>1, <2>2 DEF Delivered
<1>3. CASE ~ \E S \in SUBSET Volatile : Outside /\ May("remove") /\ S # {} /\ Forget(S)
  <2>1. \A f \in File : Summarized(f) => Summarized(f)'
    BY <1>3, KeptSummaries
  <2>2. ASSUME NEW f \in File, f \notin lapsed', state'[f] = "done"
        PROVE  Summarized(f)'
    <3>1. CASE state[f] = "done"
      BY <1>1, <2>1, <2>2, <3>1 DEF Delivered
    <3>2. ASSUME NEW w \in Worker, Complete(w), item[w] = f PROVE Summarized(f)'
      BY <1>1, <2>1, <2>2, <3>2 DEF Complete, Delivered
    <3> QED
      BY <1>3, <2>2, <3>1, <3>2, RowSteps
  <2>3. ASSUME NEW w \in Worker, item'[w] \in File
        PROVE  /\ run'[w].step \in {"skip", "written"} => Summarized(item[w])' /\ item'[w] = item[w]
               /\ run'[w].step = "empty" =>
                    (Summarized(item[w])' \/ item[w] \in lapsed') /\ item'[w] = item[w]
    <3>1. CASE run'[w] = run[w] /\ item'[w] = item[w]
      BY <1>1, <2>1, <2>3, <3>1 DEF Delivered
    <3>2. CASE run'[w].step = "none"
      BY <3>2
    <3>3. CASE Run(w) /\ ~Ending(w)
      <4>1. run[w].step # "none" => IsRun(run[w])
        BY DEF DataTyped, RunsTyped, RunShape
      <4>2. item'[w] = item[w] /\ ~BeginDir(w)
        BY <2>3, <3>3 DEF Run, Ending, BeginFile, Sample, BeginDir, EmptyAnswer, Write, Advance, vars,
          AtStep, File
      <4>3. CASE BeginFile(w)
        <5>1. run'[w].step \in {"skip", "gated"} /\ (run'[w].step = "skip" => Summarized(item[w]))
          BY <4>3 DEF BeginFile, Advance, Gate, DataTyped, RunsTyped, RunShape
        <5> QED
          BY <2>1, <2>3, <4>2, <5>1
      <4>4. CASE Sample(w)
        <5>1. /\ run'[w].step = IF SampleOf(item[w]) = Absent THEN "empty" ELSE "sampled"
              /\ run'[w].step = "empty" => item[w] \in lapsed'
          BY <4>4 DEF Sample, Advance, DataTyped, RunsTyped, RunShape
        <5> QED
          BY <4>2, <5>1
      <4>5. CASE EmptyAnswer(w)
        <5>1. run'[w] = [run[w] EXCEPT !.step = "empty"] /\ item[w] \in lapsed'
          BY <4>5 DEF EmptyAnswer, Advance, DataTyped, RunsTyped, RunShape
        <5>2. run'[w].step = "empty"
          BY <4>1, <4>5, <5>1, NewStep DEF EmptyAnswer, AtStep
        <5> QED
          BY <4>2, <5>1, <5>2
      <4>6. CASE Write(w)
        <5>1. run'[w] = [run[w] EXCEPT !.step = "written"]
          BY <4>6 DEF Write, DataTyped, RunsTyped, RunShape
        <5>2. run[w].step = "sampled"
          BY <4>6 DEF Write, AtStep
        <5>3. run'[w].step = "written"
          BY <4>1, <5>1, <5>2, NewStep
        <5> QED
          BY <2>3, <4>2, <4>6, <5>3, WriteSummarizes
      <4> QED
        BY <3>3, <4>2, <4>3, <4>4, <4>5, <4>6 DEF Run, Ending
    <3>4. ASSUME NEW v \in Worker, v # w, Run(v), ~Ending(v)
          PROVE  run'[w] = run[w] /\ item'[w] = item[w]
      BY <3>4 DEF Run, Ending, BeginFile, Sample, BeginDir, EmptyAnswer, Write, Advance, vars,
        DataTyped, RunsTyped, RunShape
    <3>5. CASE RunsCarryOn
      BY <3>1, <3>2, <3>5 DEF RunsCarryOn
    <3> QED
      BY <3>1, <3>2, <3>3, <3>4, <3>5, OrderlyStep
  <2> QED
    BY <2>2, <2>3 DEF Delivered
<1>4. ASSUME NEW S \in SUBSET Volatile, Outside, May("remove"), S # {}, Forget(S)
      PROVE  Delivered'
  BY <1>2, <1>4
<1> QED
  BY <1>3, <1>4

\* The watcher is off, and every edit is a new content.
PlainEdits == ~Watching /\ ~Reverts

Unwatched == touched = {} /\ watch = Idle

LEMMA NextUnwatched ==
  ASSUME PlainEdits, Unwatched, [PipelineNext]_<<vars, pipeVars>>
  PROVE  Unwatched'
<1> USE DEF Unwatched, PlainEdits, watchVars
<1>1. CASE UNCHANGED <<vars, pipeVars>> \/ QueueStep
  BY <1>1 DEF pipeVars, QueueStep
<1>2. ASSUME NEW w \in Worker, Run(w) PROVE Unwatched'
  BY <1>2 DEF Run, BeginFile, RefuseFile, Sample, BeginDir, EmptyAnswer, Write, Complete,
    DescriberError, Advance, pipeVars
<1>3. CASE Disk \/ Tick
  BY <1>3 DEF Disk, Edit, Create, Delete, WriteDisk, Notify, Tick
<1>4. CASE Watch
  BY <1>4 DEF Watch, WatchRead, WatchGone, HandleUpsert, WatchRemove, WatchStore, WatchMark, Idle
<1>5. CASE ScanUpsert \/ ScanPrune \/ EnqueueSubtree \/ Regenerate \/ \E f \in File : Deep(f)
  BY <1>5 DEF ScanUpsert, ScanPrune, EnqueueSubtree, Regenerate, Deep, Forget
<1> QED
  BY <1>1, <1>2, <1>3, <1>4, <1>5 DEF PipelineNext

\* Then no file is given an earlier content back, and chunks are as the mode says.
ByMode ==
  /\ Unwatched
  /\ restored = {}
  /\ ~KeepsChunks => \A f \in File : chunks[f] = Absent

LEMMA InitByMode == PipelineInit => ByMode
BY DEF PipelineInit, ByMode, Unwatched

LEMMA NextByMode ==
  ASSUME PlainEdits, ByMode, [PipelineNext]_<<vars, pipeVars>>
  PROVE  ByMode'
<1>1. Unwatched'
  BY NextUnwatched DEF ByMode
<1>2. restored' = {}
  BY DEF ByMode, PlainEdits, PipelineNext, pipeVars, pastVars, QueueStep, Run, BeginFile,
    RefuseFile, Sample, BeginDir, EmptyAnswer, Write, Complete, DescriberError, Disk, Edit, Create,
    Delete, WriteDisk, Tick, Watch, WatchRead, WatchGone, WatchRemove, WatchStore, WatchMark,
    ScanUpsert, ScanPrune, EnqueueSubtree, Regenerate, Deep
<1>3. ASSUME ~KeepsChunks PROVE \A f \in File : chunks'[f] = Absent
  <2>1. ~WatchStore
    BY DEF ByMode, Unwatched, WatchStore, Idle
  <2> QED
    BY <1>3, <2>1 DEF ByMode, PipelineNext, pipeVars, storeVars, QueueStep, Run, BeginFile,
      RefuseFile, Sample, BeginDir, EmptyAnswer, Write, Complete, DescriberError, Advance, Disk, Tick,
      Watch, WatchRead, WatchGone, WatchRemove, WatchMark, Forget, ScanUpsert, ScanPrune,
      EnqueueSubtree, Regenerate, Deep
<1> QED
  BY <1>1, <1>2, <1>3 DEF ByMode

\* The summary is of the file's content, or was made from chunks of other bytes than
\* those hashed.
FreshFile(f) == Summarized(f) /\ (summary[f].text = disk[f] \/ summary[f].old)

\* A run in hand will leave the file's summary fresh, or on the list of the lapsed.
RunsFreshen ==
  \A w \in Worker : item[w] \in File /\ entry[item[w]] = "ok" =>
    /\ run[w].step = "sampled" => run[w].text = disk[item[w]]
    /\ run[w].step \in {"skip", "written"} => FreshFile(item[w])
    /\ run[w].step = "empty" => FreshFile(item[w]) \/ item[w] \in lapsed

\* Since a refresh over an up-to-date index was queued, every file is fresh, lapsed
\* or still to be dealt with.
FreshOrOwed ==
  /\ \A p \in Path : entry[p] = IF p \in Present THEN "ok" ELSE "none"
  /\ \A p \in Present : seen[p] = mtime[p]
  /\ \A f \in File : chunks[f] \in {Absent, disk[f]}
  /\ \A w \in Worker : phase[w] = "orphaned" => entry[item[w]] # "ok"
  /\ RunsFreshen
  /\ \A f \in File \ (lapsed \cup Sensitive) : entry[f] = "ok" =>
       FreshFile(f) \/ state[f] \notin {"none", "done"}

ConvergeInv ==
  /\ RowInv /\ GateInv /\ StaleInv /\ ByMode /\ Delivered
  /\ refreshed => FreshOrOwed

LEMMA InitConverge == PipelineInit => ConvergeInv
<1> SUFFICES ASSUME PipelineInit PROVE ConvergeInv
  OBVIOUS
<1>1. Delivered /\ ~refreshed
  BY FilesArePaths DEF PipelineInit, Init, Delivered, NoRun
<1> QED
  BY <1>1, InitRow, InitGate, InitStale, InitByMode DEF ConvergeInv

\* The refresh marks whatever is not fresh, unless its last run came to nothing.
LEMMA RefreshQueues ==
  ASSUME ConvergeInv, EnqueueSubtree, refreshed'
  PROVE  FreshOrOwed'
<1> USE FilesArePaths
<1> DEFINE S == WithAncestors(NewPaths \cup StalePaths)
<1>1. /\ UpToDate /\ Idling
      /\ MarkForResummary(S) /\ Ignored(S)
      /\ UNCHANGED <<disk, mtime, seen, chunks, summary, run, entry, phase, item>>
  BY DEF EnqueueSubtree, diskVars, storeVars, MarkForResummary
<1>2. \A w \in Worker : run[w].step = "none" /\ phase[w] # "orphaned"
  <2> TAKE w \in Worker
  <2>1. run[w].step = "none"
    BY <1>1, BusyHolds DEF ConvergeInv, RowInv, Idling
  <2>2. phase[w] # "orphaned"
    BY <1>1 DEF ConvergeInv, RowInv, DataTyped, TypeInv, TypeOK, Idling, Held
  <2> QED
    BY <2>1, <2>2
<1>3. \A p \in Path : /\ entry[p] = IF p \in Present THEN "ok" ELSE "none"
                      /\ p \in Present => seen[p] = mtime[p]
  BY <1>1 DEF UpToDate
<1>5. \A f \in File : chunks[f] \in {Absent, disk[f]}
  BY <1>1 DEF UpToDate, ConvergeInv, ByMode
<1>4. ASSUME NEW f \in File, f \notin lapsed', f \notin Sensitive, entry[f] = "ok"
      PROVE  FreshFile(f) \/ state'[f] \notin {"none", "done"}
  <2>1. f \notin lapsed /\ Allowed(f)
    BY <1>1, <1>4 DEF Ignored, Allowed
  <2>2. f \in S => state'[f] \notin {"none", "done"}
    BY <1>1, <2>1 DEF MarkForResummary
  <2>3. state'[f] = state[f] \/ state'[f] = "pending"
    BY <1>1 DEF MarkForResummary
  <2>4. CASE ~Summarized(f)
    <3>1. state[f] = "none" => f \in S
      BY <1>4 DEF NewPaths, WithAncestors
    <3>2. state[f] # "done"
      BY <2>1, <2>4 DEF ConvergeInv, Delivered
    <3> QED
      BY <2>2, <2>3, <3>1, <3>2
  <2>5. CASE Summarized(f) /\ ~summary[f].old /\ summary[f].text # disk[f]
    <3>1. disk[f] # Absent /\ seen[f] = mtime[f]
      BY <1>3, <1>4 DEF Present, File
    <3>2. mtime[f] >= summary[f].at
      BY <2>5, <3>1 DEF ConvergeInv, StaleInv, Foreseen
    <3>3. f \in StalePaths
      BY <1>4, <2>5, <3>1, <3>2 DEF StalePaths, Stale
    <3> QED
      BY <2>2, <3>3 DEF WithAncestors
  <2> QED
    BY <2>4, <2>5 DEF FreshFile
<1> QED
  BY <1>1, <1>2, <1>3, <1>4, <1>5 DEF FreshOrOwed, RunsFreshen, Present, FreshFile, Summarized

\* Nothing but an edit or a removal takes the index out of date.
LEMMA StaysUpToDate ==
  ASSUME ConvergeInv, refreshed, refreshed', [PipelineNext]_<<vars, pipeVars>>
  PROVE  /\ UNCHANGED <<disk, mtime, entry>>
         /\ \A p \in Present : seen'[p] = mtime[p]
         /\ \A f \in File : chunks'[f] \in {Absent, disk[f]}
         /\ \A f \in File : Summarized(f) => Summarized(f)'
<1> USE FilesArePaths
<1>1. ~Disk /\ ~ \E S : Forget(S)
  BY DEF Disk, Forget
<1>2. ~Watch
  BY DEF ConvergeInv, ByMode, Unwatched, Watch, WatchRead, WatchGone, HandleUpsert, WatchRemove,
    WatchStore, WatchMark, Idle
<1>3. UNCHANGED <<disk, mtime>>
  BY <1>1, <1>2 DEF PipelineNext, pipeVars, QueueStep, diskVars, Run, BeginFile, RefuseFile, Sample,
    BeginDir, EmptyAnswer, Write, Complete, DescriberError, Advance, ScanUpsert, ScanPrune,
    EnqueueSubtree, Regenerate, Deep, Tick
<1>4. FreshOrOwed
  BY DEF ConvergeInv
<1>5. UNCHANGED entry /\ \A p \in Present : seen'[p] = mtime[p]
  <2>1. CASE UNCHANGED <<entry, seen>>
    BY <1>4, <2>1 DEF FreshOrOwed
  <2>2. CASE ScanUpsert
    <3>1. entry' = [p \in Path |-> IF p \in Present THEN "ok" ELSE entry[p]]
      BY <2>2 DEF ScanUpsert, UpsertEntries
    <3>2. \A p \in Present : p \in Path /\ seen'[p] = mtime[p]
      BY <2>2 DEF ScanUpsert, Present
    <3> QED
      BY <1>4, <3>1, <3>2 DEF FreshOrOwed, ConvergeInv, RowInv, DataTyped, TypeInv, TypeOK
  <2>3. ASSUME NEW f \in File, Deep(f) PROVE UNCHANGED entry /\ \A p \in Present : seen'[p] = mtime[p]
    <3>1. f \in Present /\ entry' = [p \in Path |-> IF p \in {f} THEN "ok" ELSE entry[p]]
      BY <2>3 DEF Deep, UpsertEntries, Present
    <3>2. \A p \in Present : seen'[p] = mtime[p]
      BY <1>4, <2>3 DEF Deep, FreshOrOwed, ConvergeInv, RowInv, DataTyped, FilesTyped, Present
    <3> QED
      BY <1>4, <3>1, <3>2 DEF FreshOrOwed, ConvergeInv, RowInv, DataTyped, TypeInv, TypeOK
  <2>4. UNCHANGED seen \/ ScanUpsert \/ \E f \in File : Deep(f)
    BY <1>1, <1>2 DEF PipelineNext, pipeVars, QueueStep, storeVars, Run, BeginFile, RefuseFile, Sample,
      BeginDir, EmptyAnswer, Write, Complete, DescriberError, Advance, ScanPrune, EnqueueSubtree,
      Regenerate, Tick
  <2>5. UNCHANGED entry \/ ScanUpsert \/ \E f \in File : Deep(f)
    <3>1. WatchTyped
      BY DEF ConvergeInv, RowInv, DataTyped, FilesTyped
    <3>2. ASSUME NEW S \in SUBSET Path, UpsertEntries(S, "ok"), Outside
          PROVE  UNCHANGED entry \/ ScanUpsert \/ \E f \in File : Deep(f)
      BY <1>1, <1>2, <3>2 DEF Outside, Tick, ScanPrune, EnqueueSubtree, Regenerate,
        MarkForResummary, vars
    <3> QED
      BY <1>1, <3>1, <3>2, EntrySteps
  <2> QED
    BY <2>1, <2>2, <2>3, <2>4, <2>5
<1>6. \A f \in File : Summarized(f) => Summarized(f)'
  BY <1>1, KeptSummaries DEF ConvergeInv, RowInv
<1>7. \A f \in File : chunks'[f] \in {chunks[f], Absent, disk[f]}
  <2>1. ASSUME NEW g \in File, Deep(g)
        PROVE  \A f \in File : chunks'[f] \in {chunks[f], Absent, disk[f]}
    BY <2>1 DEF Deep, ConvergeInv, RowInv, DataTyped, FilesTyped
  <2> QED
    BY <1>1, <1>2, <2>1 DEF PipelineNext, pipeVars, storeVars, QueueStep, Run, BeginFile, RefuseFile,
      Sample, BeginDir, EmptyAnswer, Write, Complete, DescriberError, Advance, Tick, ScanUpsert,
      ScanPrune, EnqueueSubtree, Regenerate
<1>8. \A f \in File : chunks'[f] \in {Absent, disk[f]}
  BY <1>4, <1>7 DEF FreshOrOwed
<1> QED
  BY <1>3, <1>5, <1>6, <1>8

LEMMA OrphanSteps ==
  ASSUME DataTyped, [PipelineNext]_<<vars, pipeVars>>, NEW w \in Worker, phase'[w] = "orphaned"
  PROVE  item'[w] = item[w] /\ (phase[w] = "orphaned" \/ ~Allowed(item[w]))
<1> USE DEF DataTyped, TypeInv, TypeOK
<1>1. CASE UNCHANGED <<phase, item>>
  BY <1>1
<1>2. CASE QueueStep
  <2>1. ASSUME NEW v \in Worker,
               Claim(v) \/ CheckAllowed(v) \/ DeleteOrphan(v) \/ CheckSubtree(v)
                 \/ CheckSubtreeReadError(v) \/ Defer(v) \/ StartJob(v) \/ EndJob(v)
        PROVE  item'[w] = item[w] /\ (phase[w] = "orphaned" \/ ~Allowed(item[w]))
    BY <2>1 DEF Claim, CheckAllowed, DeleteOrphan, CheckSubtree, CheckSubtreeReadError,
      Defer, StartJob, EndJob, Release
  <2>2. ASSUME NEW v \in Worker, StoreErrorMarked(v) \/ StoreErrorUnmarked(v)
        PROVE  item'[w] = item[w] /\ phase[w] = "orphaned"
    BY <2>2 DEF StoreErrorMarked, StoreErrorUnmarked, Release
  <2>3. ASSUME NEW pr \in Proc, Boot(pr) \/ Crash(pr)
        PROVE  item'[w] = item[w] /\ phase[w] = "orphaned"
    BY <2>3 DEF Boot, Crash
  <2> QED
    BY <1>2, <2>1, <2>2, <2>3 DEF QueueStep, Queue
<1>3. ASSUME NEW v \in Worker, Run(v)
      PROVE  item'[w] = item[w] /\ phase[w] = "orphaned"
  BY <1>3 DEF Run, BeginFile, RefuseFile, Sample, BeginDir, EmptyAnswer, Write, Complete,
    DescriberError, Advance, vars, FinishAs, Release
<1>4. CASE Outside
  BY <1>1, <1>4, OutsideRuns
<1> QED
  BY <1>1, <1>2, <1>3, <1>4 DEF PipelineNext, Outside, vars

LEMMA CarryFresh ==
  ASSUME ConvergeInv, RowInv', refreshed, refreshed', [PipelineNext]_<<vars, pipeVars>>
  PROVE  FreshOrOwed'
<1> USE FilesArePaths
<1>1. /\ UNCHANGED <<disk, mtime, entry>>
      /\ \A p \in Present : seen'[p] = mtime[p]
      /\ \A f \in File : chunks'[f] \in {Absent, disk[f]}
      /\ \A f \in File : Summarized(f) => Summarized(f)'
  BY StaysUpToDate
<1>2. FreshOrOwed /\ DataTyped
  BY DEF ConvergeInv, RowInv
<1>3. ASSUME NEW w \in Worker, Write(w), NEW f \in File, item[w] = f, entry[f] = "ok"
      PROVE  FreshFile(f)'
  <2>1. run[w].step = "sampled" /\ run[w].text = disk[f]
    BY <1>2, <1>3 DEF FreshOrOwed, RunsFreshen, Write, AtStep
  <2>2. /\ Summarized(f)'
        /\ summary'[f].text = run[w].text
    <3>1. f \in Path
      OBVIOUS
    <3> QED
      BY <1>2, <1>3, <3>1, WriteSummarizes
  <2> QED
    BY <1>1, <2>1, <2>2 DEF FreshFile
<1>4. ASSUME NEW f \in File, entry[f] = "ok", FreshFile(f)
      PROVE  FreshFile(f)'
  <2> DEFINE Alike == /\ summary'[f].text = summary[f].text
                      /\ summary'[f].old = summary[f].old
  <2>1. CASE Alike
    BY <1>1, <1>4, <2>1 DEF FreshFile
  <2>2. ASSUME NEW w \in Worker, Run(w), ~Ending(w)
        PROVE  Alike \/ FreshFile(f)'
    <3>1. CASE Write(w)
      <4>1. CASE item[w] = f
        BY <1>3, <1>4, <3>1, <4>1
      <4>2. CASE item[w] # f
        <5>1. item[w] \in Path
          BY <3>1 DEF Write, AtStep
        <5> QED
          BY <1>2, <1>4, <3>1, <4>2, <5>1, WriteSummarizes DEF FreshFile
      <4> QED
        BY <4>1, <4>2
    <3>2. CASE ~Write(w)
      BY <2>2, <3>2 DEF Run, Ending, BeginFile, Sample, BeginDir, EmptyAnswer, Advance, storeVars
    <3> QED
      BY <3>1, <3>2
  <2>3. CASE SummariesFade
    <3>1. Summarized(f)'
      BY <1>1, <1>4 DEF FreshFile
    <3>2. Alike
      BY <2>3, <3>1 DEF SummariesFade, Summarized
    <3> QED
      BY <2>1, <3>2
  <2> QED
    BY <1>2, <2>1, <2>2, <2>3, OrderlyStep
<1>5. ASSUME NEW f \in File, entry[f] = "ok", f \in lapsed, f \notin lapsed'
      PROVE  FreshFile(f)'
  BY <1>3, <1>5, LapsedFiles
<1>6. ASSUME NEW w \in Worker, phase'[w] = "orphaned"
      PROVE  entry'[item'[w]] # "ok"
  <2>1. item'[w] = item[w] /\ (phase[w] = "orphaned" \/ ~Allowed(item[w]))
    BY <1>2, <1>6, OrphanSteps
  <2>2. item[w] \notin Sensitive
    BY DEF ConvergeInv, RowInv, SecretsUnqueued
  <2> QED
    BY <1>1, <1>2, <2>1, <2>2 DEF FreshOrOwed, Allowed
<1>7. ASSUME NEW f \in File, f \notin lapsed', f \notin Sensitive, entry[f] = "ok"
      PROVE  FreshFile(f)' \/ state'[f] \notin {"none", "done"}
  <2>1. CASE state'[f] = state[f]
    BY <1>2, <1>4, <1>5, <1>7, <2>1 DEF FreshOrOwed
  <2>2. ASSUME NEW w \in Worker, Complete(w), item[w] = f PROVE FreshFile(f)'
    <3>1. FreshFile(f) \/ f \in lapsed
      BY <1>2, <1>7, <2>2 DEF Complete, FreshOrOwed, RunsFreshen
    <3> QED
      BY <1>4, <1>5, <1>7, <3>1
  <2>3. ~ \E w \in Worker : phase[w] = "orphaned" /\ item[w] = f
    BY <1>2, <1>7 DEF FreshOrOwed
  <2>4. ~ \E S : Forget(S)
    BY DEF Forget
  <2> QED
    BY <1>2, <2>1, <2>2, <2>3, <2>4, RowSteps
<1>8. ASSUME NEW w \in Worker, NEW f \in File, item'[w] = f, entry[f] = "ok"
      PROVE  /\ run'[w].step = "sampled" => run'[w].text = disk[f]
             /\ run'[w].step \in {"skip", "written"} => FreshFile(f)'
             /\ run'[w].step = "empty" => FreshFile(f)' \/ f \in lapsed'
  <2>1. CASE run'[w] = run[w] /\ item[w] = f
    BY <1>2, <1>4, <1>5, <1>8, <2>1 DEF FreshOrOwed, RunsFreshen
  <2>2. CASE run'[w].step = "none"
    BY <2>2
  <2>3. CASE Run(w) /\ ~Ending(w)
    <3>1. item[w] = f /\ ~BeginDir(w)
      BY <1>8, <2>3 DEF Run, Ending, BeginFile, Sample, BeginDir, EmptyAnswer, Write, Advance, vars,
        AtStep, File
    <3>2. CASE BeginFile(w)
      <4>1. run'[w].step \in {"skip", "gated"} /\ (run'[w].step = "skip" => Gate(f, disk[f]))
        BY <1>2, <3>1, <3>2 DEF BeginFile, Advance, DataTyped, RunsTyped, RunShape
      <4>2. Gate(f, disk[f]) => FreshFile(f)
        BY DEF Gate, FreshFile, ConvergeInv, GateInv, GateSound, ByMode
      <4> QED
        BY <1>4, <1>8, <4>1, <4>2
    <3>3. CASE Sample(w)
      <4>1. SampleOf(f) = disk[f]
        BY <1>2 DEF SampleOf, FreshOrOwed
      <4>2. /\ run'[w].step = IF SampleOf(f) = Absent THEN "empty" ELSE "sampled"
            /\ run'[w].text = SampleOf(f)
            /\ run'[w].step = "empty" => f \in lapsed'
        BY <1>2, <3>1, <3>3 DEF Sample, Advance, DataTyped, RunsTyped, RunShape
      <4> QED
        BY <4>1, <4>2
    <3>4. CASE EmptyAnswer(w)
      <4>1. /\ run'[w] = [run[w] EXCEPT !.step = "empty"] /\ run[w].step = "sampled"
            /\ f \in lapsed' /\ IsRun(run[w])
        BY <1>2, <3>1, <3>4 DEF EmptyAnswer, AtStep, Advance, DataTyped, RunsTyped, RunShape
      <4>2. run'[w].step = "empty"
        BY <4>1, NewStep
      <4> QED
        BY <4>1, <4>2
    <3>5. CASE Write(w)
      <4>1. run'[w] = [run[w] EXCEPT !.step = "written"] /\ IsRun(run[w])
        BY <1>2, <3>5 DEF Write, AtStep, DataTyped, RunsTyped, RunShape
      <4>2. run'[w].step = "written"
        BY <4>1, NewStep
      <4> QED
        BY <1>3, <1>8, <3>1, <3>5, <4>2
    <3> QED
      BY <2>3, <3>1, <3>2, <3>3, <3>4, <3>5 DEF Run, Ending
  <2>4. ASSUME NEW v \in Worker, v # w, Run(v), ~Ending(v)
        PROVE  run'[w] = run[w] /\ item'[w] = item[w]
    BY <1>2, <2>4 DEF Run, Ending, BeginFile, Sample, BeginDir, EmptyAnswer, Write, Advance, vars,
      DataTyped, RunsTyped, RunShape
  <2>5. CASE RunsCarryOn
    BY <1>8, <2>1, <2>2, <2>5 DEF RunsCarryOn
  <2> QED
    BY <1>2, <1>8, <2>1, <2>2, <2>3, <2>4, <2>5, OrderlyStep
<1>9. Present' = Present
  BY <1>1 DEF Present
<1> QED
  BY <1>1, <1>2, <1>6, <1>7, <1>8, <1>9 DEF FreshOrOwed, RunsFreshen

LEMMA NextConverge ==
  ASSUME PlainEdits, RemovalsWait, ConvergeInv, [PipelineNext]_<<vars, pipeVars>>
  PROVE  ConvergeInv'
<1>1. RowInv' /\ GateInv' /\ StaleInv' /\ ByMode' /\ Delivered'
  BY NextRow, NextGate, NextStale, NextByMode, NextDelivered DEF ConvergeInv, RowInv
<1>2. ASSUME refreshed' PROVE FreshOrOwed'
  <2>1. CASE refreshed
    BY <1>1, <1>2, <2>1, CarryFresh
  <2>2. CASE ~refreshed
    <3>1. EnqueueSubtree
      BY <1>2, <2>2 DEF PipelineNext, pipeVars, pastVars, QueueStep, Run, BeginFile, RefuseFile,
        Sample, BeginDir, EmptyAnswer, Write, Complete, DescriberError, Disk, Tick, Watch, WatchRead,
        WatchGone, WatchRemove, WatchStore, WatchMark, ScanUpsert, ScanPrune, Forget, Regenerate,
        Deep
    <3> QED
      BY <1>2, <3>1, RefreshQueues
  <2> QED
    BY <2>1, <2>2
<1> QED
  BY <1>1, <1>2 DEF ConvergeInv

\* A refresh converges: once enqueue_subtree has run over an up-to-date index and an
\* idle queue, and every row has settled, each file that may be summarized has a
\* summary of its current content, whatever crashes, sweeps, deferrals, further
\* requests and other processes came between, in either summary mode; the exceptions
\* are the files whose run gave nothing, and the summaries that were made earlier from
\* chunks of other bytes than those hashed.  It needs every edit to be a new content,
\* the watcher to be off, and removals to wait for the runs in hand: a run that outlives
\* its file may mark the row of the next file of that name done.
THEOREM RefreshConverges ==
  PlainEdits /\ RemovalsWait => (PipelineSpec => []FilesConverge)
<1> SUFFICES ASSUME PlainEdits, RemovalsWait PROVE PipelineSpec => []FilesConverge
  OBVIOUS
<1>1. PipelineInit => ConvergeInv
  BY InitConverge
<1>2. ConvergeInv /\ [PipelineNext]_<<vars, pipeVars>> => ConvergeInv'
  BY NextConverge
<1>3. ConvergeInv => FilesConverge
  BY FilesArePaths DEF ConvergeInv, FreshOrOwed, FilesConverge, Settled, FreshFile
<1> QED
  BY <1>1, <1>2, <1>3, PTL DEF PipelineSpec

-----------------------------------------------------------------------------
(* Every item is in one pair of hands.                                      *)

\* Nobody retries, so this holds of the paths that stay while a run is in hand: of all
\* when removals wait, else of those that are not volatile.
HandsOn(S) ==
  /\ \A w \in Worker, p \in S : Holds(w, p) => state[p] = "in_flight"
  /\ \A v, w \in Worker, p \in S : Holds(v, p) /\ Holds(w, p) => v = w

HandsInv == HandsOn(Path)

LEMMA InitHands ==
  ASSUME PipelineInit, NEW S \in SUBSET Path
  PROVE  HandsOn(S)
BY DEF PipelineInit, Init, HandsOn

LEMMA WorkerHands ==
  ASSUME NEW R \in SUBSET Path, TypeInv, HandsOn(R), NEW w \in Worker,
         Step(w) \/ Fault(w) \/ StartJob(w) \/ EndJob(w)
  PROVE  HandsOn(R)'
<1> USE QueueAssumption DEF QueueAssumption, TypeInv, TypeOK, HandsOn
<1>1. CASE Claim(w)
  BY <1>1 DEF Claim, Pending, Deepest
<1>2. CASE CheckAllowed(w)
  BY <1>2 DEF CheckAllowed
<1>3. CASE DeleteOrphan(w)
  BY <1>3 DEF DeleteOrphan, DropRow, Release
<1>4. CASE CheckSubtree(w) \/ CheckSubtreeReadError(w)
  BY <1>4 DEF CheckSubtree, CheckSubtreeReadError
<1>5. CASE Defer(w)
  BY <1>5 DEF Defer, MarkRow, Release
<1>6. CASE Finish(w)
  <2>1. PICK s \in {"done", "failed"} : FinishAs(w, s)
    BY <1>6 DEF Finish
  <2> QED
    BY <2>1 DEF FinishAs, MarkRow, Release
<1>7. CASE StoreErrorMarked(w)
  BY <1>7 DEF StoreErrorMarked, MarkRow, Release
<1>8. CASE StoreErrorUnmarked(w)
  BY <1>8 DEF StoreErrorUnmarked, Release
<1>9. CASE StartJob(w) \/ EndJob(w)
  <2>1. CASE StartJob(w)
    BY <2>1 DEF StartJob
  <2>2. CASE EndJob(w)
    BY <2>2 DEF EndJob
  <2> QED
    BY <1>9, <2>1, <2>2
<1> QED
  BY <1>1, <1>2, <1>3, <1>4, <1>5, <1>6, <1>7, <1>8, <1>9 DEF Step, Fault

LEMMA ProcessHands ==
  ASSUME NEW R \in SUBSET Path, SweeperAlone, TypeInv, HandsOn(R), NEW pr \in Proc, Boot(pr) \/ Crash(pr)
  PROVE  HandsOn(R)'
<1> USE QueueAssumption DEF QueueAssumption, TypeInv, TypeOK, HandsOn
<1>1. CASE Boot(pr) /\ pr \in Sweeper
  <2>1. \A w \in Worker : phase[w] = "off"
    BY <1>1 DEF Boot, SweeperAlone, OffWhenDown
  <2> QED
    BY <1>1, <2>1 DEF Boot
<1>2. CASE Boot(pr) /\ pr \notin Sweeper
  BY <1>2 DEF Boot
<1>3. CASE Crash(pr)
  BY <1>3 DEF Crash
<1> QED
  BY <1>1, <1>2, <1>3

LEMMA NextHands ==
  ASSUME NEW R \in SUBSET Path, RemovalsWait \/ R \cap Volatile = {},
         SweeperAlone, DataTyped, HandsOn(R), [PipelineNext]_<<vars, pipeVars>>
  PROVE  HandsOn(R)'
<1>0. TypeInv
  BY DEF DataTyped
<1>1. CASE UNCHANGED <<state, phase, item>>
  BY <1>1 DEF HandsOn
<1>2. ASSUME NEW w \in Worker, Run(w) PROVE HandsOn(R)'
  <2>1. CASE Ending(w)
    <3>1. Finish(w)
      BY <2>1 DEF Ending, RefuseFile, Complete, DescriberError, Finish
    <3> QED
      BY <1>0, <3>1, WorkerHands DEF Step
  <2>2. CASE ~Ending(w)
    BY <1>1, <1>2, <2>2 DEF Run, Ending, BeginFile, Sample, BeginDir, EmptyAnswer, Write, Advance, vars
  <2> QED
    BY <2>1, <2>2
<1>3. CASE QueueStep
  BY <1>0, <1>3, WorkerHands, ProcessHands DEF QueueStep, Queue, Step, Fault
<1>4. CASE Outside
  <2>1. UNCHANGED <<phase, item>>
    BY <1>4, OutsideRuns
  <2>2. ASSUME NEW w \in Worker, NEW p \in R, Holds(w, p) PROVE state'[p] = "in_flight"
    <3>1. state[p] = "in_flight" /\ Held(p)
      BY <2>2 DEF HandsOn, Held
    <3>2. ASSUME NEW S, MarkForResummary(S) PROVE state'[p] = "in_flight"
      BY <3>1, <3>2 DEF MarkForResummary
    <3>3. ASSUME NEW S \in SUBSET Volatile, May("remove"), Forget(S) PROVE state'[p] = "in_flight"
      <4>1. CASE Idling
        BY <3>1, <4>1 DEF Idling
      <4>2. CASE p \notin S
        BY <3>1, <3>3, <4>2 DEF Forget, DeleteEntries, DropRows
      <4> QED
        BY <3>3, <4>1, <4>2 DEF May, RemovalsWait
    <3>4. CASE UNCHANGED state
      BY <3>1, <3>4
    <3>5. CASE EnqueueSubtree \/ Regenerate \/ WatchMark
      BY <3>2, <3>5 DEF EnqueueSubtree, Regenerate, WatchMark
    <3>6. CASE ScanPrune
      <4>1. PICK S \in SUBSET Volatile : Forget(S) /\ May("remove")
        BY <3>6 DEF ScanPrune
      <4> QED
        BY <3>3, <4>1
    <3>7. ASSUME NEW f \in Volatile, WatchRemove(f) PROVE state'[p] = "in_flight"
      <4>1. {f} \in SUBSET Volatile /\ Forget({f}) /\ May("remove")
        BY <3>7 DEF WatchRemove
      <4> QED
        BY <3>3, <4>1
    <3> QED
      BY <1>4, <3>4, <3>5, <3>6, <3>7 DEF Outside, Disk, Tick, Watch, WatchRead, WatchGone, WatchStore,
        ScanUpsert, Deep, UpsertEntries, vars
  <2> QED
    BY <2>1, <2>2 DEF HandsOn
<1> QED
  BY <1>1, <1>2, <1>3, <1>4 DEF PipelineNext, Outside, vars

\* While removals wait, of every path.
LEMMA AllInHand ==
  /\ PipelineInit => HandsInv
  /\ SweeperAlone /\ RemovalsWait /\ DataTyped /\ HandsInv /\ [PipelineNext]_<<vars, pipeVars>>
       => HandsInv'
<1>1. Path \in SUBSET Path
  OBVIOUS
<1> QED
  BY <1>1, InitHands, NextHands DEF HandsInv

\* In the middle of a run a loop touches nothing but what is about its own item.
LEMMA MidRun ==
  ASSUME DataTyped, NEW w \in Worker, Run(w), ~Ending(w)
  PROVE  /\ UNCHANGED <<entry, state, phase, item, disk, touched, watch>>
         /\ phase[w] = "running" /\ item[w] \in Path
         /\ \A v \in Worker : v # w => run'[v] = run[v]
         /\ \A p \in Path : p # item[w] =>
              /\ (p \in lapsed' <=> p \in lapsed) /\ (p \in asked' <=> p \in asked)
              /\ (Summarized(p)' <=> Summarized(p))
              /\ (Summarized(p) => summary'[p] = summary[p])
<1>1. /\ UNCHANGED <<entry, state, phase, item, disk, touched, watch>>
      /\ phase[w] = "running" /\ item[w] \in Path
  BY FilesArePaths, QueueAssumption DEF QueueAssumption, Run, Ending, BeginFile, Sample, BeginDir,
    EmptyAnswer, Write, Advance, AtStep, vars, diskVars, watchVars
<1>2. \A v \in Worker : v # w => run'[v] = run[v]
  BY DEF DataTyped, RunsTyped, RunShape, Run, Ending, BeginFile, Sample,
    BeginDir, EmptyAnswer, Write, Advance
<1>3. \A p \in Path : p # item[w] => (p \in lapsed' <=> p \in lapsed) /\ (p \in asked' <=> p \in asked)
  BY DEF Run, Ending, BeginFile, Sample, BeginDir, EmptyAnswer, Write, pastVars
<1>4. CASE Write(w)
  BY <1>1, <1>2, <1>3, <1>4, WriteSummarizes
<1>5. CASE UNCHANGED summary
  BY <1>1, <1>2, <1>3, <1>5 DEF Summarized
<1> QED
  BY <1>4, <1>5 DEF Run, Ending, BeginFile, Sample, BeginDir, EmptyAnswer, Advance, storeVars

\* The steps of a run, one by one, for the item in hand.
LEMMA MidRunSteps ==
  ASSUME DataTyped, NEW w \in Worker, Run(w), ~Ending(w), NEW p \in Path, item[w] = p
  PROVE  \/ BeginFile(w) /\ p \in File /\ run[w].step = "none"
            /\ run'[w].step = (IF Gate(p, disk[p]) THEN "skip" ELSE "gated")
            /\ UNCHANGED <<summary, asked, lapsed>>
         \/ Sample(w) /\ p \in File /\ run[w].step = "gated"
            /\ run'[w].step = (IF SampleOf(p) = Absent THEN "empty" ELSE "sampled")
            /\ lapsed' = (IF SampleOf(p) = Absent THEN lapsed \cup {p} ELSE lapsed)
            /\ UNCHANGED <<summary, asked>>
         \/ BeginDir(w) /\ p \in Dir /\ run[w].step = "none"
            /\ run'[w].step = (IF SummarizedChildren(p) = {} THEN "empty"
                                 ELSE IF Gate(p, DirHash(p)) THEN "skip" ELSE "sampled")
            /\ run'[w].hash = DirHash(p) /\ run'[w].text = RollUp(p)
            /\ lapsed' = (IF HasUnfinished(p) \/ SummarizedChildren(p) = {} THEN lapsed \cup {p}
                          ELSE lapsed \ {p})
            /\ UNCHANGED <<summary, asked>>
         \/ EmptyAnswer(w) /\ run[w].step = "sampled" /\ run'[w].step = "empty"
            /\ lapsed' = lapsed \cup {p}
            /\ UNCHANGED <<summary, asked>>
         \/ Write(w) /\ run[w].step = "sampled" /\ run'[w].step = "written"
            /\ Summarized(p)'
            /\ summary'[p].hash = run[w].hash /\ summary'[p].text = run[w].text
            /\ lapsed' = (IF p \in File THEN lapsed \ {p} ELSE lapsed)
            /\ asked' = asked \ {p}
<1> USE DEF DataTyped, RunsTyped, RunShape
<1>1. CASE BeginFile(w)
  BY <1>1 DEF BeginFile, AtStep, Advance, storeVars, pastVars
<1>2. CASE Sample(w)
  BY <1>2 DEF Sample, AtStep, Advance, storeVars
<1>3. CASE BeginDir(w)
  BY <1>3 DEF BeginDir, AtStep, Advance, storeVars
<1>4. CASE EmptyAnswer(w)
  <2>1. /\ run'[w] = [run[w] EXCEPT !.step = "empty"] /\ IsRun(run[w])
        /\ run[w].step = "sampled" /\ lapsed' = lapsed \cup {p} /\ UNCHANGED <<summary, asked>>
    BY <1>4 DEF EmptyAnswer, AtStep, Advance, storeVars
  <2>2. run'[w].step = "empty"
    BY <2>1, NewStep
  <2> QED
    BY <1>4, <2>1, <2>2
<1>5. CASE Write(w)
  <2>1. /\ run'[w] = [run[w] EXCEPT !.step = "written"] /\ IsRun(run[w])
        /\ run[w].step = "sampled" /\ lapsed' = (IF p \in File THEN lapsed \ {p} ELSE lapsed)
        /\ asked' = asked \ {p}
    BY <1>5 DEF Write, AtStep
  <2>2. run'[w].step = "written"
    BY <2>1, NewStep
  <2>3. /\ Summarized(p)'
        /\ summary'[p].hash = run[w].hash /\ summary'[p].text = run[w].text
    BY <1>5, WriteSummarizes
  <2> QED
    BY <1>5, <2>1, <2>2, <2>3
<1> QED
  BY <1>1, <1>2, <1>3, <1>4, <1>5 DEF Run, Ending

-----------------------------------------------------------------------------
(* Regenerate defeats the gate.                                             *)

\* What is asked for has no hash to skip by, and a run of it that ends without a new
\* summary puts it on the list of the lapsed.
AskedRuns ==
  \A w \in Worker : run[w].step # "none" /\ item[w] \in asked =>
    /\ run[w].step \notin {"skip", "written"}
    /\ run[w].step = "empty" => item[w] \in lapsed

AskedRows ==
  /\ \A p \in asked : Summarized(p) => summary[p].hash = Absent
  /\ \A p \in asked \ lapsed : Summarized(p) => state[p] # "done"

\* Two runs of a file that went and came back do no harm; two of a directory would.
AskedInv == RowInv /\ HandsOn(Dir) /\ AskedRuns /\ AskedRows

LEMMA DirsStay == Dir \in SUBSET Path /\ Dir \cap Volatile = {}
BY PipelineAssumption, QueueAssumption DEF PipelineAssumption, QueueAssumption, File

LEMMA InitAsked == PipelineInit => AskedInv
<1> SUFFICES ASSUME PipelineInit PROVE AskedInv
  OBVIOUS
<1>1. RowInv /\ HandsOn(Dir)
  BY InitRow, InitHands, DirsStay
<1> QED
  BY <1>1 DEF PipelineInit, AskedInv, AskedRuns, AskedRows, Summarized, NoRun

LEMMA RegenerateBlanks ==
  ASSUME DataTyped, Regenerate, NEW p \in Path, Summarized(p)'
  PROVE  Summarized(p) /\ summary'[p].hash = Absent
<1>1. Summarized(p) /\ summary'[p] = [summary[p] EXCEPT !.hash = Absent] /\ IsSummary(summary[p])
  BY DEF Regenerate, Summarized, DataTyped, RunsTyped, SummaryTable
<1>2. summary'[p] = [hash |-> Absent, text |-> summary[p].text, at |-> summary[p].at,
                   old |-> summary[p].old, orphaned |-> summary[p].orphaned]
  BY <1>1 DEF IsSummary
<1> QED
  BY <1>1, <1>2

LEMMA RegenerateAsks ==
  ASSUME AskedInv, Regenerate
  PROVE  AskedRuns' /\ AskedRows'
<1>0. DataTyped /\ UNCHANGED <<run, item>>
  BY DEF AskedInv, RowInv, Regenerate, MarkForResummary, workerVars
<1>1. /\ asked \subseteq Path /\ asked' \subseteq Path /\ lapsed \subseteq lapsed'
      /\ \A p \in asked' : p \in asked \/ (entry[p] = "ok" /\ Allowed(p) /\ ~Begun(p))
  BY <1>0 DEF Regenerate, Ignored, DataTyped, FilesTyped
<1>2. \A p \in Path : Summarized(p)' => Summarized(p) /\ summary'[p].hash = Absent
  BY <1>0, RegenerateBlanks
<1>3. AskedRuns'
  <2> SUFFICES ASSUME NEW w \in Worker, run[w].step # "none", item[w] \in asked'
               PROVE  /\ run[w].step \notin {"skip", "written"}
                      /\ run[w].step = "empty" => item[w] \in lapsed'
    BY <1>0 DEF AskedRuns
  <2>1. item[w] \in asked
    BY <1>1 DEF Begun
  <2> QED
    BY <1>1, <2>1 DEF AskedInv, AskedRuns
<1>4. ASSUME NEW p \in asked', p \notin lapsed', Summarized(p)' PROVE state'[p] # "done"
  <2>1. CASE p \in asked
    BY <1>1, <1>2, <1>4, <2>1 DEF Regenerate, MarkForResummary, AskedInv, AskedRows
  <2>2. CASE entry[p] = "ok" /\ Allowed(p)
    BY <1>1, <1>4, <2>2 DEF Regenerate, MarkForResummary
  <2> QED
    BY <1>1, <1>4, <2>1, <2>2
<1> QED
  BY <1>1, <1>2, <1>3, <1>4 DEF AskedRows

\* The history changes by a regeneration, by the end of a run's work, and by marks
\* that come too early.
LEMMA HistorySteps ==
  ASSUME [PipelineNext]_<<vars, pipeVars>>, ~Regenerate,
         ~ \E w \in Worker : Run(w) /\ ~Ending(w)
  PROVE  UNCHANGED asked /\ lapsed \subseteq lapsed'
BY DEF PipelineNext, pipeVars, pastVars, QueueStep, Run, Ending, RefuseFile, Complete,
  DescriberError, Disk, Tick, Watch, WatchRead, WatchGone, WatchRemove, WatchStore, WatchMark,
  ScanUpsert, ScanPrune, EnqueueSubtree, Deep, Ignored

LEMMA OrderlyAsked ==
  ASSUME AskedInv, [PipelineNext]_<<vars, pipeVars>>, ~Regenerate,
         ~ \E w \in Worker : Run(w) /\ ~Ending(w)
  PROVE  AskedRuns' /\ AskedRows'
<1>1. UNCHANGED asked /\ lapsed \subseteq lapsed'
  BY HistorySteps
<1>2. RunsCarryOn /\ SummariesFade /\ DataTyped /\ asked \subseteq Path
  BY OrderlyStep DEF AskedInv, RowInv, DataTyped, FilesTyped
<1>3. \A p \in Path : Summarized(p)' => Summarized(p) /\ summary'[p].hash \in {summary[p].hash, Absent}
  BY <1>2 DEF SummariesFade, Summarized
<1>4. AskedRuns'
  <2>1. \A w \in Worker : run'[w].step # "none" => run'[w] = run[w] /\ item'[w] = item[w]
    BY <1>2 DEF RunsCarryOn
  <2> QED
    BY <1>1, <2>1 DEF AskedInv, AskedRuns
<1>5. ASSUME NEW p \in asked, p \notin lapsed', Summarized(p)', state'[p] = "done" PROVE FALSE
  <2>1. state[p] # "done" /\ Summarized(p) /\ p \notin lapsed
    BY <1>1, <1>2, <1>3, <1>5 DEF AskedInv, AskedRows
  <2>2. ASSUME NEW S, p \in S, Forget(S) PROVE FALSE
    BY <1>5, <2>2 DEF Forget, Summarized
  <2>3. PICK w \in Worker : Complete(w) /\ item[w] = p
    BY <1>2, <1>5, <2>1, <2>2, RowSteps
  <2> QED
    BY <2>1, <2>3 DEF Complete, AskedInv, AskedRuns
<1> QED
  BY <1>1, <1>2, <1>3, <1>4, <1>5 DEF AskedInv, AskedRows

LEMMA MidRunAsked ==
  ASSUME AskedInv, NEW w \in Worker, Run(w), ~Ending(w)
  PROVE  AskedRuns' /\ AskedRows'
<1> DEFINE p == item[w]
<1>0. DataTyped /\ asked \subseteq Path
  BY DEF AskedInv, RowInv, DataTyped, FilesTyped
<1>1. /\ UNCHANGED <<state, item>> /\ p \in Path
      /\ phase[w] = "running"
      /\ \A v \in Worker : v # w => run'[v] = run[v]
      /\ \A q \in Path : q # p =>
           /\ (q \in lapsed' <=> q \in lapsed)
           /\ (Summarized(q)' <=> Summarized(q))
           /\ (Summarized(q) => summary'[q] = summary[q])
  BY <1>0, MidRun
<1>2. asked' \subseteq asked
  BY DEF Run, Ending, BeginFile, Sample, BeginDir, EmptyAnswer, Write, pastVars
<1>3. CASE Write(w)
  <2>1. p \notin asked'
    BY <1>3 DEF Write
  <2> QED
    BY <1>0, <1>1, <1>2, <2>1 DEF AskedInv, AskedRuns, AskedRows
<1>4. CASE ~Write(w)
  <2>1. UNCHANGED summary
    BY <1>4 DEF Run, Ending, BeginFile, Sample, BeginDir, EmptyAnswer, Advance, storeVars
  <2>2. p \in Dir => state[p] = "in_flight" /\ \A v \in Worker : v # w /\ run[v].step # "none" => item[v] # p
    BY <1>0, <1>1, BusyHolds DEF AskedInv, HandsOn
  <2>3. ASSUME p \in asked'
        PROVE  /\ run'[w].step \notin {"skip", "written"}
               /\ run'[w].step = "empty" => p \in lapsed'
    <3>1. ~Gate(p, disk[p]) /\ ~Gate(p, DirHash(p))
      BY <1>2, <2>3 DEF Gate, AskedInv, AskedRows
    <3>2. \/ run'[w].step = (IF Gate(p, disk[p]) THEN "skip" ELSE "gated")
          \/ /\ run'[w].step = (IF SampleOf(p) = Absent THEN "empty" ELSE "sampled")
             /\ lapsed' = (IF SampleOf(p) = Absent THEN lapsed \cup {p} ELSE lapsed)
          \/ /\ run'[w].step = (IF SummarizedChildren(p) = {} THEN "empty"
                                  ELSE IF Gate(p, DirHash(p)) THEN "skip" ELSE "sampled")
             /\ SummarizedChildren(p) = {} => p \in lapsed'
          \/ run'[w].step = "empty" /\ lapsed' = lapsed \cup {p}
      BY <1>0, <1>1, <1>4, MidRunSteps
    <3> QED
      BY <2>3, <3>1, <3>2
  <2>4. p \in lapsed /\ p \notin lapsed' => p \in Dir
    BY <1>0, <1>1, <1>4, MidRunSteps
  <2>5. AskedRuns'
    <3> SUFFICES ASSUME NEW v \in Worker, run'[v].step # "none", item[v] \in asked'
                 PROVE  /\ run'[v].step \notin {"skip", "written"}
                        /\ run'[v].step = "empty" => item[v] \in lapsed'
      BY <1>1 DEF AskedRuns
    <3>1. CASE v = w
      BY <2>3, <3>1
    <3>2. CASE v # w
      <4>1. run'[v] = run[v] /\ item[v] \in asked
        BY <1>1, <1>2, <3>2
      <4>2. /\ run[v].step \notin {"skip", "written"}
            /\ run[v].step = "empty" => item[v] \in lapsed
        BY <4>1 DEF AskedInv, AskedRuns
      <4> QED
        BY <1>0, <1>1, <2>2, <2>4, <3>2, <4>1, <4>2
    <3> QED
      BY <3>1, <3>2
  <2>6. AskedRows'
    BY <1>0, <1>1, <1>2, <2>1, <2>2, <2>4 DEF AskedInv, AskedRows, Summarized
  <2> QED
    BY <2>5, <2>6
<1> QED
  BY <1>3, <1>4

LEMMA NextAsked ==
  ASSUME SweeperAlone, AskedInv, [PipelineNext]_<<vars, pipeVars>>
  PROVE  AskedInv'
<1>1. RowInv' /\ HandsOn(Dir)'
  BY NextRow, NextHands, DirsStay DEF AskedInv, RowInv
<1> QED
  BY <1>1, RegenerateAsks, OrderlyAsked, MidRunAsked DEF AskedInv

\* What Regenerate was asked for is not done before it has been generated anew,
\* although its bytes have the hash they had: requeue_subtree blanks every stored hash
\* before it marks the rows, and nothing a loop, a crash, a sweep, a removal or a later
\* request does meanwhile brings a hash back but the new summary.  Regenerate may come
\* while runs are in hand: what those have read already is not on the list of what was
\* asked for (their rows are not marked, and they store the hash they took), all else is;
\* provided that no second process sweeps.
THEOREM RegenerateDelivers ==
  SweeperAlone => (PipelineSpec => []RegenerateDefeatsGate)
<1> SUFFICES ASSUME SweeperAlone PROVE PipelineSpec => []RegenerateDefeatsGate
  OBVIOUS
<1>1. AskedInv /\ [PipelineNext]_<<vars, pipeVars>> => AskedInv'
  BY NextAsked
<1>2. AskedInv => RegenerateDefeatsGate
  BY DEF AskedInv, AskedRows, RegenerateDefeatsGate
<1> QED
  BY InitAsked, <1>1, <1>2, PTL DEF PipelineSpec

-----------------------------------------------------------------------------
(* Roll-ups forget removed files.                                           *)

WatchedAlone == Watching /\ SweeperAlone /\ SomethingLasts

\* The watcher has been told of every file that has an entry, or is about to get one,
\* and is gone; and whatever it has yet to mark, it has yet to mark all above it.
WatcherKnows ==
  /\ \A f \in File :
       disk[f] = Absent /\ (entry[f] # "none" \/ (watch.step = "read" /\ watch.file = f))
         => <<"remove", f>> \in touched
  /\ \A p \in watch.todo : Ancestors[p] \subseteq watch.todo

LEMMA InitKnows == PipelineInit => WatcherKnows
<1> SUFFICES ASSUME PipelineInit PROVE WatcherKnows
  OBVIOUS
<1>1. \A f \in File : entry[f] # "none" => disk[f] # Absent
  BY PipelineAssumption DEF PipelineAssumption, PipelineInit
<1>2. watch.step = "idle" /\ watch.todo = {}
  BY DEF PipelineInit, Idle
<1> QED
  BY <1>1, <1>2 DEF WatcherKnows

LEMMA DiskKnows ==
  ASSUME Watching, FilesTyped, WatcherKnows, Disk
  PROVE  WatcherKnows'
<1> USE FilesArePaths DEF FilesTyped
<1>1. UNCHANGED <<entry, watch>>
  BY DEF Disk, vars
<1>2. ASSUME NEW g \in File, WriteDisk(g)
      PROVE  /\ touched \subseteq touched' /\ disk'[g] # Absent
             /\ \A f \in File : f # g => disk'[f] = disk[f]
  <2>1. touched \subseteq touched'
    BY <1>2 DEF WriteDisk, Notify
  <2>2. PICK c \in Content : disk' = [disk EXCEPT ![g] = c]
    BY <1>2, PipelineAssumption DEF PipelineAssumption, WriteDisk, Content
  <2> QED
    BY <2>1, <2>2, PipelineAssumption DEF PipelineAssumption, Content
<1>3. ASSUME NEW g \in File, Delete(g)
      PROVE  /\ touched' = touched \cup {<<"remove", g>>}
             /\ \A f \in File : f # g => disk'[f] = disk[f]
  BY <1>3 DEF Delete, Notify
<1>4. ASSUME NEW g \in File, Edit(g) \/ Create(g) PROVE WatcherKnows'
  <2>1. /\ touched \subseteq touched' /\ disk'[g] # Absent
        /\ \A f \in File : f # g => disk'[f] = disk[f]
    BY <1>2, <1>4 DEF Edit, Create
  <2> QED
    BY <1>1, <2>1 DEF WatcherKnows
<1>5. ASSUME NEW g \in File, Delete(g) PROVE WatcherKnows'
  BY <1>1, <1>3, <1>5 DEF WatcherKnows
<1> QED
  BY <1>4, <1>5 DEF Disk

LEMMA ClosedBelow ==
  ASSUME NEW p \in Path
  PROVE  /\ \A d \in Ancestors[p] : Ancestors[d] \subseteq Ancestors[p] /\ d \in Dir /\ Depth[d] < Depth[p]
         /\ \A q \in WithAncestors({p}) : Ancestors[q] \subseteq WithAncestors({p})
<1>1. \A d \in Ancestors[p] : Ancestors[d] \subseteq Ancestors[p] /\ d \in Dir /\ Depth[d] < Depth[p]
  BY PipelineAssumption, QueueAssumption DEF PipelineAssumption, QueueAssumption
<1>2. WithAncestors({p}) = {p} \cup Ancestors[p]
  BY DEF WithAncestors
<1> QED
  BY <1>1, <1>2

LEMMA WatchKnows ==
  ASSUME FilesTyped, WatcherKnows, Watch
  PROVE  WatcherKnows'
<1> USE FilesArePaths DEF FilesTyped
<1>1. ASSUME NEW g \in File, WatchRead(g) \/ WatchGone(g) PROVE WatcherKnows'
  <2>1. /\ UNCHANGED <<entry, disk>> /\ touched' = touched \ {<<"upsert", g>>} /\ watch = Idle
    BY <1>1 DEF WatchRead, WatchGone, HandleUpsert, vars, diskVars
  <2>2. \A f \in File : <<"remove", f>> \in touched => <<"remove", f>> \in touched'
    BY <2>1
  <2>3. CASE WatchGone(g)
    BY <2>1, <2>2, <2>3 DEF WatchGone, WatcherKnows
  <2>4. CASE WatchRead(g)
    <3>1. disk[g] # Absent /\ watch'.step = "read" /\ watch'.file = g /\ watch'.todo = {}
      BY <2>4 DEF WatchRead, Idle
    <3> QED
      BY <2>1, <2>2, <3>1 DEF WatcherKnows
  <2> QED
    BY <1>1, <2>3, <2>4
<1>2. ASSUME NEW g \in Volatile, WatchRemove(g) PROVE WatcherKnows'
  <2>1. /\ entry' = [p \in Path |-> IF p \in {g} THEN "none" ELSE entry[p]] /\ UNCHANGED disk
        /\ touched' = touched \ {<<"remove", g>>}
        /\ watch'.step = "mark" /\ watch'.todo = Ancestors[g]
    BY <1>2 DEF WatchRemove, Forget, DeleteEntries, diskVars, Idle
  <2>2. \A f \in File : f # g /\ <<"remove", f>> \in touched => <<"remove", f>> \in touched'
    BY <2>1
  <2>3. \A p \in watch'.todo : Ancestors[p] \subseteq watch'.todo
    BY <2>1, ClosedBelow
  <2> QED
    BY <2>1, <2>2, <2>3 DEF WatcherKnows
<1>3. CASE WatchStore
  <2>1. /\ entry' = [p \in Path |-> IF p = watch.file THEN "ok" ELSE entry[p]]
        /\ UNCHANGED <<disk, touched>> /\ watch.step = "read" /\ watch.file \in File
        /\ watch'.step = "mark" /\ watch'.todo = WithAncestors({watch.file})
    BY <1>3 DEF WatchStore, UpsertEntries, diskVars, Idle, WatchTyped
  <2>2. \A p \in watch'.todo : Ancestors[p] \subseteq watch'.todo
    BY <2>1, ClosedBelow
  <2> QED
    BY <2>1, <2>2 DEF WatcherKnows
<1>4. CASE WatchMark
  <2>1. PICK p \in Deepest(watch.todo) : watch' = IF watch.todo = {p} THEN Idle
                                                  ELSE [watch EXCEPT !.todo = @ \ {p}]
    BY <1>4 DEF WatchMark
  <2>2. UNCHANGED <<entry, disk, touched>> /\ watch.step = "mark"
    BY <1>4 DEF WatchMark, MarkForResummary, diskVars
  <2>3. watch'.todo = watch.todo \ {p} /\ watch'.step # "read"
    <3>1. CASE watch.todo = {p}
      BY <2>1, <3>1 DEF Idle
    <3>2. CASE watch.todo # {p}
      <4>1. watch' = [step |-> watch.step, file |-> watch.file, text |-> watch.text,
                      time |-> watch.time, todo |-> watch.todo \ {p}]
        BY <2>1, <3>2 DEF WatchTyped
      <4> QED
        BY <2>2, <4>1
    <3> QED
      BY <3>1, <3>2
  <2>4. \A q \in watch.todo \ {p} : p \notin Ancestors[q]
    <3>1. \A q \in watch.todo : q \in Path /\ Depth[q] \in Nat /\ Depth[q] <= Depth[p] /\ Depth[p] \in Nat
      BY <2>1, QueueAssumption DEF QueueAssumption, Deepest, WatchTyped
    <3>2. \A q \in watch.todo : p \in Ancestors[q] => Depth[p] < Depth[q]
      BY <3>1, ClosedBelow
    <3> QED
      BY <3>1, <3>2
  <2> QED
    BY <2>2, <2>3, <2>4 DEF WatcherKnows
<1> QED
  BY <1>1, <1>2, <1>3, <1>4 DEF Watch

LEMMA NextKnows ==
  ASSUME Watching, DataTyped, WatcherKnows, [PipelineNext]_<<vars, pipeVars>>
  PROVE  WatcherKnows'
<1> USE FilesArePaths
<1>0. FilesTyped /\ WatchTyped
  BY DEF DataTyped, FilesTyped
<1>1. CASE Disk \/ Watch
  BY <1>0, <1>1, DiskKnows, WatchKnows
<1>2. CASE ~Disk /\ ~Watch
  <2>1. UNCHANGED <<disk, touched, watch>>
    BY <1>2 DEF PipelineNext, pipeVars, QueueStep, diskVars, watchVars, Run, BeginFile, RefuseFile,
      Sample, BeginDir, EmptyAnswer, Write, Complete, DescriberError, Advance, Tick, ScanUpsert,
      ScanPrune, EnqueueSubtree, Regenerate, Deep
  <2>2. \A f \in File : disk[f] = Absent /\ entry'[f] # "none" => entry[f] # "none"
    <3>1. CASE ScanUpsert
      BY <3>1 DEF ScanUpsert, UpsertEntries, Present, File
    <3>2. ASSUME NEW g \in File, Deep(g) PROVE <2>2
      BY <3>2 DEF Deep, UpsertEntries
    <3>3. CASE UNCHANGED entry
      BY <3>3
    <3>4. ASSUME NEW S \in SUBSET Volatile, Forget(S) PROVE <2>2
      BY <3>4 DEF Forget, DeleteEntries
    <3>5. CASE Tick \/ EnqueueSubtree \/ Regenerate
      BY <3>3, <3>5 DEF Tick, EnqueueSubtree, Regenerate, MarkForResummary, vars
    <3>6. CASE ScanPrune
      BY <3>4, <3>6 DEF ScanPrune
    <3> QED
      BY <1>0, <1>2, <3>1, <3>2, <3>3, <3>5, <3>6, EntrySteps DEF Outside
  <2> QED
    BY <2>1, <2>2 DEF WatcherKnows
<1> QED
  BY <1>1, <1>2

\* A stored Merkle hash names every child the roll-up speaks of.
Covers(hash, text) == hash # Absent => \A c \in DOMAIN text : \E h \in hash : h[1] = c

\* So do the roll-ups in hand; no secret is summarized, and no directory is an orphan.
Grounded ==
  /\ \A d \in Dir : Summarized(d) => Covers(summary[d].hash, summary[d].text)
  /\ \A w \in Worker : run[w].step = "sampled" /\ item[w] \in Dir =>
       Covers(run[w].hash, run[w].text)
  /\ \A p \in Path : Summarized(p) => p \notin Sensitive
  /\ \A w \in Worker : phase[w] = "orphaned" => item[w] \notin Dir

LEMMA InitGrounded == PipelineInit => Grounded
BY DEF PipelineInit, Init, Grounded, Summarized, NoRun

LEMMA DirsAllowed ==
  ASSUME RowInv, NEW d \in Dir, d \notin Sensitive
  PROVE  d \in Path /\ d \notin Volatile /\ entry[d] = "ok" /\ Allowed(d)
BY FilesArePaths, QueueAssumption DEF QueueAssumption, RowInv, LastingEntries, File, Allowed

LEMMA RollUpCovered ==
  ASSUME NEW d
  PROVE  /\ DOMAIN RollUp(d) = SummarizedChildren(d)
         /\ Covers(DirHash(d), RollUp(d))
<1>1. DOMAIN RollUp(d) = SummarizedChildren(d)
  BY DEF RollUp
<1>2. ASSUME DirHash(d) # Absent, NEW c \in SummarizedChildren(d)
      PROVE  \E h \in DirHash(d) : h[1] = c
  <2>1. DirHash(d) = {<<b, summary[b].hash>> : b \in SummarizedChildren(d)}
    BY <1>2 DEF DirHash
  <2>2. <<c, summary[c].hash>> \in DirHash(d)
    BY <2>1
  <2> QED
    BY <2>2
<1> QED
  BY <1>1, <1>2 DEF Covers

LEMMA NextGrounded ==
  ASSUME RowInv, Grounded, [PipelineNext]_<<vars, pipeVars>>
  PROVE  Grounded'
<1>0. DataTyped /\ Dir \subseteq Path
  BY QueueAssumption DEF RowInv, QueueAssumption
<1>1. \A w \in Worker : phase'[w] = "orphaned" => item'[w] \notin Dir
  <2> TAKE w \in Worker
  <2> HAVE phase'[w] = "orphaned"
  <2>1. item'[w] = item[w] /\ (phase[w] = "orphaned" \/ ~Allowed(item[w]))
    BY <1>0, OrphanSteps
  <2>2. item[w] \in Dir => Allowed(item[w])
    BY DirsAllowed DEF RowInv, SecretsUnqueued
  <2> QED
    BY <2>1, <2>2 DEF Grounded
<1>2. CASE ~ \E w \in Worker : Run(w) /\ ~Ending(w)
  <2>1. RunsCarryOn /\ SummariesFade
    BY <1>0, <1>2, OrderlyStep
  <2>2. \A p \in Path : Summarized(p)' =>
          /\ Summarized(p) /\ summary'[p].text = summary[p].text
          /\ summary'[p].hash \in {summary[p].hash, Absent}
    BY <2>1 DEF SummariesFade, Summarized
  <2>3. \A w \in Worker : run'[w].step = "sampled" => run'[w] = run[w] /\ item'[w] = item[w]
    BY <2>1 DEF RunsCarryOn
  <2> QED
    BY <1>0, <1>1, <2>2, <2>3 DEF Grounded, Covers
<1>3. ASSUME NEW w \in Worker, Run(w), ~Ending(w) PROVE Grounded'
  <2> DEFINE p == item[w]
  <2>1. /\ p \in Path /\ p \notin Sensitive /\ UNCHANGED item
        /\ \A v \in Worker : v # w => run'[v] = run[v]
        /\ \A q \in Path : q # p => /\ (Summarized(q)' <=> Summarized(q))
                                    /\ (Summarized(q) => summary'[q] = summary[q])
    BY <1>0, <1>3, MidRun DEF RowInv, SecretsUnqueued
  <2>2. p \in Dir /\ run'[w].step = "sampled" => Covers(run'[w].hash, run'[w].text)
    <3>1. p \in Dir /\ run'[w].step = "sampled" =>
            run'[w].hash = DirHash(p) /\ run'[w].text = RollUp(p)
      BY <1>0, <1>3, <2>1, MidRunSteps DEF File
    <3> QED
      BY <3>1, RollUpCovered
  <2>3. p \in Dir /\ Summarized(p)' => Covers(summary'[p].hash, summary'[p].text)
    <3>1. UNCHANGED summary
            \/ /\ run[w].step = "sampled"
               /\ summary'[p].hash = run[w].hash /\ summary'[p].text = run[w].text
      BY <1>0, <1>3, <2>1, MidRunSteps
    <3>2. CASE UNCHANGED summary
      <4>1. p \in Dir /\ Summarized(p) => Covers(summary[p].hash, summary[p].text)
        BY DEF Grounded
      <4>2. Summarized(p)' => Summarized(p)
        BY <2>1, <3>2 DEF Summarized
      <4> QED
        BY <3>2, <4>1, <4>2
    <3>3. ASSUME p \in Dir, run[w].step = "sampled",
                 summary'[p].hash = run[w].hash /\ summary'[p].text = run[w].text
          PROVE  Covers(summary'[p].hash, summary'[p].text)
      <4>1. Covers(run[w].hash, run[w].text)
        BY <3>3 DEF Grounded
      <4> QED
        BY <3>3, <4>1
    <3> QED
      BY <3>1, <3>2, <3>3
  <2> QED
    BY <1>0, <1>1, <2>1, <2>2, <2>3 DEF Grounded, Covers
<1> QED
  BY <1>2, <1>3

\* A marked directory is queued, or its row is worked on; the latter is remembered.
LEMMA MarkedDir ==
  ASSUME RowInv, NEW d \in Dir, d \notin Sensitive, NEW S, d \in S, MarkForResummary(S), Ignored(S)
  PROVE  state'[d] \notin {"none", "done"} /\ (Held(d) => d \in lapsed')
BY DirsAllowed DEF MarkForResummary, Ignored

LEMMA WatchMarks ==
  ASSUME WatchTyped, WatchMark
  PROVE  \E p \in Deepest(watch.todo) :
           MarkForResummary({p}) /\ Ignored({p}) /\ watch'.todo = watch.todo \ {p}
<1>1. PICK p \in Deepest(watch.todo) :
        /\ MarkForResummary({p}) /\ Ignored({p})
        /\ watch' = IF watch.todo = {p} THEN Idle ELSE [watch EXCEPT !.todo = @ \ {p}]
  BY DEF WatchMark
<1>2. CASE watch.todo = {p}
  BY <1>1, <1>2 DEF Idle
<1>3. CASE watch.todo # {p}
  <2>1. watch' = [step |-> watch.step, file |-> watch.file, text |-> watch.text,
                  time |-> watch.time, todo |-> watch.todo \ {p}]
    BY <1>1, <1>3 DEF WatchTyped
  <2> QED
    BY <1>1, <2>1
<1> QED
  BY <1>2, <1>3

\* What the watcher has yet to mark it marks, or still has to.
Told(d) == d \in watch'.todo \/ (state'[d] \notin {"none", "done"} /\ (Held(d) => d \in lapsed'))

LEMMA TodoSteps ==
  ASSUME RowInv, [PipelineNext]_<<vars, pipeVars>>, NEW d \in Dir, d \notin Sensitive, d \in watch.todo
  PROVE  Told(d)
<1>0. FilesTyped /\ WatchTyped /\ watch # Idle /\ watch.step = "mark"
  BY DEF RowInv, DataTyped, FilesTyped, Idle
<1>1. CASE WatchMark
  <2>1. PICK p \in Deepest(watch.todo) :
           MarkForResummary({p}) /\ Ignored({p}) /\ watch'.todo = watch.todo \ {p}
    BY <1>0, <1>1, WatchMarks
  <2>2. CASE p = d
    BY <2>1, <2>2, MarkedDir DEF Told
  <2>3. CASE p # d
    BY <2>1, <2>3 DEF Told
  <2> QED
    BY <2>2, <2>3
<1>2. CASE UNCHANGED watch
  BY <1>2 DEF Told
<1> QED
  BY <1>0, <1>1, <1>2 DEF PipelineNext, pipeVars, watchVars, QueueStep, Run, BeginFile, RefuseFile,
    Sample, BeginDir, EmptyAnswer, Write, Complete, DescriberError, Advance, Disk, Tick, ScanUpsert,
    ScanPrune, EnqueueSubtree, Regenerate, Deep, Watch, WatchRead, WatchGone, WatchRemove,
    HandleUpsert, WatchStore

\* Nothing is left of what a roll-up speaks of.
Gone(c) == entry[c] = "none" /\ ~Summarized(c)
Dead(S) == \E c \in S : Gone(c)

\* A removal below d is still to be handled or marked ...
ToTell(d) ==
  \/ \E f \in File : d \in Ancestors[f] /\ <<"remove", f>> \in touched
  \/ d \in watch.todo
\* ... or d is still to be summarized.
Owed(d) == ToTell(d) \/ state[d] \notin {"none", "done"}

RunsAlive ==
  \A w \in Worker, d \in Dir : item[w] = d =>
    /\ run[w].step = "sampled" =>
         ~Dead(DOMAIN run[w].text) \/ d \in lapsed \/ ToTell(d)
    /\ run[w].step \in {"skip", "written"} =>
         Summarized(d) /\ (~Dead(DOMAIN summary[d].text) \/ d \in lapsed \/ ToTell(d))
    /\ run[w].step = "empty" => d \in lapsed

RollUpsAlive ==
  \A d \in Dir \ lapsed : Summarized(d) /\ Dead(DOMAIN summary[d].text) => Owed(d)

DeadInv ==
  GhostInv /\ HandsOn(Dir) /\ WatcherKnows /\ Grounded /\ RunsAlive /\ RollUpsAlive

LEMMA InitDead == PipelineInit => DeadInv
<1> SUFFICES ASSUME PipelineInit PROVE DeadInv
  OBVIOUS
<1>1. GhostInv /\ HandsOn(Dir) /\ WatcherKnows /\ Grounded
  BY InitGhost, InitHands, DirsStay, InitKnows, InitGrounded
<1> QED
  BY <1>1 DEF PipelineInit, DeadInv, RunsAlive, RollUpsAlive, Summarized, NoRun

\* When the last that is left of a path goes, the watcher knows it has gone, or has the
\* directories above it to mark.
LEMMA DeadSteps ==
  ASSUME RowInv, WatcherKnows, [PipelineNext]_<<vars, pipeVars>>,
         NEW c \in Path, ~Gone(c), Gone(c)'
  PROVE  c \in File /\ (<<"remove", c>> \in touched' \/ watch'.todo = Ancestors[c])
<1>0. DataTyped /\ WatchTyped
  BY DEF RowInv, DataTyped, FilesTyped
<1>1. \A S : UpsertEntries(S, "ok") => ~UNCHANGED summary
  BY DEF Gone, UpsertEntries, Summarized
<1>2. \A S : Forget(S) => c \in S
  BY DEF Gone, Forget, DeleteEntries, Summarized
<1>3. Outside /\ \E S \in SUBSET Volatile : c \in S /\ Forget(S)
  <2>1. CASE entry[c] # "none"
    <3>1. \A S : UpsertEntries(S, "ok") => entry'[c] # "none"
      BY <2>1 DEF UpsertEntries
    <3>2. entry'[c] = "none"
      BY DEF Gone
    <3> QED
      BY <1>0, <1>2, <2>1, <3>1, <3>2, EntrySteps
  <2>2. CASE Summarized(c)
    BY <1>0, <2>2, KeptSummaries DEF Gone
  <2> QED
    BY <2>1, <2>2 DEF Gone
<1>4. c \in File
  BY <1>3, FilesArePaths
<1>5. CASE ScanPrune
  <2>1. entry[c] # "none" /\ disk[c] = Absent /\ UNCHANGED touched
    BY <1>2, <1>5 DEF ScanPrune, watchVars
  <2> QED
    BY <1>4, <2>1 DEF WatcherKnows
<1>6. ASSUME NEW f \in Volatile, WatchRemove(f)
      PROVE  watch'.todo = Ancestors[c]
  <2>1. c = f
    BY <1>2, <1>6 DEF WatchRemove
  <2> QED
    BY <1>6, <2>1 DEF WatchRemove, Idle
<1>7. ~UNCHANGED <<entry, summary>>
  BY DEF Gone, Summarized
<1>8. CASE Watch
  BY <1>1, <1>4, <1>6, <1>7, <1>8 DEF Gone, Watch, WatchRead, WatchGone, WatchStore, WatchMark,
    MarkForResummary, vars, storeVars
<1>9. CASE Regenerate
  BY <1>9 DEF Gone, Regenerate, MarkForResummary, Summarized
<1>10. CASE Disk \/ Tick \/ ScanUpsert \/ EnqueueSubtree \/ \E f \in File : Deep(f)
  BY <1>1, <1>7, <1>10 DEF Gone, Disk, Tick, ScanUpsert, EnqueueSubtree, Deep,
    MarkForResummary, vars, storeVars
<1> QED
  BY <1>3, <1>4, <1>5, <1>6, <1>8, <1>9, <1>10 DEF Outside

\* What is queued of a directory is settled by a run of it only.
LEMMA UnsettledSteps ==
  ASSUME RowInv, Grounded, [PipelineNext]_<<vars, pipeVars>>,
         NEW d \in Dir, d \notin Sensitive, state[d] \notin {"none", "done"},
         state'[d] \in {"none", "done"}
  PROVE  \E w \in Worker : Complete(w) /\ item[w] = d
<1>1. DataTyped /\ d \in Path /\ d \notin Volatile
  BY DirsAllowed DEF RowInv
<1>2. ~ \E w \in Worker : phase[w] = "orphaned" /\ item[w] = d
  BY DEF Grounded
<1> QED
  BY <1>1, <1>2, RowSteps

\* What is to be told of d is told, or still to be: if d is in hand, that is remembered.
LEMMA TellSteps ==
  ASSUME RowInv, [PipelineNext]_<<vars, pipeVars>>, NEW d \in Dir, d \notin Sensitive,
         ToTell(d), ~ToTell(d)'
  PROVE  state'[d] \notin {"none", "done"} /\ (Held(d) => d \in lapsed')
<1>1. CASE d \in watch.todo
  BY <1>1, TodoSteps DEF Told, ToTell
<1>2. ASSUME NEW f \in File, d \in Ancestors[f], <<"remove", f>> \in touched PROVE FALSE
  <2>1. <<"remove", f>> \notin touched' /\ d \notin watch'.todo
    BY <1>2 DEF ToTell
  <2>2. CASE Disk
    BY <2>1, <1>2, <2>2 DEF Disk, Edit, Create, Delete, WriteDisk, Notify
  <2>3. CASE Watch
    <3>1. ASSUME NEW g \in Volatile, WatchRemove(g) PROVE FALSE
      <4>1. g = f
        BY <1>2, <2>1, <3>1 DEF WatchRemove
      <4> QED
        BY <1>2, <2>1, <3>1, <4>1 DEF WatchRemove, Idle
    <3>2. ASSUME NEW g \in File, WatchRead(g) \/ WatchGone(g) PROVE FALSE
      BY <1>2, <2>1, <3>2 DEF WatchRead, WatchGone, HandleUpsert
    <3> QED
      BY <1>2, <2>1, <2>3, <3>1, <3>2, FilesArePaths DEF Watch, WatchStore, WatchMark
  <2> QED
    BY <1>2, <2>1, <2>2, <2>3 DEF PipelineNext, pipeVars, watchVars, QueueStep, Run, BeginFile,
      RefuseFile, Sample, BeginDir, EmptyAnswer, Write, Complete, DescriberError, Advance, Tick,
      ScanUpsert, ScanPrune, EnqueueSubtree, Regenerate, Deep
<1> QED
  BY <1>1, <1>2 DEF ToTell

\* A removal that a directory is owed for stays so until its row has been worked off.
LEMMA OwedSteps ==
  ASSUME RowInv, Grounded, [PipelineNext]_<<vars, pipeVars>>,
         NEW d \in Dir, d \notin Sensitive, Owed(d), ~Owed(d)'
  PROVE  \E w \in Worker : Complete(w) /\ item[w] = d
<1>1. CASE ToTell(d)
  BY <1>1, TellSteps DEF Owed
<1>2. CASE state[d] \notin {"none", "done"}
  BY <1>2, UnsettledSteps DEF Owed
<1> QED
  BY <1>1, <1>2 DEF Owed

\* Only a directory's own beginning takes it off the list of the lapsed.
LEMMA LapsedDirs ==
  ASSUME [PipelineNext]_<<vars, pipeVars>>, NEW d \in Dir, d \in lapsed, d \notin lapsed'
  PROVE  \E w \in Worker : BeginDir(w) /\ item[w] = d
<1>1. ASSUME NEW w \in Worker, Run(w) PROVE BeginDir(w) /\ item[w] = d
  BY <1>1 DEF Run, BeginFile, RefuseFile, Sample, BeginDir, EmptyAnswer, Write, Complete,
    DescriberError, pipeVars, pastVars, AtStep, File
<1>2. ~UNCHANGED pastVars
  BY DEF pastVars
<1> QED
  BY <1>1, <1>2 DEF PipelineNext, pipeVars, QueueStep, Disk, Tick, Watch, WatchRead, WatchGone,
    WatchRemove, WatchStore, WatchMark, ScanUpsert, ScanPrune, EnqueueSubtree, Regenerate, Deep,
    Ignored, pastVars

\* The run of another loop, or one that a step carries on: if anything it has read
\* dies, its directory is marked while in hand, or still to be.
LEMMA CarriedAlive ==
  ASSUME DeadInv, [PipelineNext]_<<vars, pipeVars>>, NEW w \in Worker, NEW d \in Dir,
         item[w] = d, run'[w] = run[w], run[w].step # "none",
         d \in lapsed => d \in lapsed',
         Summarized(d) => Summarized(d)' /\ summary'[d].text = summary[d].text
  PROVE  /\ run'[w].step = "sampled" =>
              ~Dead(DOMAIN run[w].text)' \/ d \in lapsed' \/ ToTell(d)'
         /\ run'[w].step \in {"skip", "written"} =>
              /\ Summarized(d)'
              /\ ~Dead(DOMAIN summary[d].text)' \/ d \in lapsed' \/ ToTell(d)'
         /\ run'[w].step = "empty" => d \in lapsed'
<1>0. DataTyped /\ RowInv /\ d \in Path /\ d \notin Sensitive /\ WatcherKnows
  BY QueueAssumption DEF DeadInv, GhostInv, RowInv, SecretsUnqueued, QueueAssumption
<1>1. Held(d)
  BY <1>0, BusyHolds
<1>2. d \in lapsed \/ ToTell(d) => d \in lapsed' \/ ToTell(d)'
  BY <1>0, <1>1, TellSteps
<1>3. ASSUME NEW S \in SUBSET Children(d), ~Dead(S), Dead(S)' PROVE ToTell(d)'
  <2>1. PICK c \in S : Gone(c)' /\ ~Gone(c)
    BY <1>3 DEF Dead
  <2>2. c \in Path /\ d \in Ancestors[c]
    BY <2>1 DEF Children
  <2>3. c \in File /\ (<<"remove", c>> \in touched' \/ watch'.todo = Ancestors[c])
    BY <1>0, <2>1, <2>2, DeadSteps
  <2> QED
    BY <2>2, <2>3 DEF ToTell
<1>4. DirRun(run[w], d) /\ (Summarized(d) => DOMAIN summary[d].text \subseteq Children(d))
  BY <1>0 DEF DataTyped, RunsTyped
<1>5. CASE run[w].step = "sampled"
  <2>1. DOMAIN run[w].text \in SUBSET Children(d)
    BY <1>4, <1>5 DEF DirRun
  <2>2. ~Dead(DOMAIN run[w].text) \/ d \in lapsed \/ ToTell(d)
    BY <1>5 DEF DeadInv, RunsAlive
  <2> QED
    BY <1>2, <1>3, <1>5, <2>1, <2>2 DEF Dead
<1>6. CASE run[w].step \in {"skip", "written"}
  <2>1. Summarized(d) /\ (~Dead(DOMAIN summary[d].text) \/ d \in lapsed \/ ToTell(d))
    BY <1>6 DEF DeadInv, RunsAlive
  <2>2. DOMAIN summary[d].text \in SUBSET Children(d)
    BY <1>4, <2>1
  <2> QED
    BY <1>2, <1>3, <1>6, <2>1, <2>2 DEF Dead
<1>7. CASE run[w].step = "empty"
  BY <1>7 DEF DeadInv, RunsAlive
<1> QED
  BY <1>5, <1>6, <1>7

LEMMA MidRunDead ==
  ASSUME DeadInv, NEW w \in Worker, Run(w), ~Ending(w), NEW d \in Dir, item[w] = d
  PROVE  /\ run'[w].step = "sampled" =>
              ~Dead(DOMAIN run[w].text)' \/ d \in lapsed' \/ ToTell(d)'
         /\ run'[w].step \in {"skip", "written"} =>
              /\ Summarized(d)'
              /\ ~Dead(DOMAIN summary[d].text)' \/ d \in lapsed' \/ ToTell(d)'
         /\ run'[w].step = "empty" => d \in lapsed'
<1>0. DataTyped /\ RowInv /\ d \in Path /\ d \notin File
  BY QueueAssumption DEF DeadInv, GhostInv, RowInv, QueueAssumption, File
<1>1. UNCHANGED <<entry, touched, watch>> /\ \A c \in Path : c # d => (Summarized(c)' <=> Summarized(c))
  BY <1>0, MidRun
<1>2. ~Dead(SummarizedChildren(d))
  BY DEF Dead, Gone, SummarizedChildren
<1>3. CASE BeginDir(w)
  <2>1. /\ run'[w].step = (IF SummarizedChildren(d) = {} THEN "empty"
                             ELSE IF Gate(d, DirHash(d)) THEN "skip" ELSE "sampled")
        /\ run'[w].text = RollUp(d)
        /\ SummarizedChildren(d) = {} => d \in lapsed'
        /\ UNCHANGED summary
    BY <1>0, <1>3 DEF BeginDir, Advance, DataTyped, RunsTyped, RunShape, storeVars
  <2>2. CASE run'[w].step = "sampled"
    <3>1. DOMAIN run'[w].text = SummarizedChildren(d)
      BY <2>1, RollUpCovered
    <3> QED
      BY <1>1, <1>2, <2>1, <2>2, <3>1 DEF Dead, Gone, Summarized
  <2>3. CASE run'[w].step = "skip"
    <3>1. DirHash(d) # Absent /\ Summarized(d) /\ summary[d].hash = DirHash(d)
      BY <2>1, <2>3 DEF Gate
    <3>2. DirHash(d) = {<<b, summary[b].hash>> : b \in SummarizedChildren(d)}
      BY <3>1 DEF DirHash
    <3>3. \A c \in DOMAIN summary[d].text : \E h \in DirHash(d) : h[1] = c
      BY <3>1 DEF DeadInv, Grounded, Covers
    <3>4. \A c \in DOMAIN summary[d].text : c \in SummarizedChildren(d)
      BY <3>2, <3>3
    <3> QED
      BY <1>1, <1>2, <2>1, <2>3, <3>1, <3>4 DEF Dead, Gone, Summarized
  <2>4. CASE run'[w].step = "empty"
    BY <2>1, <2>4
  <2>5. run'[w].step \in {"sampled", "skip", "empty"}
    BY <2>1
  <2> QED
    BY <2>2, <2>3, <2>4, <2>5
<1>4. CASE ~BeginDir(w)
  <2>1. \/ run'[w].step = "empty" /\ d \in lapsed'
        \/ /\ run[w].step = "sampled" /\ run'[w].step = "written" /\ Summarized(d)'
           /\ summary'[d].text = run[w].text /\ lapsed' = lapsed
    BY <1>0, <1>4, MidRunSteps
  <2>2. CASE /\ run[w].step = "sampled" /\ run'[w].step = "written" /\ Summarized(d)'
             /\ summary'[d].text = run[w].text /\ lapsed' = lapsed
    <3>1. ~Dead(DOMAIN run[w].text) \/ d \in lapsed \/ ToTell(d)
      BY <2>2 DEF DeadInv, RunsAlive
    <3>2. DOMAIN run[w].text \subseteq Path
      BY <1>0, <2>2 DEF DataTyped, RunsTyped, DirRun, Children
    <3>3. \A c \in Path : Gone(c)' => Gone(c)
      BY <1>1, <2>2 DEF Gone
    <3>4. ~Dead(DOMAIN run[w].text) => ~Dead(DOMAIN summary[d].text)'
      BY <2>2, <3>2, <3>3 DEF Dead
    <3>5. ToTell(d)' <=> ToTell(d)
      BY <1>1 DEF ToTell
    <3> QED
      BY <2>2, <3>1, <3>4, <3>5
  <2> QED
    BY <2>1, <2>2
<1> QED
  BY <1>3, <1>4

LEMMA NextRunsAlive ==
  ASSUME DeadInv, [PipelineNext]_<<vars, pipeVars>>
  PROVE  RunsAlive'
<1>0. DataTyped /\ RowInv /\ Dir \subseteq Path
  BY QueueAssumption DEF DeadInv, GhostInv, RowInv, QueueAssumption
<1>1. SUFFICES ASSUME NEW w \in Worker, NEW d \in Dir, item'[w] = d, run'[w].step # "none"
      PROVE  /\ run'[w].step = "sampled" =>
                  ~Dead(DOMAIN run[w].text)' \/ d \in lapsed' \/ ToTell(d)'
             /\ run'[w].step \in {"skip", "written"} =>
                  /\ Summarized(d)'
                  /\ ~Dead(DOMAIN summary[d].text)' \/ d \in lapsed' \/ ToTell(d)'
             /\ run'[w].step = "empty" => d \in lapsed'
  BY DEF RunsAlive
<1>2. ASSUME NEW v \in Worker, Run(v), ~Ending(v), v # w
      PROVE  /\ item[w] = d /\ run'[w] = run[w] /\ run[w].step # "none"
             /\ d \in lapsed => d \in lapsed'
             /\ Summarized(d) => Summarized(d)' /\ summary'[d].text = summary[d].text
  <2>1. /\ UNCHANGED <<entry, phase, item>> /\ run'[w] = run[w]
        /\ phase[v] = "running" /\ item[v] \in Path
        /\ \A q \in Path : q # item[v] => /\ (q \in lapsed' <=> q \in lapsed)
                                          /\ (Summarized(q)' <=> Summarized(q))
                                          /\ (Summarized(q) => summary'[q] = summary[q])
    BY <1>0, <1>2, MidRun
  <2>2. d # item[v]
    BY <1>0, <1>1, <1>2, <2>1, BusyHolds DEF DeadInv, HandsOn
  <2> QED
    BY <1>0, <1>1, <2>1, <2>2
<1>3. ASSUME ~ \E v \in Worker : Run(v) /\ ~Ending(v)
      PROVE  /\ item[w] = d /\ run'[w] = run[w] /\ run[w].step # "none"
             /\ d \in lapsed => d \in lapsed'
             /\ Summarized(d) => Summarized(d)' /\ summary'[d].text = summary[d].text
  <2>1. RunsCarryOn /\ SummariesFade
    BY <1>0, <1>3, OrderlyStep
  <2>2. item[w] = d /\ run'[w] = run[w] /\ run[w].step # "none"
    BY <1>1, <2>1 DEF RunsCarryOn
  <2>3. d \in lapsed => d \in lapsed'
    <3>1. ~ \E v \in Worker : BeginDir(v)
      BY <1>3 DEF Run, Ending, BeginDir, RefuseFile, AtStep, Complete, DescriberError, File
    <3> QED
      BY <3>1, LapsedDirs
  <2>4. Summarized(d) => Summarized(d)'
    BY <1>0, KeptSummaries, DirsAllowed, FilesArePaths DEF File
  <2>5. Summarized(d)' => summary'[d].text = summary[d].text
    BY <1>0, <2>1 DEF SummariesFade, Summarized
  <2> QED
    BY <2>2, <2>3, <2>4, <2>5
<1>4. ASSUME Run(w), ~Ending(w) PROVE item[w] = d
  BY <1>0, <1>1, <1>4, MidRun
<1> QED
  BY <1>2, <1>3, <1>4, CarriedAlive, MidRunDead

\* A file that goes leaves the roll-ups that speak of it owed: their directories are
\* told.  A roll-up stops being owed when a run that has read the living is written.
LEMMA NextRollUpsAlive ==
  ASSUME DeadInv, [PipelineNext]_<<vars, pipeVars>>
  PROVE  RollUpsAlive'
<1>0. DataTyped /\ RowInv /\ Dir \subseteq Path
  BY QueueAssumption DEF DeadInv, GhostInv, RowInv, QueueAssumption
<1>1. SUFFICES ASSUME NEW d \in Dir, d \notin lapsed', Summarized(d)',
                      Dead(DOMAIN summary[d].text)'
               PROVE  Owed(d)'
  BY DEF RollUpsAlive
<1>2. CASE \E w \in Worker : Run(w) /\ ~Ending(w) /\ item[w] = d
  <2>1. state'[d] = "in_flight"
    <3>1. PICK w \in Worker : Run(w) /\ ~Ending(w) /\ item[w] = d
      BY <1>2
    <3>2. state' = state /\ phase[w] = "running"
      BY <1>0, <3>1, MidRun
    <3> QED
      BY <1>0, <3>1, <3>2 DEF DeadInv, HandsOn
  <2> QED
    BY <2>1 DEF Owed
<1>3. CASE ~ \E w \in Worker : Run(w) /\ ~Ending(w) /\ item[w] = d
  <2>1. d \notin lapsed
    <3>1. ~ \E w \in Worker : BeginDir(w) /\ item[w] = d
      BY <1>3 DEF Run, Ending, BeginDir, RefuseFile, AtStep, Complete, DescriberError, File
    <3> QED
      BY <1>1, <3>1, LapsedDirs
  <2>2. Summarized(d) /\ summary'[d].text = summary[d].text
    <3>1. CASE ~ \E w \in Worker : Run(w) /\ ~Ending(w)
      BY <1>0, <1>1, <3>1, OrderlyStep DEF SummariesFade, Summarized
    <3>2. ASSUME NEW w \in Worker, Run(w), ~Ending(w) PROVE <2>2
      <4>1. item[w] # d
        BY <1>3, <3>2
      <4>2. (Summarized(d)' <=> Summarized(d)) /\ (Summarized(d) => summary'[d] = summary[d])
        BY <1>0, <3>2, <4>1, MidRun
      <4> QED
        BY <1>1, <4>2
    <3> QED
      BY <3>1, <3>2
  <2>3. d \notin Sensitive
    BY <1>0, <2>2 DEF DeadInv, Grounded
  <2>4. PICK c \in DOMAIN summary[d].text : Gone(c)'
    BY <1>1, <2>2 DEF Dead
  <2>5. c \in Path /\ d \in Ancestors[c]
    BY <1>0, <2>2 DEF DataTyped, RunsTyped, Children
  <2>6. CASE ~Gone(c)
    <3>1. c \in File /\ (<<"remove", c>> \in touched' \/ watch'.todo = Ancestors[c])
      BY <1>0, <2>4, <2>5, <2>6, DeadSteps DEF DeadInv
    <3> QED
      BY <2>5, <3>1 DEF Owed, ToTell
  <2>7. CASE Gone(c)
    <3>1. Dead(DOMAIN summary[d].text)
      BY <2>7 DEF Dead
    <3>2. Owed(d)
      BY <2>1, <2>2, <3>1 DEF DeadInv, RollUpsAlive
    <3>3. ASSUME NEW w \in Worker, Complete(w), item[w] = d PROVE Owed(d)'
      <4>1. ToTell(d)
        BY <2>1, <3>1, <3>3 DEF Complete, DeadInv, RunsAlive
      <4> QED
        BY <3>3, <4>1 DEF Complete, watchVars, Owed, ToTell
    <3> QED
      BY <1>0, <2>3, <3>2, <3>3, OwedSteps DEF DeadInv
  <2> QED
    BY <2>6, <2>7
<1> QED
  BY <1>2, <1>3

LEMMA NextDead ==
  ASSUME WatchedAlone, DeadInv, [PipelineNext]_<<vars, pipeVars>>
  PROVE  DeadInv'
<1>0. RowInv /\ DataTyped
  BY DEF DeadInv, GhostInv, RowInv
<1>1. GhostInv' /\ HandsOn(Dir)' /\ WatcherKnows' /\ Grounded'
  BY <1>0, NextGhost, NextHands, DirsStay, NextKnows, NextGrounded DEF WatchedAlone, DeadInv
<1>2. RunsAlive' /\ RollUpsAlive'
  BY NextRunsAlive, NextRollUpsAlive
<1> QED
  BY <1>1, <1>2 DEF DeadInv

\* When the watcher has handled every event and the queue has drained, no roll-up speaks
\* of a file whose entry is gone, however the removals, re-creations, drains, defers,
\* crashes and requests came in between and whatever run was in hand (watch.rs,
\* summarize_directory); but for a file whose summary a run brought back that was in
\* hand when it went, and for the directories whose last run came too early or had
\* nothing to compose; provided that no second process sweeps.
THEOREM RollUpsForget == WatchedAlone => (PipelineSpec => []RollUpsForgetTheDead)
<1> SUFFICES ASSUME WatchedAlone PROVE PipelineSpec => []RollUpsForgetTheDead
  OBVIOUS
<1>1. DeadInv /\ [PipelineNext]_<<vars, pipeVars>> => DeadInv'
  BY NextDead
<1>2. DeadInv => RollUpsForgetTheDead
  <2> SUFFICES ASSUME DeadInv, Quiet, NEW d \in Dir \ lapsed, Summarized(d),
                      NEW c \in DOMAIN summary[d].text
               PROVE  entry[c] # "none" \/ (Summarized(c) /\ summary[c].orphaned)
    BY DEF RollUpsForgetTheDead
  <2>1. ~Owed(d)
    BY QueueAssumption DEF QueueAssumption, Quiet, Settled, Idle, Owed, ToTell
  <2>2. ~Gone(c)
    BY <2>1 DEF DeadInv, RollUpsAlive, Dead
  <2>3. c \in Path
    BY QueueAssumption DEF QueueAssumption, DeadInv, GhostInv, RowInv, DataTyped, RunsTyped, Children
  <2> QED
    BY <2>2, <2>3 DEF Gone, DeadInv, GhostInv, NoGhostSummary
<1> QED
  BY InitDead, <1>1, <1>2, PTL DEF PipelineSpec

-----------------------------------------------------------------------------
(* Roll-ups converge.                                                       *)

\* A path becomes unfinished by a mark; all other steps shift work that is there.
LEMMA UnfinishedSteps ==
  ASSUME DataTyped, HandsInv, [PipelineNext]_<<vars, pipeVars>>, NEW p \in Path,
         state[p] \notin {"pending", "in_flight"}, state'[p] \in {"pending", "in_flight"}
  PROVE  \/ EnqueueSubtree /\ p \in WithAncestors(NewPaths \cup StalePaths)
         \/ Regenerate
         \/ WatchMark /\ p \in watch.todo /\ watch'.todo = watch.todo \ {p}
<1>0. TypeInv /\ TypeOK /\ WatchTyped
  BY DEF DataTyped, TypeInv, FilesTyped
<1>1. state'[p] # state[p]
  OBVIOUS
<1>2. ~QueueStep
  <2>1. ASSUME NEW w \in Worker,
               Claim(w) \/ CheckAllowed(w) \/ DeleteOrphan(w) \/ CheckSubtree(w)
                 \/ CheckSubtreeReadError(w) \/ Defer(w) \/ StartJob(w) \/ EndJob(w)
        PROVE  FALSE
    <3>1. CASE Claim(w)
      BY <1>0, <3>1 DEF Claim, Pending, Deepest, TypeOK
    <3>2. CASE Defer(w)
      BY <1>0, <3>2 DEF Defer, MarkRow, HandsInv, HandsOn, TypeOK
    <3>3. CASE DeleteOrphan(w)
      BY <1>0, <3>3 DEF DeleteOrphan, DropRow, TypeOK
    <3> QED
      BY <2>1, <3>1, <3>2, <3>3 DEF CheckAllowed, CheckSubtree, CheckSubtreeReadError, StartJob, EndJob
  <2>2. ASSUME NEW w \in Worker, StoreErrorMarked(w) \/ StoreErrorUnmarked(w) PROVE FALSE
    BY <1>0, <2>2 DEF StoreErrorMarked, StoreErrorUnmarked, MarkRow, TypeOK
  <2>3. ASSUME NEW pr \in Proc, Boot(pr) \/ Crash(pr) PROVE FALSE
    BY <1>0, <2>3 DEF Boot, Sweep, Swept, Crash, TypeOK
  <2> QED
    BY <2>1, <2>2, <2>3 DEF QueueStep, Queue
<1>3. ASSUME NEW w \in Worker, Run(w) PROVE FALSE
  BY <1>0, <1>3 DEF Run, BeginFile, RefuseFile, Sample, BeginDir, EmptyAnswer, Write, Complete,
    DescriberError, Advance, vars, FinishAs, MarkRow, TypeOK
<1>4. ASSUME NEW S, MarkForResummary(S) PROVE p \in S
  BY <1>1, <1>4 DEF MarkForResummary
<1>5. ASSUME NEW S, Forget(S) PROVE FALSE
  BY <1>5 DEF Forget, DeleteEntries, DropRows
<1>6. CASE EnqueueSubtree
  BY <1>4, <1>6 DEF EnqueueSubtree
<1>7. CASE WatchMark
  <2>1. PICK q \in Deepest(watch.todo) :
           MarkForResummary({q}) /\ Ignored({q}) /\ watch'.todo = watch.todo \ {q}
    BY <1>0, <1>7, WatchMarks
  <2>2. p = q
    BY <1>4, <2>1
  <2> QED
    BY <1>7, <2>1, <2>2 DEF Deepest
<1>8. CASE Watch /\ ~WatchMark
  BY <1>1, <1>5, <1>8 DEF Watch, WatchRead, WatchGone, WatchRemove, WatchStore, UpsertEntries, vars
<1>9. CASE ScanPrune \/ ScanUpsert \/ Disk \/ Tick \/ \E f \in File : Deep(f)
  BY <1>1, <1>5, <1>9 DEF ScanPrune, ScanUpsert, Disk, Tick, Deep, UpsertEntries, vars
<1> QED
  BY <1>1, <1>2, <1>3, <1>6, <1>7, <1>8, <1>9 DEF PipelineNext, vars

\* A directory is marked together with whatever is to come below it.
LEMMA UnfinishedBelow ==
  ASSUME RowInv, HandsInv, [PipelineNext]_<<vars, pipeVars>>,
         \A p \in watch.todo : Ancestors[p] \subseteq watch.todo,
         NEW d \in Dir, d \notin Sensitive, ~HasUnfinished(d), HasUnfinished(d)'
  PROVE  Told(d)
<1>0. DataTyped
  BY DEF RowInv
<1>1. PICK p \in Path : d \in Ancestors[p] /\ state'[p] \in {"pending", "in_flight"}
  BY DEF HasUnfinished
<1>2. state[p] \notin {"pending", "in_flight"}
  BY <1>1 DEF HasUnfinished
<1>3. CASE EnqueueSubtree /\ p \in WithAncestors(NewPaths \cup StalePaths)
  <2>1. d \in WithAncestors(NewPaths \cup StalePaths)
    <3>1. PICK q \in NewPaths \cup StalePaths : p = q \/ p \in Ancestors[q]
      BY <1>3 DEF WithAncestors
    <3>2. q \in Path /\ d \in Ancestors[q]
      BY <1>1, <3>1, ClosedBelow DEF NewPaths, StalePaths
    <3> QED
      BY <3>1, <3>2 DEF WithAncestors
  <2> QED
    BY <1>3, <2>1, MarkedDir DEF EnqueueSubtree, Told
<1>4. CASE Regenerate
  <2>1. d \in {q \in Path : entry[q] = "ok"}
    BY DirsAllowed
  <2> QED
    BY <1>4, <2>1, MarkedDir DEF Regenerate, Told
<1>5. CASE p \in watch.todo /\ watch'.todo = watch.todo \ {p}
  <2>1. d \in watch.todo /\ d # p
    BY <1>1, <1>5, ClosedBelow, QueueAssumption DEF QueueAssumption
  <2> QED
    BY <1>5, <2>1 DEF Told
<1> QED
  BY <1>0, <1>1, <1>2, <1>3, <1>4, <1>5, UnfinishedSteps

\* Files are edited and described, from disk or from chunks, and nothing is removed; one
\* process sweeps and it is alone; nobody asks for a regeneration while a run is in hand.
EditsOnly ==
  PlainEdits /\ SweeperAlone /\ Volatile = {} /\ "regenerate" \notin Meanwhile

\* A record C of what has been composed under which hash since the last regeneration:
\* <<path, hash, text>>.  A hash says what was composed, and what a directory was
\* composed of has been recorded itself.
Functional(C) == \A p, h, t, u : <<p, h, t>> \in C /\ <<p, h, u>> \in C => t = u
Rooted(C) ==
  \A d \in Dir : \A h, t : <<d, h, t>> \in C =>
    /\ t = [c \in DOMAIN t |-> t[c]]
    /\ DOMAIN t = {g[1] : g \in h}
    /\ \A g \in h : <<g[1], g[2], t[g[1]]>> \in C

\* Everything that carries a hash is on record; a file's present content is recorded
\* only while its row has it, and not while a run is about to describe the file.
OnRecord(C) ==
  /\ \A p \in Path : Summarized(p) /\ summary[p].hash # Absent =>
       <<p, summary[p].hash, summary[p].text>> \in C
  /\ \A w \in Worker : run[w].step = "sampled" /\ item[w] \in Dir /\ run[w].hash # Absent =>
       <<item[w], run[w].hash, run[w].text>> \in C
FilesOnRecord(C) ==
  /\ \A f \in File : \A h, t : <<f, h, t>> \in C =>
       /\ h \in Nat /\ h <= newest
       /\ h = disk[f] => Summarized(f) /\ summary[f].hash = h
  /\ \A w \in Worker : run[w].step \in {"gated", "sampled"} /\ item[w] \in File =>
       \A h, t : <<item[w], h, t>> \in C => h # run[w].hash /\ h # disk[item[w]]

Record(C) == Functional(C) /\ Rooted(C) /\ OnRecord(C) /\ FilesOnRecord(C)

MerkleInv == RowInv /\ HandsInv /\ GateInv /\ \E C : Record(C)

\* Two directories with the same Merkle hash have composed the same, all the way down.
LEMMA SameHashSameText ==
  ASSUME NEW C, Record(C), NEW d \in Dir, NEW t, DirHash(d) # Absent, <<d, DirHash(d), t>> \in C
  PROVE  t = RollUp(d)
<1>1. /\ DirHash(d) = {<<c, summary[c].hash>> : c \in SummarizedChildren(d)}
      /\ \A c \in SummarizedChildren(d) : summary[c].hash # Absent
  BY DEF DirHash
<1>2. /\ t = [c \in DOMAIN t |-> t[c]]
      /\ DOMAIN t = {g[1] : g \in DirHash(d)}
      /\ \A g \in DirHash(d) : <<g[1], g[2], t[g[1]]>> \in C
  BY DEF Record, Rooted
<1>3. /\ \A g \in DirHash(d) : \E c \in SummarizedChildren(d) : g = <<c, summary[c].hash>>
      /\ \A c \in SummarizedChildren(d) : <<c, summary[c].hash>> \in DirHash(d)
  BY <1>1
<1>5. DOMAIN t = SummarizedChildren(d)
  <2>1. \A c : c \in DOMAIN t <=> \E g \in DirHash(d) : c = g[1]
    BY <1>2
  <2>2. ASSUME NEW c \in SummarizedChildren(d) PROVE c \in DOMAIN t
    <3>1. PICK g \in DirHash(d) : g = <<c, summary[c].hash>>
      BY <1>3
    <3>2. g[1] = c
      BY <3>1
    <3> QED
      BY <2>1, <3>2
  <2>3. ASSUME NEW c \in DOMAIN t PROVE c \in SummarizedChildren(d)
    <3>1. PICK g \in DirHash(d) : c = g[1]
      BY <2>1
    <3>2. PICK b \in SummarizedChildren(d) : g = <<b, summary[b].hash>>
      BY <1>3
    <3> QED
      BY <3>1, <3>2
  <2> QED
    BY <2>2, <2>3
<1>4. ASSUME NEW c \in SummarizedChildren(d) PROVE t[c] = summary[c].text
  <2>1. <<c, summary[c].hash, t[c]>> \in C
    <3> DEFINE g == <<c, summary[c].hash>>
    <3>1. g \in DirHash(d) /\ g[1] = c /\ g[2] = summary[c].hash
      BY <1>3
    <3> QED
      BY <1>2, <3>1
  <2>2. <<c, summary[c].hash, summary[c].text>> \in C
    BY <1>1 DEF Record, OnRecord, SummarizedChildren, Children
  <2> QED
    BY <2>1, <2>2 DEF Record, Functional
<1> QED
  BY <1>2, <1>4, <1>5 DEF RollUp

LEMMA InitMerkle == EditsOnly /\ PipelineInit => MerkleInv
<1> SUFFICES ASSUME EditsOnly, PipelineInit PROVE MerkleInv
  OBVIOUS
<1>1. RowInv /\ HandsInv /\ GateInv
  BY InitRow, AllInHand, InitGate DEF EditsOnly
<1>2. Record({})
  BY DEF PipelineInit, Record, Functional, Rooted, OnRecord, FilesOnRecord, Summarized, NoRun
<1> QED
  BY <1>1, <1>2 DEF MerkleInv

LEMMA SummariesStay ==
  ASSUME Volatile = {}, DataTyped, [PipelineNext]_<<vars, pipeVars>>, ~Regenerate,
         ~ \E w \in Worker : Run(w) /\ ~Ending(w)
  PROVE  UNCHANGED summary
<1>1. ASSUME NEW S \in SUBSET Volatile, Forget(S) PROVE UNCHANGED summary
  BY <1>1 DEF Forget, DataTyped, RunsTyped, SummaryTable
<1>2. CASE ScanPrune
  BY <1>1, <1>2 DEF ScanPrune
<1> QED
  BY <1>2 DEF PipelineNext, pipeVars, storeVars, QueueStep, Run, Ending, RefuseFile, Complete,
    DescriberError, Disk, Tick, Watch, WatchRead, WatchStore, WatchMark, ScanUpsert,
    EnqueueSubtree, Deep

\* A content is only ever replaced by a new one.
LEMMA ContentsAdvance ==
  ASSUME EditsOnly, GateInv, [PipelineNext]_<<vars, pipeVars>>
  PROVE  /\ newest \in Nat /\ newest' \in Nat /\ newest <= newest'
         /\ \A f \in File : disk'[f] = disk[f] \/ disk'[f] = newest + 1
<1>1. CASE UNCHANGED <<disk, newest>>
  BY <1>1 DEF GateInv, GateShape
<1>2. CASE Disk
  <2>1. PICK f \in File : WriteDisk(f)
    BY <1>2 DEF Disk, Edit, EditsOnly
  <2> QED
    BY <2>1 DEF WriteDisk, EditsOnly, PlainEdits, GateInv, GateShape
<1> QED
  BY <1>1, <1>2 DEF PipelineNext, pipeVars, QueueStep, diskVars, Run, BeginFile, RefuseFile, Sample,
    BeginDir, EmptyAnswer, Write, Complete, DescriberError, Advance, Watch, WatchRead, WatchGone,
    WatchRemove, WatchStore, WatchMark, Tick, ScanUpsert, ScanPrune, EnqueueSubtree, Regenerate, Deep

LEMMA OrderlyRecord ==
  ASSUME EditsOnly, RowInv, GateInv, [PipelineNext]_<<vars, pipeVars>>, ~Regenerate,
         ~ \E w \in Worker : Run(w) /\ ~Ending(w), NEW C, Record(C)
  PROVE  Record(C)'
<1>0. DataTyped /\ UNCHANGED summary /\ RunsCarryOn
  BY OrderlyStep, SummariesStay DEF RowInv, EditsOnly
<1>1. /\ newest \in Nat /\ newest' \in Nat /\ newest <= newest'
      /\ \A f \in File : disk'[f] = disk[f] \/ disk'[f] = newest + 1
  BY ContentsAdvance
<1>2. \A w \in Worker : run'[w].step # "none" => run'[w] = run[w] /\ item'[w] = item[w]
  BY <1>0 DEF RunsCarryOn
<1>3. Functional(C)' /\ Rooted(C)'
  BY DEF Record, Functional, Rooted
<1>4. OnRecord(C)'
  BY <1>0, <1>2 DEF Record, OnRecord, Summarized
<1>5. \A f \in File : \A h, t : <<f, h, t>> \in C =>
        h \in Nat /\ h <= newest' /\ (h = disk'[f] => h = disk[f])
  <2> TAKE f \in File
  <2> TAKE h, t
  <2> HAVE <<f, h, t>> \in C
  <2>1. h \in Nat /\ h <= newest
    BY DEF Record, FilesOnRecord
  <2> QED
    BY <1>1, <2>1
<1>6. FilesOnRecord(C)'
  BY <1>0, <1>2, <1>5 DEF Record, FilesOnRecord, Summarized
<1> QED
  BY <1>3, <1>4, <1>6 DEF Record

\* A new entry about p keeps the record in order if it says nothing else of the same
\* hash, and what it is composed of is there.
LEMMA NewEntry ==
  ASSUME NEW C, Functional(C), Rooted(C), NEW p, NEW h, NEW t,
         \A u : <<p, h, u>> \in C => u = t,
         p \in Dir => /\ t = [c \in DOMAIN t |-> t[c]]
                      /\ DOMAIN t = {g[1] : g \in h}
                      /\ \A g \in h : <<g[1], g[2], t[g[1]]>> \in C
  PROVE  Functional(C \cup {<<p, h, t>>}) /\ Rooted(C \cup {<<p, h, t>>})
<1> DEFINE D == C \cup {<<p, h, t>>}
<1>1. \A q, k, u : <<q, k, u>> \in D <=> (<<q, k, u>> \in C \/ (q = p /\ k = h /\ u = t))
  OBVIOUS
<1> HIDE DEF D
<1>2. Functional(D)
  BY <1>1 DEF Functional
<1>3. Rooted(D)
  <2>1. ASSUME NEW d \in Dir, NEW k, NEW u, <<d, k, u>> \in D
        PROVE  /\ u = [c \in DOMAIN u |-> u[c]]
               /\ DOMAIN u = {g[1] : g \in k}
               /\ \A g \in k : <<g[1], g[2], u[g[1]]>> \in C
    <3>1. CASE <<d, k, u>> \in C
      BY <3>1 DEF Rooted
    <3>2. CASE d = p /\ k = h /\ u = t
      BY <3>2
    <3> QED
      BY <1>1, <2>1, <3>1, <3>2
  <2>2. ASSUME NEW d \in Dir, NEW k, NEW u, <<d, k, u>> \in D, NEW g \in k
        PROVE  <<g[1], g[2], u[g[1]]>> \in D
    BY <1>1, <2>1, <2>2
  <2> QED
    BY <2>1, <2>2 DEF Rooted
<1> QED
  BY <1>2, <1>3 DEF D

\* What a directory is about to be composed of is on record.
LEMMA RollUpEntry ==
  ASSUME NEW C, Record(C), NEW d \in Dir, DirHash(d) # Absent
  PROVE  Functional(C \cup {<<d, DirHash(d), RollUp(d)>>}) /\ Rooted(C \cup {<<d, DirHash(d), RollUp(d)>>})
<1> DEFINE t == RollUp(d)
<1>1. \A u : <<d, DirHash(d), u>> \in C => u = t
  BY SameHashSameText
<1>2. t = [c \in DOMAIN t |-> t[c]] /\ DOMAIN t = SummarizedChildren(d)
      /\ \A c \in SummarizedChildren(d) : t[c] = summary[c].text
  BY DEF RollUp
<1>3. /\ DirHash(d) = {<<c, summary[c].hash>> : c \in SummarizedChildren(d)}
      /\ \A c \in SummarizedChildren(d) : summary[c].hash # Absent
  BY DEF DirHash
<1>4. DOMAIN t = {g[1] : g \in DirHash(d)}
  <2>3. /\ \A g \in DirHash(d) : \E c \in SummarizedChildren(d) : g = <<c, summary[c].hash>>
        /\ \A c \in SummarizedChildren(d) : <<c, summary[c].hash>> \in DirHash(d)
    BY <1>3
  <2> HIDE DEF t
  <2>1. /\ \A g \in DirHash(d) : \E c \in SummarizedChildren(d) : g[1] = c
        /\ \A c \in SummarizedChildren(d) : \E g \in DirHash(d) : g[1] = c
    <3>1. ASSUME NEW c \in SummarizedChildren(d) PROVE \E g \in DirHash(d) : g[1] = c
      <4>1. PICK g \in DirHash(d) : g = <<c, summary[c].hash>>
        BY <2>3
      <4>2. g[1] = c
        BY <4>1
      <4> QED
        BY <4>2
    <3> QED
      BY <2>3, <3>1
  <2>2. \A c : c \in DOMAIN t <=> \E g \in DirHash(d) : c = g[1]
    BY <1>2, <2>1
  <2> QED
    BY <2>2
<1>5. ASSUME NEW g \in DirHash(d) PROVE <<g[1], g[2], t[g[1]]>> \in C
  <2>1. PICK c \in SummarizedChildren(d) : g = <<c, summary[c].hash>>
    BY <1>3
  <2>2. <<c, summary[c].hash, summary[c].text>> \in C
    BY <1>3 DEF Record, OnRecord, SummarizedChildren, Children
  <2> QED
    BY <1>2, <2>1, <2>2
<1> HIDE DEF t
<1>6. Functional(C \cup {<<d, DirHash(d), t>>}) /\ Rooted(C \cup {<<d, DirHash(d), t>>})
  BY <1>1, <1>2, <1>4, <1>5, NewEntry DEF Record
<1> QED
  BY <1>6 DEF t

\* The entries of the paths nobody is working on are as good as before; what is new
\* concerns the item in hand only.
LEMMA MidRunRecord ==
  ASSUME EditsOnly, RowInv, HandsInv, GateInv, NEW w \in Worker, Run(w), ~Ending(w),
         NEW C, Record(C)
  PROVE  \E D : Record(D)'
<1> DEFINE p == item[w]
<1>0. DataTyped /\ Dir \subseteq Path /\ File = Path \ Dir
  BY QueueAssumption DEF RowInv, QueueAssumption, File
<1>1. /\ UNCHANGED <<disk, item>> /\ p \in Path
      /\ \A v \in Worker : v # w => run'[v] = run[v]
      /\ \A q \in Path : q # p => /\ (Summarized(q)' <=> Summarized(q))
                                  /\ (Summarized(q) => summary'[q] = summary[q])
  BY <1>0, MidRun
<1>2. UNCHANGED newest /\ phase[w] = "running"
  BY <1>0, MidRun DEF Run, Ending, BeginFile, Sample, BeginDir, EmptyAnswer, Write, Advance, diskVars
<1>3. \A v \in Worker : v # w /\ run[v].step # "none" => item[v] # p /\ item[v] \in Path
  BY <1>0, <1>1, <1>2, BusyHolds DEF HandsInv, HandsOn
<1>4. ASSUME UNCHANGED summary,
             run'[w].step = "sampled" /\ p \in Dir /\ run'[w].hash # Absent =>
               <<p, run'[w].hash, run'[w].text>> \in C,
             run'[w].step \in {"gated", "sampled"} /\ p \in File =>
               \A h, t : <<p, h, t>> \in C => h # run'[w].hash /\ h # disk[p]
      PROVE  Record(C)'
  <2>1. OnRecord(C)'
    BY <1>1, <1>4 DEF Record, OnRecord, Summarized
  <2>2. FilesOnRecord(C)'
    BY <1>1, <1>2, <1>4 DEF Record, FilesOnRecord, Summarized
  <2> QED
    BY <2>1, <2>2 DEF Record, Functional, Rooted
<1>5. CASE BeginFile(w)
  <2>1. /\ p \in File /\ UNCHANGED summary /\ run'[w].hash = disk[p]
        /\ run'[w].step = (IF Gate(p, disk[p]) THEN "skip" ELSE "gated")
    BY <1>0, <1>5 DEF BeginFile, AtStep, Advance, storeVars, DataTyped, RunsTyped, RunShape
  <2>2. ASSUME run'[w].step = "gated", NEW h, NEW t, <<p, h, t>> \in C PROVE h # disk[p]
    <3>1. h \in Nat /\ (h = disk[p] => Summarized(p) /\ summary[p].hash = h)
      BY <2>1, <2>2 DEF Record, FilesOnRecord
    <3>2. ~Gate(p, disk[p])
      BY <2>1, <2>2
    <3> QED
      BY <3>1, <3>2, PipelineAssumption DEF Gate, PipelineAssumption
  <2> QED
    BY <1>0, <1>4, <2>1, <2>2
<1>6. CASE Sample(w)
  <2>1. /\ p \in File /\ UNCHANGED summary /\ run'[w].hash = run[w].hash /\ run[w].step = "gated"
    BY <1>0, <1>6 DEF Sample, AtStep, Advance, storeVars, DataTyped, RunsTyped, RunShape
  <2> QED
    BY <1>0, <1>4, <2>1 DEF Record, FilesOnRecord
<1>7. CASE EmptyAnswer(w)
  <2>1. UNCHANGED summary /\ run'[w].step = "empty"
    <3>1. /\ UNCHANGED summary /\ IsRun(run[w])
          /\ run'[w] = [run[w] EXCEPT !.step = "empty"]
      BY <1>0, <1>7 DEF EmptyAnswer, Advance, storeVars, DataTyped, RunsTyped, RunShape
    <3> QED
      BY <3>1, NewStep
  <2> QED
    BY <1>4, <2>1
<1>8. CASE BeginDir(w)
  <2>1. /\ p \in Dir /\ UNCHANGED summary
        /\ run'[w].hash = DirHash(p) /\ run'[w].text = RollUp(p)
    BY <1>0, <1>8 DEF BeginDir, AtStep, Advance, storeVars, DataTyped, RunsTyped, RunShape
  <2>2. PICK d \in Dir : d = item[w] /\ d \notin File
    BY <1>0, <2>1
  <2>3. CASE DirHash(d) = Absent
    BY <1>0, <1>4, <2>1, <2>2, <2>3
  <2>4. CASE DirHash(d) # Absent
    <3>0. PICK D : D = C \cup {<<d, DirHash(d), RollUp(d)>>}
      OBVIOUS
    <3>1. Functional(D) /\ Rooted(D)
      BY <2>4, <3>0, RollUpEntry
    <3>2. /\ C \subseteq D /\ <<d, run'[w].hash, run'[w].text>> \in D
          /\ \A f, h, t : <<f, h, t>> \in D /\ f # d => <<f, h, t>> \in C
      BY <2>1, <2>2, <3>0
    <3>3. OnRecord(D)'
      BY <1>1, <2>1, <2>2, <3>2 DEF Record, OnRecord, Summarized
    <3>4. \A f \in File : \A h, t : <<f, h, t>> \in D => <<f, h, t>> \in C
      BY <2>2, <3>2
    <3>5. FilesOnRecord(D)'
      BY <1>1, <1>2, <2>1, <2>2, <3>4 DEF Record, FilesOnRecord, Summarized
    <3>6. Functional(D)' /\ Rooted(D)'
      BY <3>1 DEF Functional, Rooted
    <3>7. Record(D)'
      BY <3>3, <3>5, <3>6 DEF Record
    <3> QED
      BY <3>7
  <2> QED
    BY <2>3, <2>4
<1>9. CASE Write(w)
  <2> DEFINE hash == run[w].hash
             text == run[w].text
  <2>1. PICK q \in Path : q = item[w]
    BY <1>1
  <2>2. /\ Summarized(q)' /\ summary'[q].hash = hash /\ summary'[q].text = text
        /\ run[w].step = "sampled"
    <3>1. summary'[q].hash = run[w].hash /\ summary'[q].text = run[w].text /\ Summarized(q)'
      BY <1>0, <1>9, <2>1, WriteSummarizes
    <3> QED
      BY <1>9, <3>1 DEF Write, AtStep
  <2>3. run'[w].step = "written"
    <3>1. IsRun(run[w]) /\ run'[w] = [run[w] EXCEPT !.step = "written"]
      BY <1>0, <1>9 DEF Write, DataTyped, RunsTyped, RunShape
    <3> QED
      BY <3>1, NewStep
  <2>4. CASE q \in Dir \/ hash = Absent
    <3>1. hash # Absent => <<q, hash, text>> \in C
      BY <2>1, <2>2, <2>4 DEF Record, OnRecord
    <3>2. OnRecord(C)'
      BY <1>1, <2>1, <2>2, <2>3, <3>1 DEF Record, OnRecord, Summarized
    <3>3. ASSUME NEW f \in File, NEW h, NEW t, <<f, h, t>> \in C, h = disk[f], f = q PROVE FALSE
      BY <1>0, <2>1, <2>2, <2>4, <3>3 DEF Record, FilesOnRecord
    <3>4. FilesOnRecord(C)'
      <4>1. \A f \in File : \A h, t : <<f, h, t>> \in C =>
              h \in Nat /\ h <= newest /\ (h = disk[f] => Summarized(f)' /\ summary'[f].hash = h)
        BY <1>0, <1>1, <2>1, <3>3 DEF Record, FilesOnRecord
      <4> QED
        BY <1>1, <1>2, <2>3, <4>1 DEF Record, FilesOnRecord
    <3> QED
      BY <3>2, <3>4 DEF Record, Functional, Rooted
  <2>5. CASE q \in File /\ hash # Absent
    <3>0. PICK D : D = C \cup {<<q, hash, text>>}
      OBVIOUS
    <3>1. \A h, t : <<q, h, t>> \in C => h # hash /\ h # disk[q]
      BY <2>1, <2>2, <2>5 DEF Record, FilesOnRecord
    <3>2. Functional(D) /\ Rooted(D)
      <4>1. q \notin Dir /\ \A u : <<q, hash, u>> \notin C
        BY <1>0, <2>5, <3>1
      <4> HIDE DEF hash, text
      <4> QED
        BY <3>0, <4>1, NewEntry DEF Record
    <3>3. hash \in Nat /\ hash <= newest
      BY <2>1, <2>2, <2>5 DEF GateInv, RunsSound, Known
    <3>4. /\ C \subseteq D /\ <<q, hash, text>> \in D
          /\ \A f, h, t : <<f, h, t>> \in D => <<f, h, t>> \in C \/ (f = q /\ h = hash)
      BY <3>0
    <3>5. OnRecord(D)'
      BY <1>1, <2>1, <2>2, <2>3, <3>4 DEF Record, OnRecord, Summarized
    <3>6. \A f \in File : \A h, t : <<f, h, t>> \in D =>
            /\ h \in Nat /\ h <= newest
            /\ h = disk[f] => Summarized(f)' /\ summary'[f].hash = h
      <4> TAKE f \in File
      <4> TAKE h, t
      <4> HAVE <<f, h, t>> \in D
      <4>1. CASE f = q /\ h = hash
        BY <2>2, <3>3, <4>1
      <4>2. CASE f = q /\ <<q, h, t>> \in C
        BY <2>5, <3>1, <4>2 DEF Record, FilesOnRecord
      <4>3. CASE f # q /\ <<f, h, t>> \in C
        BY <1>0, <1>1, <2>1, <4>3 DEF Record, FilesOnRecord
      <4> QED
        BY <3>4, <4>1, <4>2, <4>3
    <3>7. \A v \in Worker : run'[v].step \in {"gated", "sampled"} /\ item[v] \in File =>
            \A h, t : <<item[v], h, t>> \in D => h # run'[v].hash /\ h # disk[item[v]]
      <4> TAKE v \in Worker
      <4> HAVE run'[v].step \in {"gated", "sampled"} /\ item[v] \in File
      <4>1. v # w /\ run'[v] = run[v] /\ item[v] # q
        BY <1>1, <1>3, <2>1, <2>3
      <4>2. \A h, t : <<item[v], h, t>> \in D => <<item[v], h, t>> \in C
        BY <3>4, <4>1
      <4> QED
        BY <4>1, <4>2 DEF Record, FilesOnRecord
    <3>8. FilesOnRecord(D)'
      BY <1>1, <1>2, <3>6, <3>7 DEF FilesOnRecord
    <3>9. Record(D)'
      BY <3>2, <3>5, <3>8 DEF Record, Functional, Rooted
    <3> QED
      BY <3>9
  <2> QED
    BY <1>0, <2>1, <2>4, <2>5
<1> QED
  BY <1>5, <1>6, <1>7, <1>8, <1>9 DEF Run, Ending

LEMMA NextMerkle ==
  ASSUME EditsOnly, MerkleInv, [PipelineNext]_<<vars, pipeVars>>
  PROVE  MerkleInv'
<1>1. RowInv' /\ HandsInv' /\ GateInv'
  BY NextRow, AllInHand, NextGate
  DEF MerkleInv, RowInv, EditsOnly, RemovalsWait
<1>2. PICK C : Record(C)
  BY DEF MerkleInv
<1>3. CASE Regenerate
  <2>1. \A w \in Worker : run'[w].step = "none"
    BY <1>3, BusyHolds DEF Regenerate, May, Idling, EditsOnly, MerkleInv, RowInv
  <2>2. \A p \in Path : Summarized(p)' => summary'[p].hash = Absent
    BY <1>3, RegenerateBlanks DEF MerkleInv, RowInv
  <2>3. Record({})'
    BY <2>1, <2>2 DEF Record, Functional, Rooted, OnRecord, FilesOnRecord
  <2> QED
    BY <1>1, <2>3 DEF MerkleInv
<1>4. CASE ~Regenerate /\ ~ \E w \in Worker : Run(w) /\ ~Ending(w)
  <2>1. Record(C)'
    BY <1>2, <1>4, OrderlyRecord DEF MerkleInv
  <2> QED
    BY <1>1, <2>1 DEF MerkleInv
<1>5. ASSUME NEW w \in Worker, Run(w), ~Ending(w) PROVE MerkleInv'
  BY <1>1, <1>2, <1>5, MidRunRecord DEF MerkleInv
<1> QED
  BY <1>3, <1>4, <1>5

LEMMA MerkleSound == MerkleInv => MerkleGateSound
<1> SUFFICES ASSUME MerkleInv, NEW d \in Dir, Summarized(d), DirHash(d) # Absent,
                    summary[d].hash = DirHash(d)
             PROVE  summary[d].text = RollUp(d)
  BY DEF MerkleGateSound
<1>1. PICK C : Record(C)
  BY DEF MerkleInv
<1>2. <<d, DirHash(d), summary[d].text>> \in C
  BY <1>1, QueueAssumption DEF QueueAssumption, Record, OnRecord
<1> QED
  BY <1>1, <1>2, SameHashSameText

\* A directory that is skipped has composed the very summaries its children have, all
\* the way down, although the gate compares no more than one Merkle hash
\* (summarize_directory), provided that no content comes back, no path goes and
\* Regenerate waits for the runs in hand, since it makes two texts of one hash.
THEOREM MerkleGateIsSound == EditsOnly => (PipelineSpec => []MerkleGateSound)
<1> SUFFICES ASSUME EditsOnly PROVE PipelineSpec => []MerkleGateSound
  OBVIOUS
<1>1. PipelineInit => MerkleInv
  BY InitMerkle
<1>2. MerkleInv /\ [PipelineNext]_<<vars, pipeVars>> => MerkleInv'
  BY NextMerkle
<1> QED
  BY <1>1, <1>2, MerkleSound, PTL DEF PipelineSpec

\* A roll-up always has something to compose.
RollUpsHaveChildren ==
  /\ \A d \in Dir : Summarized(d) => SummarizedChildren(d) # {}
  /\ \A w \in Worker : run[w].step = "sampled" /\ item[w] \in Dir =>
       SummarizedChildren(item[w]) # {}

LEMMA ChildrenStay ==
  ASSUME EditsOnly, DataTyped, RollUpsHaveChildren, [PipelineNext]_<<vars, pipeVars>>
  PROVE  RollUpsHaveChildren'
<1>1. \A p \in Path : Summarized(p) => Summarized(p)'
  BY KeptSummaries DEF EditsOnly
<1>2. \A d \in Dir : SummarizedChildren(d) # {} => SummarizedChildren(d)' # {}
  BY <1>1 DEF SummarizedChildren, Children
<1>3. Dir \subseteq Path
  BY QueueAssumption DEF QueueAssumption
<1>4. CASE RunsCarryOn /\ SummariesFade
  <2>1. \A d \in Dir : Summarized(d)' => Summarized(d)
    BY <1>3, <1>4 DEF SummariesFade, Summarized
  <2>2. \A w \in Worker : run'[w].step = "sampled" => run[w].step = "sampled" /\ item'[w] = item[w]
    BY <1>4 DEF RunsCarryOn
  <2> QED
    BY <1>2, <2>1, <2>2 DEF RollUpsHaveChildren, SummarizedChildren
<1>5. ASSUME NEW w \in Worker, Run(w), ~Ending(w) PROVE RollUpsHaveChildren'
  <2> DEFINE p == item[w]
  <2>1. /\ p \in Path /\ UNCHANGED item
        /\ \A v \in Worker : v # w => run'[v] = run[v]
        /\ \A q \in Path : q # p => (Summarized(q)' <=> Summarized(q))
    BY <1>5, MidRun
  <2>2. p \in Dir /\ (run'[w].step = "sampled" \/ Summarized(p)') =>
          SummarizedChildren(p) # {}
    BY <1>5, <2>1, MidRunSteps DEF RollUpsHaveChildren, File, Summarized
  <2>3. \A d \in Dir : Summarized(d)' => SummarizedChildren(d)' # {}
    BY <1>2, <1>3, <2>1, <2>2 DEF RollUpsHaveChildren
  <2>4. \A v \in Worker : run'[v].step = "sampled" /\ item[v] \in Dir =>
          SummarizedChildren(item[v]) # {}
    BY <2>1, <2>2 DEF RollUpsHaveChildren
  <2>5. \A v \in Worker : run'[v].step = "sampled" /\ item'[v] \in Dir =>
          (SummarizedChildren(item[v]))' # {}
    BY <1>1, <2>1, <2>4 DEF SummarizedChildren, Children
  <2> QED
    BY <2>3, <2>5 DEF RollUpsHaveChildren
<1> QED
  BY <1>4, <1>5, OrderlyStep

\* While anything below a directory is unfinished its own row is unsettled and no run of
\* it has begun, or it is remembered that one came too early.
DirsWait ==
  \A d \in Dir \ (lapsed \cup Sensitive) :
    HasUnfinished(d) => state[d] \notin {"none", "done"} /\ ~Begun(d)

\* So what a run reads stays what its directory has to be composed of.
RunsComposed ==
  \A w \in Worker, d \in Dir \ lapsed : item[w] = d =>
    /\ run[w].step = "sampled" => run[w].text = RollUp(d)
    /\ run[w].step \in {"skip", "written"} => Summarized(d) /\ summary[d].text = RollUp(d)
    /\ run[w].step = "empty" => ~Summarized(d)
DirsComposed ==
  \A d \in Dir \ lapsed :
    Summarized(d) => summary[d].text = RollUp(d) \/ state[d] \notin {"none", "done"}

ComposeInv ==
  /\ MerkleInv /\ Grounded /\ RollUpsHaveChildren /\ Unwatched
  /\ DirsWait /\ RunsComposed /\ DirsComposed

LEMMA InitCompose == EditsOnly /\ PipelineInit => ComposeInv
<1> SUFFICES ASSUME EditsOnly, PipelineInit PROVE ComposeInv
  OBVIOUS
<1>1. MerkleInv /\ Grounded /\ Unwatched
  BY InitMerkle, InitGrounded, InitByMode DEF ByMode
<1> QED
  BY <1>1 DEF PipelineInit, Init, ComposeInv, RollUpsHaveChildren, DirsWait, RunsComposed, DirsComposed,
    HasUnfinished, Summarized, NoRun

\* A directory's roll-up changes by what is written of its children only.
LEMMA SameChildren ==
  ASSUME NEW d \in Dir,
         \A c \in Children(d) : /\ Summarized(c)' <=> Summarized(c)
                                /\ Summarized(c) => summary'[c].text = summary[c].text
  PROVE  RollUp(d)' = RollUp(d)
<1>1. SummarizedChildren(d)' = SummarizedChildren(d)
  <2>1. SummarizedChildren(d)' = {c \in Children(d) : Summarized(c)'}
    BY DEF SummarizedChildren, Children
  <2>2. SummarizedChildren(d) = {c \in Children(d) : Summarized(c)}
    BY DEF SummarizedChildren
  <2> QED
    BY <2>1, <2>2
<1>2. \A c \in SummarizedChildren(d) : summary'[c].text = summary[c].text
  BY DEF SummarizedChildren
<1> QED
  BY <1>1, <1>2 DEF RollUp

LEMMA SameRollUp ==
  ASSUME EditsOnly, RowInv, [PipelineNext]_<<vars, pipeVars>>, NEW d \in Dir,
         \A w \in Worker : Run(w) /\ ~Ending(w) => item[w] \notin Children(d)
  PROVE  RollUp(d)' = RollUp(d)
<1>0. DataTyped /\ Children(d) \subseteq Path
  BY DEF RowInv, Children
<1>1. SUFFICES \A c \in Children(d) : /\ Summarized(c)' <=> Summarized(c)
                                      /\ Summarized(c) => summary'[c].text = summary[c].text
  BY SameChildren
<1>2. ASSUME NEW w \in Worker, Run(w), ~Ending(w)
      PROVE  \A c \in Children(d) : /\ Summarized(c)' <=> Summarized(c)
                                    /\ Summarized(c) => summary'[c].text = summary[c].text
  BY <1>0, <1>2, MidRun
<1>3. CASE ~Regenerate /\ ~ \E w \in Worker : Run(w) /\ ~Ending(w)
  <2>1. UNCHANGED summary
    BY <1>0, <1>3, SummariesStay DEF EditsOnly
  <2> QED
    BY <2>1 DEF Summarized
<1>4. CASE Regenerate
  <2>1. SummariesFade
    BY <1>0, <1>4, Fading DEF DataTyped, RunsTyped
  <2>2. DOMAIN summary' = DOMAIN summary
    BY <1>4 DEF Regenerate
  <2> QED
    BY <1>0, <2>1, <2>2 DEF SummariesFade, Summarized
<1> QED
  BY <1>2, <1>3, <1>4

LEMMA NextWaits ==
  ASSUME EditsOnly, ComposeInv, MerkleInv', [PipelineNext]_<<vars, pipeVars>>
  PROVE  DirsWait'
<1>0. DataTyped /\ RowInv /\ HandsInv /\ Dir \subseteq Path /\ watch.todo = {} /\ watch'.todo = {}
  BY NextUnwatched, QueueAssumption
  DEF EditsOnly, ComposeInv, MerkleInv, Unwatched, RowInv, QueueAssumption, Idle
<1>1. SUFFICES ASSUME NEW d \in Dir, d \notin lapsed', d \notin Sensitive, HasUnfinished(d)'
               PROVE  state'[d] \notin {"none", "done"} /\ ~Begun(d)'
  BY DEF DirsWait
<1>2. ASSUME NEW w \in Worker, Run(w), ~Ending(w)
      PROVE  state'[d] \notin {"none", "done"} /\ ~Begun(d)'
  <2>1. /\ UNCHANGED <<state, item>> /\ item[w] \in Path
        /\ \A v \in Worker : v # w => run'[v] = run[v]
        /\ d # item[w] => (d \in lapsed' <=> d \in lapsed)
    BY <1>0, <1>2, MidRun
  <2>2. HasUnfinished(d)
    BY <1>1, <2>1 DEF HasUnfinished
  <2>3. CASE item[w] = d
    <3>1. d \notin lapsed /\ run[w].step # "none"
      BY <1>0, <1>1, <1>2, <2>2, <2>3, MidRunSteps DEF File
    <3> QED
      BY <1>1, <2>2, <2>3, <3>1 DEF ComposeInv, DirsWait, Begun
  <2>4. CASE item[w] # d
    <3>1. state[d] \notin {"none", "done"} /\ ~Begun(d)
      BY <1>1, <2>1, <2>2, <2>4 DEF ComposeInv, DirsWait
    <3> QED
      BY <2>1, <2>4, <3>1 DEF Begun
  <2> QED
    BY <2>3, <2>4
<1>3. CASE ~ \E w \in Worker : Run(w) /\ ~Ending(w)
  <2>1. RunsCarryOn
    BY <1>0, <1>3, OrderlyStep
  <2>2. d \notin lapsed
    <3>1. ~ \E v \in Worker : BeginDir(v)
      BY <1>3 DEF Run, Ending, BeginDir, RefuseFile, AtStep, Complete, DescriberError, File
    <3> QED
      BY <1>1, <3>1, LapsedDirs
  <2>3. Begun(d)' => Begun(d) /\ Held(d)
    BY <1>0, <2>1, BusyHolds DEF RunsCarryOn, Begun
  <2>4. CASE HasUnfinished(d)
    <3>1. state[d] \notin {"none", "done"} /\ ~Begun(d)
      BY <1>1, <2>2, <2>4 DEF ComposeInv, DirsWait
    <3>2. \A w \in Worker : Complete(w) => item[w] # d
      BY <3>1 DEF Complete, Begun
    <3> QED
      BY <1>0, <1>1, <2>3, <3>1, <3>2, UnsettledSteps DEF ComposeInv
  <2>5. CASE ~HasUnfinished(d)
    <3>1. Told(d)
      BY <1>0, <1>1, <2>5, UnfinishedBelow
    <3> QED
      BY <1>0, <1>1, <2>3, <3>1 DEF Told
  <2> QED
    BY <2>4, <2>5
<1> QED
  BY <1>2, <1>3

\* While a directory's run is in hand, or its row is settled, no child is written.
LEMMA NoChildWritten ==
  ASSUME ComposeInv, NEW d \in Dir, d \notin lapsed, d \notin Sensitive,
         Begun(d) \/ state[d] \in {"none", "done"}, NEW w \in Worker, Run(w), ~Ending(w)
  PROVE  item[w] \notin Children(d)
<1>1. phase[w] = "running" /\ item[w] \in Path
  BY MidRun DEF ComposeInv, MerkleInv, RowInv
<1>2. state[item[w]] = "in_flight"
  BY <1>1 DEF ComposeInv, MerkleInv, HandsInv, HandsOn
<1> QED
  BY <1>1, <1>2 DEF ComposeInv, DirsWait, HasUnfinished, Children

LEMMA NextRunsComposed ==
  ASSUME EditsOnly, ComposeInv, [PipelineNext]_<<vars, pipeVars>>
  PROVE  RunsComposed'
<1>0. DataTyped /\ RowInv /\ HandsInv /\ Dir \subseteq Path
  BY QueueAssumption DEF ComposeInv, MerkleInv, RowInv, QueueAssumption
<1>1. SUFFICES ASSUME NEW w \in Worker, NEW d \in Dir, d \notin lapsed', item'[w] = d,
                      run'[w].step # "none"
      PROVE  /\ run'[w].step = "sampled" => run'[w].text = RollUp(d)'
             /\ run'[w].step \in {"skip", "written"} =>
                  Summarized(d)' /\ summary'[d].text = RollUp(d)'
             /\ run'[w].step = "empty" => ~Summarized(d)'
  BY DEF RunsComposed
<1>2. ASSUME item[w] = d, d \notin lapsed, run'[w] = run[w], run[w].step # "none",
             Summarized(d)' <=> Summarized(d),
             Summarized(d) => summary'[d].text = summary[d].text
      PROVE  /\ run'[w].step = "sampled" => run'[w].text = RollUp(d)'
             /\ run'[w].step \in {"skip", "written"} =>
                  Summarized(d)' /\ summary'[d].text = RollUp(d)'
             /\ run'[w].step = "empty" => ~Summarized(d)'
  <2>1. Begun(d) /\ d \notin Sensitive
    BY <1>0, <1>2 DEF Begun, RowInv, SecretsUnqueued
  <2>2. RollUp(d)' = RollUp(d)
    BY <1>0, <1>2, <2>1, NoChildWritten, SameRollUp
  <2> QED
    BY <1>2, <2>2 DEF ComposeInv, RunsComposed
<1>3. ASSUME NEW v \in Worker, Run(v), ~Ending(v), v # w
      PROVE  /\ item[w] = d /\ d \notin lapsed /\ run'[w] = run[w] /\ run[w].step # "none"
             /\ Summarized(d)' <=> Summarized(d)
             /\ Summarized(d) => summary'[d].text = summary[d].text
  <2>1. /\ UNCHANGED item /\ run'[w] = run[w]
        /\ phase[v] = "running" /\ item[v] \in Path
        /\ \A q \in Path : q # item[v] => /\ (q \in lapsed' <=> q \in lapsed)
                                          /\ (Summarized(q)' <=> Summarized(q))
                                          /\ (Summarized(q) => summary'[q] = summary[q])
    BY <1>0, <1>3, MidRun
  <2>2. d # item[v]
    BY <1>0, <1>1, <1>3, <2>1, BusyHolds DEF HandsInv, HandsOn
  <2> QED
    BY <1>0, <1>1, <2>1, <2>2
<1>4. ASSUME ~ \E v \in Worker : Run(v) /\ ~Ending(v)
      PROVE  /\ item[w] = d /\ d \notin lapsed /\ run'[w] = run[w] /\ run[w].step # "none"
             /\ Summarized(d)' <=> Summarized(d)
             /\ Summarized(d) => summary'[d].text = summary[d].text
  <2>1. RunsCarryOn /\ SummariesFade
    BY <1>0, <1>4, OrderlyStep
  <2>2. item[w] = d /\ run'[w] = run[w] /\ run[w].step # "none"
    BY <1>1, <2>1 DEF RunsCarryOn
  <2>3. d \notin lapsed
    <3>1. ~ \E v \in Worker : BeginDir(v)
      BY <1>4 DEF Run, Ending, BeginDir, RefuseFile, AtStep, Complete, DescriberError, File
    <3> QED
      BY <1>1, <3>1, LapsedDirs
  <2>4. Summarized(d) => Summarized(d)'
    BY <1>0, KeptSummaries DEF EditsOnly
  <2>5. Summarized(d)' => Summarized(d) /\ summary'[d].text = summary[d].text
    BY <1>0, <2>1 DEF SummariesFade, Summarized
  <2> QED
    BY <2>2, <2>3, <2>4, <2>5
<1>5. ASSUME Run(w), ~Ending(w)
      PROVE  /\ run'[w].step = "sampled" => run'[w].text = RollUp(d)'
             /\ run'[w].step \in {"skip", "written"} =>
                  Summarized(d)' /\ summary'[d].text = RollUp(d)'
             /\ run'[w].step = "empty" => ~Summarized(d)'
  <2>0. UNCHANGED item /\ item[w] = d /\ d \in Path /\ d \notin File
    BY <1>0, <1>1, <1>5, MidRun DEF File
  <2>1. d \notin Children(d)
    <3>1. d \notin Ancestors[d]
      BY <2>0, QueueAssumption, ClosedBelow DEF QueueAssumption
    <3> QED
      BY <3>1 DEF Children
  <2>2. RollUp(d)' = RollUp(d)
    <3>1. \A c \in Children(d) : c \in Path /\ c # d
      BY <2>1 DEF Children
    <3>2. \A q \in Path : q # d => /\ (Summarized(q)' <=> Summarized(q))
                                   /\ (Summarized(q) => summary'[q] = summary[q])
      BY <1>0, <1>5, <2>0, MidRun
    <3> QED
      BY <3>1, <3>2, SameChildren
  <2>3. CASE BeginDir(w)
    <3>1. /\ run'[w].step = (IF SummarizedChildren(d) = {} THEN "empty"
                               ELSE IF Gate(d, DirHash(d)) THEN "skip" ELSE "sampled")
          /\ run'[w].text = RollUp(d) /\ UNCHANGED summary
      <4>1. ~BeginFile(w) /\ ~Sample(w) /\ ~EmptyAnswer(w) /\ ~Write(w)
        BY <2>0, <2>3 DEF BeginDir, BeginFile, Sample, EmptyAnswer, Write, AtStep
      <4> QED
        BY <1>0, <1>5, <2>0, <4>1, MidRunSteps
    <3>2. CASE SummarizedChildren(d) = {}
      <4>1. run'[w].step = "empty" /\ ~Summarized(d)
        <5>1. run'[w].step = "empty"
          BY <3>1, <3>2
        <5> QED
          BY <3>2, <5>1 DEF ComposeInv, RollUpsHaveChildren
      <4> QED
        BY <3>1, <4>1 DEF Summarized
    <3>3. CASE SummarizedChildren(d) # {} /\ Gate(d, DirHash(d))
      <4>1. run'[w].step = "skip"
        BY <3>1, <3>3
      <4>2. Summarized(d) /\ summary[d].text = RollUp(d)
        BY <3>3, MerkleSound DEF ComposeInv, MerkleGateSound, Gate
      <4> QED
        BY <2>2, <3>1, <4>1, <4>2 DEF Summarized
    <3>4. CASE SummarizedChildren(d) # {} /\ ~Gate(d, DirHash(d))
      <4>1. run'[w].step = "sampled"
        BY <3>1, <3>4
      <4> QED
        BY <2>2, <3>1, <4>1
    <3> QED
      BY <3>2, <3>3, <3>4
  <2>4. CASE run[w].step = "sampled" /\ Write(w)
    <3>1. /\ run'[w].step = "written" /\ Summarized(d)' /\ (d \in lapsed' <=> d \in lapsed)
          /\ summary'[d].hash = run[w].hash /\ summary'[d].text = run[w].text
      <4>1. ~BeginFile(w) /\ ~Sample(w) /\ ~BeginDir(w)
        BY <2>0, <2>4 DEF BeginDir, BeginFile, Sample, AtStep
      <4>2. Summarized(d)' /\ summary'[d].hash = run[w].hash /\ summary'[d].text = run[w].text
        BY <1>0, <2>0, <2>4, WriteSummarizes
      <4>3. run'[w].step = "written"
        <5>1. IsRun(run[w]) /\ run'[w] = [run[w] EXCEPT !.step = "written"]
          BY <1>0, <2>4 DEF Write, DataTyped, RunsTyped, RunShape
        <5> QED
          BY <5>1, NewStep
      <4>4. d \in lapsed' <=> d \in lapsed
        BY <2>0, <2>4 DEF Write
      <4> QED
        BY <4>2, <4>3, <4>4
    <3>2. run[w].text = RollUp(d)
      BY <1>1, <2>0, <2>4, <3>1 DEF ComposeInv, RunsComposed
    <3> QED
      BY <2>2, <3>1, <3>2
  <2> QED
    BY <1>0, <1>1, <1>5, <2>0, <2>3, <2>4, MidRunSteps
<1> QED
  BY <1>2, <1>3, <1>4, <1>5

LEMMA NextDirsComposed ==
  ASSUME EditsOnly, ComposeInv, [PipelineNext]_<<vars, pipeVars>>
  PROVE  DirsComposed'
<1>0. DataTyped /\ RowInv /\ HandsInv /\ Dir \subseteq Path
  BY QueueAssumption DEF ComposeInv, MerkleInv, RowInv, QueueAssumption
<1>1. SUFFICES ASSUME NEW d \in Dir, d \notin lapsed', Summarized(d)',
                      state'[d] \in {"none", "done"}
               PROVE  summary'[d].text = RollUp(d)'
  BY DEF DirsComposed
<1>2. ASSUME NEW w \in Worker, Run(w), ~Ending(w) PROVE summary'[d].text = RollUp(d)'
  <2>1. /\ UNCHANGED state /\ item[w] \in Path /\ state[item[w]] = "in_flight"
        /\ d # item[w] => /\ (d \in lapsed' <=> d \in lapsed)
                          /\ (Summarized(d)' <=> Summarized(d))
                          /\ (Summarized(d) => summary'[d] = summary[d])
    BY <1>0, <1>2, MidRun DEF HandsInv, HandsOn
  <2>2. /\ state[d] \in {"none", "done"} /\ d \notin lapsed /\ Summarized(d)
        /\ summary'[d] = summary[d]
    BY <1>0, <1>1, <2>1
  <2>3. d \notin Sensitive /\ summary[d].text = RollUp(d)
    BY <1>0, <2>2 DEF ComposeInv, Grounded, DirsComposed
  <2>4. RollUp(d)' = RollUp(d)
    BY <1>0, <2>2, <2>3, NoChildWritten, SameRollUp
  <2> QED
    BY <2>2, <2>3, <2>4
<1>3. CASE ~ \E w \in Worker : Run(w) /\ ~Ending(w)
  <2>1. d \notin lapsed
    <3>1. ~ \E v \in Worker : BeginDir(v)
      BY <1>3 DEF Run, Ending, BeginDir, RefuseFile, AtStep, Complete, DescriberError, File
    <3> QED
      BY <1>1, <3>1, LapsedDirs
  <2>2. Summarized(d) /\ summary'[d].text = summary[d].text
    BY <1>0, <1>1, <1>3, OrderlyStep DEF SummariesFade, Summarized
  <2>3. RollUp(d)' = RollUp(d)
    BY <1>0, <1>3, SameRollUp
  <2>4. summary[d].text = RollUp(d)
    <3>1. CASE state[d] \in {"none", "done"}
      BY <2>1, <2>2, <3>1 DEF ComposeInv, DirsComposed
    <3>2. CASE state[d] \notin {"none", "done"}
      <4>1. d \notin Sensitive
        BY <1>0, <2>2 DEF ComposeInv, Grounded
      <4>2. PICK w \in Worker : Complete(w) /\ item[w] = d
        BY <1>0, <1>1, <3>2, <4>1, UnsettledSteps DEF ComposeInv
      <4>3. run[w].step \in {"skip", "empty", "written"}
        BY <4>2 DEF Complete
      <4> QED
        BY <2>1, <2>2, <4>2, <4>3 DEF ComposeInv, RunsComposed
    <3> QED
      BY <3>1, <3>2
  <2> QED
    BY <2>2, <2>3, <2>4
<1> QED
  BY <1>2, <1>3

LEMMA NextCompose ==
  ASSUME EditsOnly, ComposeInv, [PipelineNext]_<<vars, pipeVars>>
  PROVE  ComposeInv'
<1>1. MerkleInv'
  BY NextMerkle DEF ComposeInv
<1>2. Grounded' /\ RollUpsHaveChildren' /\ Unwatched'
  BY NextGrounded, ChildrenStay, NextUnwatched DEF ComposeInv, MerkleInv, RowInv, EditsOnly
<1>3. DirsWait' /\ RunsComposed' /\ DirsComposed'
  BY <1>1, NextWaits, NextRunsComposed, NextDirsComposed
<1> QED
  BY <1>1, <1>2, <1>3 DEF ComposeInv

\* Once the queue has drained, every roll-up is of the summaries its children have
\* (mark_for_resummary's propagation to the ancestors, a directory deferred while
\* anything below it is unfinished, and the Merkle gate), but for the roll-ups that were
\* composed too early, were in hand when a refresh asked for them, or whose last answer
\* was empty; provided the same.
THEOREM RollUpsAgree == EditsOnly => (PipelineSpec => []RollUpsConverge)
<1> SUFFICES ASSUME EditsOnly PROVE PipelineSpec => []RollUpsConverge
  OBVIOUS
<1>1. PipelineInit => ComposeInv
  BY InitCompose
<1>2. ComposeInv /\ [PipelineNext]_<<vars, pipeVars>> => ComposeInv'
  BY NextCompose
<1>3. ComposeInv => RollUpsConverge
  <2> SUFFICES ASSUME ComposeInv, Settled, NEW d \in Dir \ lapsed, Summarized(d)
               PROVE  summary[d].text = RollUp(d)
    BY DEF RollUpsConverge
  <2>1. state[d] \in {"none", "done"}
    BY QueueAssumption DEF QueueAssumption, Settled
  <2> QED
    BY <2>1 DEF ComposeInv, DirsComposed
<1> QED
  BY <1>1, <1>2, <1>3, PTL DEF PipelineSpec
=============================================================================
