---------------------------- MODULE SummaryQueue ----------------------------
(***************************************************************************)
(* The summary_queue table of the index and the drain loops that work it   *)
(* off (crates/core/src/store/queue.rs, crates/query/src/worker.rs, the    *)
(* loops of crates/query/src/summarize.rs and crates/web/src/jobs_exec).   *)
(*                                                                         *)
(* Every SQL statement is one atomic step: SQLite serialises writers and   *)
(* each worker has a connection of its own, so statements of different     *)
(* workers interleave and a value a worker has read may be out of date     *)
(* when it acts on it.  What a summary says is not modelled here (module   *)
(* SummaryPipeline does that); only that a run takes time and ends well    *)
(* or badly.                                                               *)
(***************************************************************************)
EXTENDS Naturals, FiniteSets

CONSTANTS
  Path,          \* the files and directories of the indexed trees
  Dir,           \* the paths whose queue kind is "dir"
  Depth,         \* number of separators of a path
  Ancestors,     \* the proper ancestors of a path
  Sensitive,     \* paths the filename security boundary excludes
  Volatile,      \* paths whose entry may be absent: files that come and go
  Retryable,     \* paths a user of the web UI may ask to retry
  Worker,        \* the drain loops, of every process
  Proc,          \* operating-system processes sharing the database
  ProcOf,        \* the process a drain loop runs in
  Daemon,        \* `indexa worker` processes: their loops never end
  Sweeper,       \* processes that sweep at startup: `indexa worker`, `serve`
  Crashable,     \* processes that may be killed
  MaxAttempts,   \* the sweep's cap (3 at both call sites)
  MaxDirDefers,  \* the force-rollup cap (1200)
  MaxFaults,     \* bound: crashes and store errors per behaviour
  MaxEvents,     \* bound: environment operations per behaviour
  None

ASSUME QueueAssumption ==
  /\ Dir \subseteq Path
  /\ Depth \in [Path -> Nat]
  /\ Ancestors \in [Path -> SUBSET Dir]
  /\ \A p \in Path : \A d \in Ancestors[p] : Depth[d] < Depth[p]
  /\ Sensitive \subseteq Path
  /\ Volatile \subseteq Path
  /\ Retryable \subseteq Path
  /\ ProcOf \in [Worker -> Proc]
  /\ Daemon \subseteq Sweeper
  /\ Sweeper \subseteq Proc
  /\ Crashable \subseteq Proc
  /\ MaxAttempts \in Nat \ {0}
  /\ MaxDirDefers \in Nat
  /\ MaxFaults \in Nat
  /\ MaxEvents \in Nat
  /\ None \notin Path \cup Worker

VARIABLES
  entry,      \* the entries table: absent, summarizable, or policy Skip/Sensitive
  state,      \* summary_queue.state; "none" is the absence of a row
  attempts,   \* summary_queue.attempts
  phase,      \* where each drain loop is
  item,       \* the item it has claimed
  defers,     \* its local count of defers per directory
  up,         \* the processes that are running
  lostRuns,   \* history: runs of a row's work lost to a crash or store error
  faults,     \* bound bookkeeping
  events      \* bound bookkeeping

queueVars  == <<state, attempts, lostRuns>>
workerVars == <<phase, item, defers>>
vars == <<entry, state, attempts, phase, item, defers, up, lostRuns, faults, events>>

EntryState == {"none", "ok", "excluded"}
RowState   == {"none", "pending", "in_flight", "done", "failed"}
Phase == {"off", "idle", "claimed", "orphaned", "admitted", "deferring", "running"}
Busy  == Phase \ {"off", "idle"}

TypeOK ==
  /\ entry \in [Path -> EntryState]
  /\ state \in [Path -> RowState]
  /\ attempts \in [Path -> Nat]
  /\ phase \in [Worker -> Phase]
  /\ item \in [Worker -> Path \cup {None}]
  /\ \A w \in Worker : phase[w] \in Busy <=> item[w] # None
  /\ defers \in [Worker -> [Dir -> 0..MaxDirDefers]]
  /\ up \subseteq Proc
  /\ lostRuns \in [Path -> Nat]
  /\ faults \in 0..MaxFaults
  /\ events \in 0..MaxEvents

Init ==
  /\ entry \in [Path -> EntryState]
  /\ \A p \in Path : entry[p] = "none" => p \in Volatile
  /\ state = [p \in Path |-> "none"]
  /\ attempts = [p \in Path |-> 0]
  /\ phase = [w \in Worker |-> "off"]
  /\ item = [w \in Worker |-> None]
  /\ defers = [w \in Worker |-> [d \in Dir |-> 0]]
  /\ up = {}
  /\ lostRuns = [p \in Path |-> 0]
  /\ faults = 0
  /\ events = 0

-----------------------------------------------------------------------------
(* Reads of the store.                                                      *)

\* summary_path_allowed: secrets never; else the entry's policy decides, and a
\* path without an entry is allowed only while the index has no entry at all.
Allowed(p) ==
  /\ p \notin Sensitive
  /\ \/ entry[p] = "ok"
     \/ \A q \in Path : entry[q] = "none"

Pending == {p \in Path : state[p] = "pending"}
Deepest(S) == {p \in S : \A q \in S : Depth[q] <= Depth[p]}

Holds(w, p) == phase[w] \in Busy /\ item[w] = p
Held(p) == \E w \in Worker : Holds(w, p)

\* subtree_has_unfinished: a strict descendant is pending or in flight.
HasUnfinished(d) ==
  \E p \in Path : d \in Ancestors[p] /\ state[p] \in {"pending", "in_flight"}

-----------------------------------------------------------------------------
(* One drain loop.                                                          *)

\* The loop lets go of its item and returns to its top.
Release(w) ==
  /\ phase' = [phase EXCEPT ![w] = "idle"]
  /\ item' = [item EXCEPT ![w] = None]

ForgetDefers(w, p) ==
  defers' = [defers EXCEPT ![w] = [d \in Dir |-> IF d = p THEN 0 ELSE @[d]]]

DropRow(p) ==
  /\ state' = [state EXCEPT ![p] = "none"]
  /\ attempts' = [attempts EXCEPT ![p] = 0]
  /\ lostRuns' = [lostRuns EXCEPT ![p] = 0]

\* mark_queue_state is an UPDATE: without a row it changes nothing.
MarkRow(p, s) ==
  state' = [state EXCEPT ![p] = IF @ = "none" THEN @ ELSE s]

\* next_queue_item: select the deepest pending row and claim it, in one statement.
Claim(w) ==
  /\ phase[w] = "idle"
  /\ \E p \in Deepest(Pending) :
       /\ state' = [state EXCEPT ![p] = "in_flight"]
       /\ attempts' = [attempts EXCEPT ![p] = @ + 1]
       /\ phase' = [phase EXCEPT ![w] = "claimed"]
       /\ item' = [item EXCEPT ![w] = p]
  /\ UNCHANGED <<entry, defers, up, lostRuns, faults, events>>

\* Slip: the cap is compared with > instead of >=.
ForcedLate(w) == item[w] \in Dir /\ defers[w][item[w]] > MaxDirDefers
Forced(w) == item[w] \in Dir /\ defers[w][item[w]] >= MaxDirDefers

\* process_queue_item_with_passes, first read: may this path be summarized?  A
\* directory that is not forced has a second gate before its roll-up starts.
CheckAllowed(w) ==
  /\ phase[w] = "claimed"
  /\ phase' = [phase EXCEPT ![w] =
       IF ~Allowed(item[w]) THEN "orphaned"
       ELSE IF item[w] \in Dir /\ ~Forced(w) THEN "admitted" ELSE "running"]
  /\ UNCHANGED <<entry, queueVars, item, defers, up, faults, events>>

DeleteOrphan(w) ==
  /\ phase[w] = "orphaned"
  /\ DropRow(item[w])
  /\ ForgetDefers(w, item[w])
  /\ Release(w)
  /\ UNCHANGED <<entry, up, faults, events>>

\* Second read: are strict descendants unfinished?  If the read itself fails
\* the loop treats the subtree as ready.
CheckSubtree(w) ==
  /\ phase[w] = "admitted"
  /\ phase' = [phase EXCEPT ![w] =
                 IF HasUnfinished(item[w]) THEN "deferring" ELSE "running"]
  /\ UNCHANGED <<entry, queueVars, item, defers, up, faults, events>>

CheckSubtreeReadError(w) ==
  /\ phase[w] = "admitted"
  /\ faults < MaxFaults
  /\ faults' = faults + 1
  /\ phase' = [phase EXCEPT ![w] = "running"]
  /\ UNCHANGED <<entry, queueVars, item, defers, up, events>>

\* Slip: a defer counts as an attempt.
KeepAttempt(n) == n

\* attempts := MAX(0, attempts - 1)
UndoAttempt(n) == IF n > 0 THEN n - 1 ELSE 0

\* Slip: the loop forgets to count its defers, so no roll-up is ever forced.
DeferUncounted(w) ==
  /\ phase[w] = "deferring"
  /\ MarkRow(item[w], "pending")
  /\ attempts' = [attempts EXCEPT ![item[w]] = UndoAttempt(@)]
  /\ Release(w)
  /\ UNCHANGED <<entry, defers, up, lostRuns, faults, events>>

\* defer_queue_item, then the loop's own count.
Defer(w) ==
  /\ phase[w] = "deferring"
  /\ MarkRow(item[w], "pending")
  /\ attempts' = [attempts EXCEPT ![item[w]] = UndoAttempt(@)]
  /\ defers' = [defers EXCEPT ![w][item[w]] = @ + 1]
  /\ Release(w)
  /\ UNCHANGED <<entry, up, lostRuns, faults, events>>

\* Slip: a failed run is reported but its row is not terminalized.
FinishSilently(w, s) ==
  /\ phase[w] = "running"
  /\ IF s = "failed" THEN UNCHANGED state ELSE MarkRow(item[w], s)
  /\ ForgetDefers(w, item[w])
  /\ Release(w)
  /\ UNCHANGED <<entry, attempts, up, lostRuns, faults, events>>

\* The summary run ends: the row is terminalized, whatever its state is by now.
FinishAs(w, s) ==
  /\ phase[w] = "running"
  /\ MarkRow(item[w], s)
  /\ ForgetDefers(w, item[w])
  /\ Release(w)
  /\ UNCHANGED <<entry, attempts, up, lostRuns, faults, events>>

Finish(w) == FinishAs(w, "done") \/ FinishAs(w, "failed")

\* A store call fails: the loop marks the row failed, best effort.
StoreErrorMarked(w) ==
  /\ phase[w] \in Busy
  /\ faults < MaxFaults
  /\ faults' = faults + 1
  /\ MarkRow(item[w], "failed")
  /\ ForgetDefers(w, item[w])
  /\ Release(w)
  /\ UNCHANGED <<entry, attempts, up, lostRuns, events>>

\* ... and that second write may fail as well, which leaves the row in flight.
StoreErrorUnmarked(w) ==
  /\ phase[w] \in Busy
  /\ faults < MaxFaults
  /\ faults' = faults + 1
  /\ lostRuns' = [lostRuns EXCEPT ![item[w]] = @ + 1]
  /\ ForgetDefers(w, item[w])
  /\ Release(w)
  /\ UNCHANGED <<entry, state, attempts, up, events>>

Step(w) ==
  \/ Claim(w) \/ CheckAllowed(w) \/ DeleteOrphan(w)
  \/ CheckSubtree(w) \/ Defer(w) \/ Finish(w)

Fault(w) ==
  \/ CheckSubtreeReadError(w) \/ StoreErrorMarked(w) \/ StoreErrorUnmarked(w)

-----------------------------------------------------------------------------
(* Processes.                                                               *)

\* Slip: off by one at the cap.
SweptEarly(p) ==
  IF state[p] # "in_flight" THEN state[p]
  ELSE IF attempts[p] >= MaxAttempts - 1 THEN "failed" ELSE "pending"

\* Slip: the sweep revives failed rows too.
SweptFailed(p) ==
  IF state[p] \notin {"in_flight", "failed"} THEN state[p]
  ELSE IF attempts[p] >= MaxAttempts THEN "failed" ELSE "pending"

Swept(p) ==
  IF state[p] # "in_flight" THEN state[p]
  ELSE IF attempts[p] >= MaxAttempts THEN "failed" ELSE "pending"

\* requeue_stale_in_flight(3) at startup, before this process claims anything; a
\* store error is reported and the sweep skipped.
Sweep ==
  \/ state' = [p \in Path |-> Swept(p)] /\ UNCHANGED faults
  \/ faults < MaxFaults /\ faults' = faults + 1 /\ UNCHANGED state

\* `indexa worker` then spawns its loops.
Boot(pr) ==
  /\ pr \notin up
  /\ up' = up \cup {pr}
  /\ IF pr \in Sweeper THEN Sweep ELSE UNCHANGED <<state, faults>>
  /\ phase' = [w \in Worker |->
                 IF ProcOf[w] = pr /\ pr \in Daemon THEN "idle" ELSE phase[w]]
  /\ UNCHANGED <<entry, attempts, item, defers, lostRuns, events>>

\* A web summarize job or a command-line drain starts with an empty defers map.
StartJob(w) ==
  /\ ProcOf[w] \in up \ Daemon
  /\ phase[w] = "off"
  /\ events < MaxEvents
  /\ events' = events + 1
  /\ phase' = [phase EXCEPT ![w] = "idle"]
  /\ defers' = [defers EXCEPT ![w] = [d \in Dir |-> 0]]
  /\ UNCHANGED <<entry, queueVars, item, up, faults>>

\* At the top of its loop a job finds nothing pending, or a cancel request.
EndJob(w) ==
  /\ ProcOf[w] \notin Daemon
  /\ phase[w] = "idle"
  /\ phase' = [phase EXCEPT ![w] = "off"]
  /\ UNCHANGED <<entry, queueVars, item, defers, up, faults, events>>

\* The process is killed; what its loops had in hand stays in flight.
Crash(pr) ==
  /\ pr \in up \cap Crashable
  /\ faults < MaxFaults
  /\ faults' = faults + 1
  /\ up' = up \ {pr}
  /\ phase' = [w \in Worker |-> IF ProcOf[w] = pr THEN "off" ELSE phase[w]]
  /\ item' = [w \in Worker |-> IF ProcOf[w] = pr THEN None ELSE item[w]]
  /\ defers' = [w \in Worker |->
                  IF ProcOf[w] = pr THEN [d \in Dir |-> 0] ELSE defers[w]]
  /\ lostRuns' = [p \in Path |->
       IF \E w \in Worker : ProcOf[w] = pr /\ Holds(w, p)
       THEN lostRuns[p] + 1 ELSE lostRuns[p]]
  /\ UNCHANGED <<entry, state, attempts, events>>

-----------------------------------------------------------------------------
(* Other operations on the shared tables.                                   *)

Event == events < MaxEvents /\ events' = events + 1

\* enqueue_summary_items: INSERT OR IGNORE, one transaction.
Enqueue(S) ==
  /\ Event
  /\ state' = [p \in Path |->
       IF p \in S /\ state[p] = "none" /\ Allowed(p) THEN "pending" ELSE state[p]]
  /\ UNCHANGED <<entry, attempts, lostRuns, workerVars, up, faults>>

\* Slip: no exception for rows in flight.
MarkAllForResummary(S) ==
  LET hit == {p \in S : Allowed(p)} IN
  /\ Event
  /\ state' = [p \in Path |-> IF p \in hit THEN "pending" ELSE state[p]]
  /\ attempts' = [p \in Path |-> IF p \in hit THEN 0 ELSE attempts[p]]
  /\ lostRuns' = [p \in Path |-> IF p \in hit THEN 0 ELSE lostRuns[p]]
  /\ UNCHANGED <<entry, workerVars, up, faults>>

\* mark_for_resummary[_batch]: upsert to pending with fresh attempts, unless
\* the row is in flight.
MarkForResummary(S) ==
  LET hit == {p \in S : Allowed(p) /\ state[p] # "in_flight"} IN
  /\ Event
  /\ state' = [p \in Path |-> IF p \in hit THEN "pending" ELSE state[p]]
  /\ attempts' = [p \in Path |-> IF p \in hit THEN 0 ELSE attempts[p]]
  /\ lostRuns' = [p \in Path |-> IF p \in hit THEN 0 ELSE lostRuns[p]]
  /\ UNCHANGED <<entry, workerVars, up, faults>>

\* POST /api/queue/retry: the handler asks neither what state the row is in nor
\* who has it, and leaves its attempts as they are.
Retry(p) ==
  /\ Event
  /\ MarkRow(p, "pending")
  /\ UNCHANGED <<entry, attempts, lostRuns, workerVars, up, faults>>

\* upsert_entries: a batch of entries is (re)written, by a scan, by deep or after a
\* watch event; a re-scan may change a path's policy.
UpsertEntries(S, e) ==
  /\ Event
  /\ entry' = [p \in Path |-> IF p \in S THEN e ELSE entry[p]]
  /\ UNCHANGED <<queueVars, workerVars, up, faults>>

DropRows(S) ==
  /\ state' = [p \in Path |-> IF p \in S THEN "none" ELSE state[p]]
  /\ attempts' = [p \in Path |-> IF p \in S THEN 0 ELSE attempts[p]]
  /\ lostRuns' = [p \in Path |-> IF p \in S THEN 0 ELSE lostRuns[p]]

\* delete_subtree (a watch event) and reconcile_by_generation (the end of a
\* scan): the entries and their queue rows go in one transaction.
DeleteEntries(S) ==
  /\ Event
  /\ entry' = [p \in Path |-> IF p \in S THEN "none" ELSE entry[p]]
  /\ DropRows(S)
  /\ UNCHANGED <<workerVars, up, faults>>

\* prune_orphans: rows without an entry go, unless the index has no entry.
PruneOrphans ==
  /\ Event
  /\ \E p \in Path : entry[p] # "none"
  /\ DropRows({p \in Path : entry[p] = "none"})
  /\ UNCHANGED <<entry, workerVars, up, faults>>

Environment ==
  \/ \E S \in SUBSET Path : Enqueue(S) \/ MarkForResummary(S)
  \/ \E p \in Retryable : Retry(p)
  \/ \E S \in SUBSET Path, e \in {"ok", "excluded"} : UpsertEntries(S, e)
  \/ \E S \in SUBSET Volatile : DeleteEntries(S)
  \/ PruneOrphans

Next ==
  \/ \E w \in Worker : Step(w) \/ Fault(w) \/ StartJob(w) \/ EndJob(w)
  \/ \E pr \in Proc : Boot(pr) \/ Crash(pr)
  \/ Environment

Spec == Init /\ [][Next]_vars

\* Scheduling: a running loop keeps taking its steps (run_watchdog's pause and
\* every back-off sleep are bounded), and `indexa worker` is started.
Fairness ==
  /\ \A w \in Worker : WF_vars(Step(w))
  /\ \A pr \in Daemon : WF_vars(Boot(pr))

FairSpec == Spec /\ Fairness

-----------------------------------------------------------------------------
(* Properties.                                                              *)

\* Paths no deletion and no retry request reaches while they are worked on.
Steady == Path \ (Volatile \cup Retryable)

\* Two drain loops never work on the same item at the same time, as long as
\* its row is not deleted or reset under them: the atomic claim, the untouched
\* in-flight rows of mark_for_resummary and the sweep before the first claim
\* together keep an item in one pair of hands (next_queue_item,
\* mark_for_resummary, requeue_stale_in_flight).
ClaimExclusive ==
  \A w1, w2 \in Worker : \A p \in Steady :
    Holds(w1, p) /\ Holds(w2, p) => w1 = w2

\* A row in flight is being worked on, unless its run was lost to a crash or to
\* a store error that could not even be recorded: no orderly path through the
\* loop leaves a row stranded.
InFlightAccounted ==
  \A p \in Path : state[p] = "in_flight" => Held(p) \/ lostRuns[p] > 0

\* attempts counts interrupted runs and nothing else: a defer is undone, an
\* orderly end leaves the count for the next enqueue to reset.
AttemptsCountLostRuns ==
  \A p \in Steady :
    /\ state[p] = "pending" => attempts[p] = lostRuns[p]
    /\ state[p] = "in_flight" =>
         attempts[p] = lostRuns[p] + (IF Held(p) THEN 1 ELSE 0)

\* The startup sweep gives up only on items that were interrupted MaxAttempts
\* times since they were queued ("they keep crashing"), however often the
\* item was deferred or re-queued in between.
SweepFailsOnlyRepeatOffenders ==
  [][\A pr \in Proc, p \in Steady :
       /\ pr \in up' \ up
       /\ state[p] = "in_flight"
       /\ state'[p] = "failed"
       => lostRuns[p] >= MaxAttempts]_vars

\* The startup sweep never takes an item away from a loop that is working on it.
SweepSparesHeldRows ==
  [][\A pr \in Proc, p \in Path :
       pr \in up' \ up /\ Held(p) => state'[p] = state[p]]_vars

\* Everything queued is eventually dealt with; only a run lost to a crash may
\* stay in flight, and it keeps no directory above it waiting for ever.
EveryItemSettles ==
  \A p \in Path :
    state[p] = "pending" ~>
      \/ state[p] \in {"none", "done", "failed"}
      \/ state[p] = "in_flight" /\ ~Held(p) /\ lostRuns[p] > 0

-----------------------------------------------------------------------------
(* The queue as its users see it.                                           *)

holderOf == [p \in Path |-> IF Held(p) THEN CHOOSE w \in Worker : Holds(w, p)
                                      ELSE None]
lostItems == {p \in Path : state[p] = "in_flight" /\ ~Held(p)}

Leases == INSTANCE LeasedTasks
            WITH Task <- Path, Agent <- Worker, Nobody <- None,
                 waiting <- Pending, holder <- holderOf, lost <- lostItems

\* Seen through what is pending, in whose hands, and stranded, the queue is a
\* lease manager: a defer, a sweep, a re-queue and an orphan's deletion are
\* each one of its operations, and no interleaving of the loops' separate reads
\* and writes shows through (while entries stay and no second process sweeps).
ImplementsLeases == Leases!LeaseSpec
=============================================================================
