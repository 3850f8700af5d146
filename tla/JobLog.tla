------------------------------- MODULE JobLog -------------------------------
(***************************************************************************)
(* The background jobs of `indexa serve` and the event stream a browser    *)
(* follows them by: the registry with its cap (crates/web/src/handlers/    *)
(* jobs.rs), the event log of a job (crates/web/src/jobs.rs), the life of  *)
(* a job's task (crates/web/src/jobs_exec/mod.rs) and the client's side of *)
(* the stream (assets/ui/js/04-jobs-views.js).                             *)
(*                                                                         *)
(* A job's events are numbered in the order its one task pushes them.      *)
(* push writes the history under a lock and sends to the channel after     *)
(* it; the status is set after both; a handler subscribes, then copies the *)
(* history, then reads the status and the latest progress.  Each of these  *)
(* is a step.                                                              *)
(***************************************************************************)
EXTENDS Naturals, Sequences, FiniteSets, FiniteSetsExt

CONSTANTS
  Job,           \* jobs started in the life of the server; ids are never reused
  Panicky,       \* jobs whose task may panic
  Quiet,         \* bound: jobs that have nothing to report but start and end
  Unwanted,      \* bound: jobs somebody may cancel
  Client,        \* browser tabs
  MaxJobs,       \* MAX_CONCURRENT_JOBS (4)
  MaxWarnings,   \* MAX_STORED_WARNINGS (500)
  Capacity,      \* of a job's broadcast channel (512)
  TailLen,       \* events of the replay's tail compared with live ones (8)
  Text,          \* texts of warnings: two warnings may read alike
  MaxEvents,     \* bound: events of one job
  MaxDrops,      \* bound: connections lost by a client
  None

ASSUME JobAssumption ==
  /\ Panicky \subseteq Job
  /\ Quiet \subseteq Job
  /\ Unwanted \subseteq Job
  /\ MaxJobs \in Nat \ {0}
  /\ MaxWarnings \in Nat \ {0}
  /\ Capacity \in Nat \ {0}
  /\ TailLen \in Nat \ {0}
  /\ 0 \notin Text
  /\ MaxEvents \in Nat
  /\ MaxDrops \in Nat
  /\ None \notin Job

VARIABLES
  registry,   \* the jobs the registry holds
  status,     \* JobHandle.status; "none" before the start
  pushed,     \* all events of the job so far
  sent,       \* how many of them the channel has had
  history,    \* JobHandle.history: the numbers of the events stored
  latest,     \* JobHandle.last_progress: its number, 0 for none
  cancelled,  \* JobHandle.cancelled
  pc,         \* where the job's task is
  at,         \* where each client's stream is
  watch,      \* the job it is about
  rx,         \* number of the last event its receiver is past
  snap,       \* the snapshot it replays: stored events and a progress
  fresh,      \* still_deduping has been cleared
  seen,       \* history: the events it has shown its client
  told,       \* history: it has announced a gap
  drops       \* bound bookkeeping

jobVars    == <<registry, status, pushed, sent, history, latest, cancelled, pc>>
clientVars == <<at, watch, rx, snap, fresh, seen, told, drops>>
vars == <<registry, status, pushed, sent, history, latest, cancelled, pc,
          at, watch, rx, snap, fresh, seen, told, drops>>

Status   == {"none", "running", "done", "failed"}
Terminal == {"done", "failed"}
Stored   == {"start", "warning", "done", "failed"}
Kind     == Stored \cup {"progress", "fragment"}
Event    == [kind : Kind, text : Text \cup {0}]
Numbers  == 1..MaxEvents
Snapshot == [hist : SUBSET Numbers, prog : Numbers \cup {0}]
NoSnap   == [hist |-> {}, prog |-> 0]
Pc == {"off", "head", "item", "storing", "ending", "over", "dead"}
At == {"closed", "subscribed", "copied", "asked", "streaming", "lost", "stranded", "ended"}

JobTypeOK ==
  /\ registry \subseteq Job
  /\ status \in [Job -> Status]
  /\ \A j \in Job : pushed[j] \in Seq(Event) /\ Len(pushed[j]) <= MaxEvents
  /\ \A j \in Job : sent[j] \in {Len(pushed[j]), Len(pushed[j]) - 1}
  /\ history \in [Job -> SUBSET Numbers]
  /\ latest \in [Job -> Numbers \cup {0}]
  /\ cancelled \in [Job -> BOOLEAN]
  /\ pc \in [Job -> Pc]
  /\ at \in [Client -> At]
  /\ watch \in [Client -> Job \cup {None}]
  /\ rx \in [Client -> 0..MaxEvents]
  /\ snap \in [Client -> Snapshot]
  /\ fresh \in [Client -> BOOLEAN]
  /\ seen \in [Client -> SUBSET Numbers]
  /\ told \in [Client -> BOOLEAN]
  /\ drops \in [Client -> 0..MaxDrops]

Init ==
  /\ registry = {}
  /\ status = [j \in Job |-> "none"]
  /\ pushed = [j \in Job |-> <<>>]
  /\ sent = [j \in Job |-> 0]
  /\ history = [j \in Job |-> {}]
  /\ latest = [j \in Job |-> 0]
  /\ cancelled = [j \in Job |-> FALSE]
  /\ pc = [j \in Job |-> "off"]
  /\ at = [c \in Client |-> "closed"]
  /\ watch = [c \in Client |-> None]
  /\ rx = [c \in Client |-> 0]
  /\ snap = [c \in Client |-> NoSnap]
  /\ fresh = [c \in Client |-> FALSE]
  /\ seen = [c \in Client |-> {}]
  /\ told = [c \in Client |-> FALSE]
  /\ drops = [c \in Client |-> 0]

-----------------------------------------------------------------------------
(* The log of a job.                                                        *)

Warnings(j, S) == {n \in S : pushed[j][n].kind = "warning"}

\* The history after event n is stored: of the warnings the newest are kept.
Store(j, n, kind) ==
  LET old == Warnings(j, history[j])
      full == kind = "warning" /\ Cardinality(old) >= MaxWarnings
  IN (history[j] \ IF full THEN {Min(old)} ELSE {}) \cup {n}

\* push, first half: the event is stored, a progress only as the latest one.
Record(j, e) ==
  LET n == Len(pushed[j]) + 1 IN
  /\ n <= MaxEvents
  /\ pushed' = [pushed EXCEPT ![j] = Append(@, e)]
  /\ IF e.kind = "progress"
     THEN /\ latest' = [latest EXCEPT ![j] = n]
          /\ UNCHANGED history
     ELSE /\ history' = [history EXCEPT ![j] = Store(j, n, e.kind)]
          /\ UNCHANGED latest

-----------------------------------------------------------------------------
(* The task of a job.                                                       *)

Running(S) == {j \in S : status[j] = "running"}

\* Slip: one job too many.
CapReachedLate == Cardinality(Running(registry)) > MaxJobs
CapReached == Cardinality(Running(registry)) >= MaxJobs

\* try_register_job, under the registry's write lock; then the task is spawned.
Start(j) ==
  /\ pc[j] = "off"
  /\ ~CapReached
  /\ registry' = registry \cup {j}
  /\ status' = [status EXCEPT ![j] = "running"]
  /\ Record(j, [kind |-> "start", text |-> 0])
  /\ pc' = [pc EXCEPT ![j] = "storing"]
  /\ UNCHANGED <<sent, cancelled, clientVars>>

\* push, second half.  A terminal event is the last one.
Send(j) ==
  /\ pc[j] = "storing"
  /\ sent' = [sent EXCEPT ![j] = Len(pushed[j])]
  /\ pc' = [pc EXCEPT ![j] =
              IF pushed[j][Len(pushed[j])].kind \in Terminal THEN "ending"
              ELSE IF Len(pushed[j]) = 1 THEN "head" ELSE "item"]
  /\ UNCHANGED <<registry, status, pushed, history, latest, cancelled, clientVars>>

\* Slip: the head of the loop does not look at the flag.
TakeItemAnyway(j) ==
  /\ pc[j] = "head"
  /\ pc' = [pc EXCEPT ![j] = "item"]
  /\ UNCHANGED <<registry, status, pushed, sent, history, latest, cancelled, clientVars>>

\* Head of a phase's loop: not cancelled, another item.
TakeItem(j) ==
  /\ pc[j] = "head"
  /\ ~cancelled[j]
  /\ pc' = [pc EXCEPT ![j] = "item"]
  /\ UNCHANGED <<registry, status, pushed, sent, history, latest, cancelled, clientVars>>

\* Slip: what is reported is stored and never sent.
ReportUnsent(j) ==
  /\ pc[j] = "item"
  /\ j \notin Quiet
  /\ Len(pushed[j]) + 1 < MaxEvents
  /\ \E t \in Text : Record(j, [kind |-> "warning", text |-> t])
  /\ UNCHANGED <<registry, status, sent, cancelled, pc, clientVars>>

\* Work on an item: warnings and a progress (the last place is for the end).
Report(j) ==
  /\ pc[j] = "item"
  /\ j \notin Quiet
  /\ Len(pushed[j]) + 1 < MaxEvents
  /\ \/ \E t \in Text : Record(j, [kind |-> "warning", text |-> t])
     \/ Record(j, [kind |-> "progress", text |-> 0])
  /\ pc' = [pc EXCEPT ![j] = "storing"]
  /\ UNCHANGED <<registry, status, sent, cancelled, clientVars>>

\* broadcast_only, when somebody listens: a fragment of the model's answer.
Fragment(j) ==
  /\ pc[j] = "item"
  /\ j \notin Quiet
  /\ Len(pushed[j]) + 1 < MaxEvents
  /\ \E c \in Client : watch[c] = j /\ at[c] \in {"subscribed", "copied", "asked", "streaming"}
  /\ pushed' = [pushed EXCEPT ![j] = Append(@, [kind |-> "fragment", text |-> 0])]
  /\ sent' = [sent EXCEPT ![j] = Len(pushed[j]) + 1]
  /\ UNCHANGED <<registry, status, history, latest, cancelled, pc, clientVars>>

ItemDone(j) ==
  /\ pc[j] = "item"
  /\ pc' = [pc EXCEPT ![j] = "head"]
  /\ UNCHANGED <<registry, status, pushed, sent, history, latest, cancelled, clientVars>>

\* finalize_cancelled, finalize_done, finalize_failed: the event goes first.
Finish(j) ==
  /\ pc[j] = "head"
  /\ \E kind \in Terminal :
       /\ cancelled[j] => kind = "done"
       /\ Record(j, [kind |-> kind, text |-> 0])
  /\ pc' = [pc EXCEPT ![j] = "storing"]
  /\ UNCHANGED <<registry, status, sent, cancelled, clientVars>>

\* set_status, after the event; and schedule_cleanup.
SetStatus(j) ==
  /\ pc[j] = "ending"
  /\ status' = [status EXCEPT ![j] = pushed[j][Len(pushed[j])].kind]
  /\ pc' = [pc EXCEPT ![j] = "over"]
  /\ UNCHANGED <<registry, pushed, sent, history, latest, cancelled, clientVars>>

\* The task dies on an item: neither event nor status nor cleanup follow.
Panic(j) ==
  /\ j \in Panicky
  /\ pc[j] = "item"
  /\ pc' = [pc EXCEPT ![j] = "dead"]
  /\ UNCHANGED <<registry, status, pushed, sent, history, latest, cancelled, clientVars>>

\* DELETE /api/jobs/:id
Cancel(j) ==
  /\ j \in Unwanted
  /\ j \in registry
  /\ cancelled' = [cancelled EXCEPT ![j] = TRUE]
  /\ UNCHANGED <<registry, status, pushed, sent, history, latest, pc, clientVars>>

\* A minute after the end.
Cleanup(j) ==
  /\ pc[j] = "over"
  /\ j \in registry
  /\ registry' = registry \ {j}
  /\ UNCHANGED <<status, pushed, sent, history, latest, cancelled, pc, clientVars>>

Task(j) ==
  Send(j) \/ TakeItem(j) \/ Report(j) \/ Fragment(j) \/ ItemDone(j) \/ Finish(j) \/ SetStatus(j)

-----------------------------------------------------------------------------
(* A client and its stream.                                                 *)

\* The client opens the stream of a job it knows; the handler subscribes.
Subscribe(c, j) ==
  /\ at[c] = "closed"
  /\ watch[c] \in {None, j}
  /\ pc[j] # "off"
  /\ watch' = [watch EXCEPT ![c] = j]
  /\ IF j \in registry
     THEN /\ at' = [at EXCEPT ![c] = "subscribed"]
          /\ rx' = [rx EXCEPT ![c] = sent[j]]
     ELSE /\ at' = [at EXCEPT ![c] = "lost"]
          /\ UNCHANGED rx
  /\ UNCHANGED <<jobVars, snap, fresh, seen, told, drops>>

\* history_snapshot, in three steps: the history is copied ...
CopyHistory(c) ==
  /\ at[c] = "subscribed"
  /\ at' = [at EXCEPT ![c] = "copied"]
  /\ snap' = [snap EXCEPT ![c] = [hist |-> history[watch[c]], prog |-> 0]]
  /\ UNCHANGED <<jobVars, watch, rx, fresh, seen, told, drops>>

EndsInTerminal(j, S) == S # {} /\ pushed[j][Max(S)].kind \in Terminal

\* Slip: the status alone decides.
AppendsProgressByStatus(c) == status[watch[c]] = "running"

\* ... the status is read: is the latest progress to be appended? ...
AppendsProgress(c) ==
  status[watch[c]] = "running" /\ ~EndsInTerminal(watch[c], snap[c].hist)

\* The stream is closed, by whoever: its state goes with it.
Close(c, where) ==
  /\ at' = [at EXCEPT ![c] = where]
  /\ rx' = [rx EXCEPT ![c] = 0]
  /\ snap' = [snap EXCEPT ![c] = NoSnap]
  /\ fresh' = [fresh EXCEPT ![c] = FALSE]
  /\ seen' = [seen EXCEPT ![c] = {}]
  /\ told' = [told EXCEPT ![c] = FALSE]

\* The events S reach the client and the receiver is past n; a client that is
\* shown the end of the job closes the stream.
Show(c, S, n, isFresh, isTold) ==
  IF \E m \in S : pushed[watch[c]][m].kind \in Terminal
  THEN Close(c, "ended")
  ELSE /\ seen' = [seen EXCEPT ![c] = @ \cup S]
       /\ rx' = [rx EXCEPT ![c] = n]
       /\ fresh' = [fresh EXCEPT ![c] = isFresh]
       /\ told' = [told EXCEPT ![c] = isTold]
       /\ UNCHANGED <<at, snap>>

AskStatus(c) ==
  /\ at[c] = "copied"
  /\ at' = [at EXCEPT ![c] = IF AppendsProgress(c) THEN "asked" ELSE "streaming"]
  /\ UNCHANGED <<jobVars, watch, rx, snap, fresh, seen, told, drops>>

\* ... and the progress, if any.
ReadProgress(c) ==
  /\ at[c] = "asked"
  /\ at' = [at EXCEPT ![c] = "streaming"]
  /\ snap' = [snap EXCEPT ![c].prog = latest[watch[c]]]
  /\ UNCHANGED <<jobVars, watch, rx, fresh, seen, told, drops>>

Replayed(c) == snap[c].hist \cup ({snap[c].prog} \ {0})
ReplayIsDue(c) == at[c] = "streaming" /\ seen[c] = {} /\ Replayed(c) # {}

\* Slip: the handler subscribes only now, after the snapshot.
ReplaySubscribing(c) ==
  /\ ReplayIsDue(c)
  /\ Show(c, Replayed(c), sent[watch[c]], FALSE, FALSE)
  /\ UNCHANGED <<jobVars, watch, drops>>

\* The replay comes first; the channel is read when it is through.
Replay(c) ==
  /\ ReplayIsDue(c)
  /\ Show(c, Replayed(c), rx[c], FALSE, FALSE)
  /\ UNCHANGED <<jobVars, watch, drops>>

\* The last TailLen events of the replay.
ReplayTail(c) ==
  LET prog == {snap[c].prog} \ {0}
      room == TailLen - Cardinality(prog)
  IN prog \cup {n \in snap[c].hist : Cardinality({m \in snap[c].hist : m > n}) < room}

Repeats(c, n) ==
  \E m \in ReplayTail(c) : pushed[watch[c]][m] = pushed[watch[c]][n]
                           /\ (pushed[watch[c]][n].kind = "progress" => m = n)

LiveIsDue(c) == at[c] = "streaming" /\ ~ReplayIsDue(c) /\ rx[c] < sent[watch[c]]
Lags(c) == sent[watch[c]] - rx[c] > Capacity

\* The next event of the channel, unless it repeats one of the replay's tail.
Deliver(c) ==
  /\ LiveIsDue(c)
  /\ ~Lags(c)
  /\ IF ~fresh[c] /\ Repeats(c, rx[c] + 1)
     THEN Show(c, {}, rx[c] + 1, FALSE, told[c])
     ELSE Show(c, {rx[c] + 1}, rx[c] + 1, TRUE, told[c])
  /\ UNCHANGED <<jobVars, watch, drops>>

\* The end of a job that is over, from its history.
TheEnd(j) ==
  IF status[j] = "running" THEN {} ELSE {n \in history[j] : pushed[j][n].kind \in Terminal}

\* Slip: after a gap the stream goes on with what is pushed from now on.
LagToTheEnd(c) ==
  /\ LiveIsDue(c)
  /\ Lags(c)
  /\ Show(c, {}, sent[watch[c]], fresh[c], TRUE)
  /\ UNCHANGED <<jobVars, watch, drops>>

\* Lagged: the receiver jumps to the oldest event the channel still has, the
\* gap is announced, and a job that is over is seen to end.
Lag(c) ==
  /\ LiveIsDue(c)
  /\ Lags(c)
  /\ Show(c, TheEnd(watch[c]), sent[watch[c]] - Capacity, fresh[c], TRUE)
  /\ UNCHANGED <<jobVars, watch, drops>>

\* The connection breaks.
Drop(c) ==
  /\ at[c] = "streaming"
  /\ drops[c] < MaxDrops
  /\ drops' = [drops EXCEPT ![c] = @ + 1]
  /\ Close(c, "lost")
  /\ UNCHANGED <<jobVars, watch>>

\* es.onerror asks for the job's status: a job the server has forgotten is over, any
\* other is subscribed to again.  A request that fails is not repeated: the page is
\* left without a stream.
OnError(c) ==
  /\ at[c] = "lost"
  /\ \/ at' = [at EXCEPT ![c] = IF watch[c] \in registry THEN "closed" ELSE "ended"]
     \/ at' = [at EXCEPT ![c] = "stranded"]
  /\ UNCHANGED <<jobVars, watch, rx, snap, fresh, seen, told, drops>>

\* Somebody reloads such a page: it follows the jobs the server lists.
Reload(c) ==
  /\ at[c] = "stranded"
  /\ at' = [at EXCEPT ![c] = "closed"]
  /\ watch' = [watch EXCEPT ![c] = IF @ \in registry THEN @ ELSE None]
  /\ UNCHANGED <<jobVars, rx, snap, fresh, seen, told, drops>>

Follow(c) ==
  \/ \E j \in Job : Subscribe(c, j)
  \/ CopyHistory(c) \/ AskStatus(c) \/ ReadProgress(c)
  \/ Replay(c) \/ Deliver(c) \/ Lag(c) \/ OnError(c)

-----------------------------------------------------------------------------

Next ==
  \/ \E j \in Job : Start(j) \/ Task(j) \/ Panic(j) \/ Cancel(j) \/ Cleanup(j)
  \/ \E c \in Client : Follow(c) \/ Drop(c) \/ Reload(c)

\* Tasks and streams are scheduled by the runtime, and an item takes bounded
\* time; nothing says that a job ever runs out of items, or that a page is reloaded.
Spec ==
  /\ Init /\ [][Next]_vars
  /\ \A j \in Job : WF_vars(Send(j)) /\ WF_vars(ItemDone(j)) /\ WF_vars(SetStatus(j))
                    /\ WF_vars(TakeItem(j) \/ Finish(j))
  /\ \A c \in Client : WF_vars(Follow(c))

-----------------------------------------------------------------------------
(* Properties.                                                              *)

\* At most MaxJobs tasks are at work, however starts, ends and panics interleave.
CapHolds == Cardinality({j \in Job : pc[j] \notin {"off", "over"}}) <= MaxJobs

\* A replay never shows a progress after the end of the job, although history,
\* status and progress are read one after the other while the task goes on.
ReplayNeverRestarts ==
  \A c \in Client : snap[c].prog # 0 => ~EndsInTerminal(watch[c], snap[c].hist)

\* A stream that is past a stored event has shown it, or one that reads exactly
\* alike, or has announced a gap: subscribing before the snapshot and storing
\* before sending leave no hole between replay and channel.
NothingUnannounced ==
  \A c \in Client : at[c] = "streaming" /\ ~ReplayIsDue(c) /\ ~told[c] =>
    \A n \in history[watch[c]] : n <= rx[c] =>
      \E m \in seen[c] : pushed[watch[c]][m] = pushed[watch[c]][n]

\* A client that follows a job learns of its end, whatever was dropped, lagged or
\* cleaned up in between, unless after a lost connection its one status request
\* fails as well: then the page has no stream, asks no more, and shows the job as
\* running until it is reloaded.
EndIsSeen ==
  \A c \in Client :
    (watch[c] # None /\ status[watch[c]] \in Terminal) ~> at[c] \in {"ended", "stranded"}

\* A cancelled job ends, unless its task has panicked.
CancelEnds ==
  \A j \in Job : cancelled[j] ~> status[j] \in Terminal \/ pc[j] = "dead"

\* What the handler's comment says of subscribing first
\* (crates/web/src/handlers/jobs.rs:228-229), "guarantees no event is lost in the
\* gap": every stored event the stream is past was itself shown, or a gap told.
NoEventLost ==
  \A c \in Client : at[c] = "streaming" /\ ~ReplayIsDue(c) /\ ~told[c] =>
    \A n \in history[watch[c]] : n <= rx[c] => n \in seen[c]
=============================================================================
