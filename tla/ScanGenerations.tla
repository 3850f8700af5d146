--------------------------- MODULE ScanGenerations ---------------------------
(***************************************************************************)
(* A scan walks its roots, stamps what it finds with its generation, and   *)
(* then deletes what it did not stamp, while other scans queue for the     *)
(* lease and a watcher writes entries of its own                           *)
(* (apps/indexa/src/commands/scan.rs, crates/web/src/jobs_exec/scan.rs,    *)
(* crates/core/src/store/entries.rs, crates/core/src/walker.rs).           *)
(*                                                                         *)
(* The generation 0 stands for NULL: it is below every allocated one, and  *)
(* so is treated alike by COALESCE(MAX(..), 0), by the upsert's condition  *)
(* and by the reconciliation.                                              *)
(***************************************************************************)
EXTENDS Naturals, Sequences

CONSTANTS
  Path,       \* the files that may be under some root
  Root,       \* directories a scan is asked for
  Under,      \* the files under a root; roots may overlap
  Scanner,    \* `indexa scan` processes and web scan jobs
  RootsOf,    \* the roots a scanner is given, in order
  Streaming,  \* scanners that upsert while they walk (`indexa scan`)
  MaxRuns,    \* bound: scans begun
  MaxEvents,  \* bound: changes of the file system
  MaxFaults,  \* bound: scans that are killed or fail
  None

ASSUME ScanAssumption ==
  /\ Path # {}
  /\ Under \in [Root -> SUBSET Path]
  /\ RootsOf \in [Scanner -> Seq(Root)]
  /\ \A s \in Scanner : RootsOf[s] # <<>>
  /\ Streaming \subseteq Scanner
  /\ MaxRuns \in Nat /\ MaxEvents \in Nat /\ MaxFaults \in Nat
  /\ None \notin Path \cup Scanner

VARIABLES
  disk,       \* the files that exist
  away,       \* the roots that are unmounted or unreadable
  entries,    \* the entries table
  gen,        \* entries.scan_generation; 0 is NULL, or no row
  lease,      \* who holds the scan lease
  scan,       \* each scanner: where it is and what it knows
  touched,    \* file events the watcher has not handled yet: <<kind, file>>
  handling,   \* the file the watcher has read and not yet stored
  by,         \* history: the run that stamped an entry
  unsure,     \* history: files that, since the walk of the current root began, came
              \* or went, were out of reach, or had their entry removed
  runs,       \* bound bookkeeping, and the number of the last run
  events,     \* bound bookkeeping
  faults      \* bound bookkeeping

tableVars == <<entries, gen, by>>
fileVars  == <<disk, away>>
watchVars == <<touched, handling>>
vars == <<fileVars, tableVars, lease, scan, watchVars, unsure, runs, events, faults>>

Step == {"off", "leased", "root", "walking", "checked"}
ChangeKind == {"upsert", "remove"}
Off == [step |-> "off", run |-> 0, gen |-> 0, at |-> 0,
        visited |-> {}, found |-> {}, seen |-> FALSE]

TypeOK ==
  /\ disk \subseteq Path /\ away \subseteq Root
  /\ entries \subseteq Path
  /\ gen \in [Path -> Nat]
  /\ lease \in Scanner \cup {None}
  /\ \A s \in Scanner : scan[s].step \in Step
  /\ \A s \in Scanner : scan[s].step \in {"root", "walking", "checked"} =>
       /\ scan[s].gen \in Nat \ {0}
       /\ scan[s].at \in 1..Len(RootsOf[s])
       /\ scan[s].found \subseteq scan[s].visited
  /\ touched \subseteq ChangeKind \X Path
  /\ handling \in Path \cup {None}

\* The index as some earlier scan left it; the watcher has just started.
Init ==
  /\ disk \in SUBSET Path
  /\ away = {}
  /\ entries \in SUBSET Path
  /\ gen = [p \in Path |-> IF p \in entries THEN 1 ELSE 0]
  /\ by = [p \in Path |-> 0]
  /\ lease = None
  /\ scan = [s \in Scanner |-> Off]
  /\ touched = {} /\ handling = None
  /\ unsure = {}
  /\ runs = 0 /\ events = 0 /\ faults = 0

-----------------------------------------------------------------------------
(* Statements on the entries table.                                         *)

\* upsert_entries_with_generation with a generation: never lowers a stamp.
Stamped(S, g) == {p \in S : g >= gen[p]}
StampEntries(S, g, run) ==
  /\ entries' = entries \cup S
  /\ gen' = [p \in Path |-> IF p \in Stamped(S, g) THEN g ELSE gen[p]]
  /\ by' = [p \in Path |-> IF p \in Stamped(S, g) THEN run ELSE by[p]]

\* Slip: the watcher's NULL is written over the generation of an existing row.
UpsertUnstampedLosingIt(p) ==
  /\ entries' = entries \cup {p}
  /\ gen' = [gen EXCEPT ![p] = 0]
  /\ UNCHANGED by

\* upsert_entries: COALESCE keeps the generation of an existing row.
UpsertUnstamped(p) == entries' = entries \cup {p} /\ UNCHANGED <<gen, by>>

DropEntries(S) ==
  /\ entries' = entries \ S
  /\ gen' = [p \in Path |-> IF p \in S THEN 0 ELSE gen[p]]
  /\ UNCHANGED by

-----------------------------------------------------------------------------
(* One scan.                                                                *)

Set(s, r) == scan' = [scan EXCEPT ![s] = r]
TheRoot(s) == RootsOf[s][scan[s].at]
OutOfReach == UNION {Under[r] : r \in away}
Gone(r) == \E q \in away : Under[r] \subseteq Under[q]
Keep == UNCHANGED <<fileVars, watchVars, events>>

Begin(s) ==
  /\ scan[s].step = "off"
  /\ runs < MaxRuns
  /\ runs' = runs + 1
  /\ lease' = s
  /\ Set(s, [Off EXCEPT !.step = "leased", !.run = runs + 1])
  /\ UNCHANGED <<tableVars, unsure, faults>> /\ Keep

\* Slip: no lease.
LeaseShared(s) == Begin(s)

\* scan_lease: BEGIN IMMEDIATE on the sidecar; while another holds it the scan
\* waits, and gives up after five seconds before it has done anything.
Lease(s) == lease = None /\ Begin(s)

\* next_scan_generation: one past the newest, once for all roots of the scan.
Allocate(s) ==
  /\ scan[s].step = "leased"
  /\ \E p \in Path :
       /\ \A q \in Path : gen[q] <= gen[p]
       /\ Set(s, [scan[s] EXCEPT !.step = "root", !.gen = gen[p] + 1, !.at = 1])
  /\ UNCHANGED <<tableVars, lease, unsure, runs, faults>> /\ Keep

\* A root that cannot be read ends the walk at once, without an error.
BeginWalk(s) ==
  /\ scan[s].step = "root"
  /\ Set(s, [scan[s] EXCEPT
       !.step = "walking", !.found = {}, !.seen = ~Gone(TheRoot(s)),
       !.visited = IF Gone(TheRoot(s)) THEN Under[TheRoot(s)] ELSE {}])
  /\ unsure' = IF Gone(TheRoot(s)) THEN {} ELSE OutOfReach
  /\ UNCHANGED <<tableVars, lease, runs, faults>> /\ Keep

\* The walker comes to where a file is, or would be; what it cannot read it skips.
Visit(s, p) ==
  /\ scan[s].step = "walking"
  /\ p \in Under[TheRoot(s)] \ scan[s].visited
  /\ Set(s, [scan[s] EXCEPT !.visited = @ \cup {p},
       !.found = IF p \in disk \ OutOfReach THEN @ \cup {p} ELSE @])
  /\ UNCHANGED <<tableVars, lease, unsure, runs, faults>> /\ Keep

\* `indexa scan` upserts batches as they come, a web scan everything at the end.
StampBatch(s, S) ==
  /\ S # {}
  /\ \/ s \in Streaming /\ scan[s].step = "walking"
     \/ s \notin Streaming /\ scan[s].step = "checked" /\ S = scan[s].found
  /\ StampEntries(S, scan[s].gen, scan[s].run)
  /\ Set(s, [scan[s] EXCEPT !.found = @ \ S])
  /\ UNCHANGED <<lease, unsure, runs, faults>> /\ Keep

\* The scan of a root is over: the next one, or the lease is dropped.
NextRoot(s) ==
  IF scan[s].at < Len(RootsOf[s])
  THEN Set(s, [scan[s] EXCEPT !.step = "root", !.at = @ + 1]) /\ UNCHANGED lease
  ELSE Set(s, Off) /\ lease' = None

Walked(s) ==
  /\ scan[s].step = "walking"
  /\ scan[s].visited = Under[TheRoot(s)]
  /\ s \in Streaming => scan[s].found = {}

\* ensure_walked_root_present: the root can be listed now and was seen by the walk.
RootPresent(s) == ~Gone(TheRoot(s)) /\ scan[s].seen

CheckRoot(s) ==
  /\ Walked(s)
  /\ RootPresent(s)
  /\ Set(s, [scan[s] EXCEPT !.step = "checked"])
  /\ UNCHANGED <<tableVars, lease, unsure, runs, faults>> /\ Keep

SkipRoot(s) ==
  /\ Walked(s)
  /\ ~RootPresent(s)
  /\ NextRoot(s)
  /\ UNCHANGED <<tableVars, unsure, runs, faults>> /\ Keep

\* Slip: NULL is not less than a generation.
GhostsStamped(s) ==
  {p \in Under[TheRoot(s)] \cap entries : gen[p] # 0 /\ gen[p] < scan[s].gen}

\* reconcile_by_generation.
Ghosts(s) == {p \in Under[TheRoot(s)] \cap entries : gen[p] < scan[s].gen}
Reconcile(s) ==
  /\ scan[s].step = "checked"
  /\ scan[s].found = {}
  /\ DropEntries(Ghosts(s))
  /\ NextRoot(s)
  /\ UNCHANGED <<unsure, runs, faults>> /\ Keep

\* The scan is killed, or a statement fails; SQLite releases the lease.
Abort(s) ==
  /\ scan[s].step # "off"
  /\ faults < MaxFaults
  /\ faults' = faults + 1
  /\ Set(s, Off)
  /\ lease' = None
  /\ UNCHANGED <<tableVars, unsure, runs>> /\ Keep

Scan(s) ==
  \/ Lease(s) \/ Allocate(s) \/ BeginWalk(s) \/ CheckRoot(s) \/ SkipRoot(s)
  \/ Reconcile(s) \/ Abort(s)
  \/ \E p \in Path : Visit(s, p)
  \/ \E S \in SUBSET scan[s].found : StampBatch(s, S)

-----------------------------------------------------------------------------
(* The file system.                                                         *)

FileEvent ==
  /\ events < MaxEvents
  /\ events' = events + 1
  /\ UNCHANGED <<tableVars, lease, scan, handling, runs, faults>>

Create(p) ==
  /\ p \notin disk
  /\ disk' = disk \cup {p}
  /\ touched' = touched \cup {<<"upsert", p>>}
  /\ unsure' = unsure \cup {p}
  /\ UNCHANGED away /\ FileEvent

Edit(p) ==
  /\ p \in disk
  /\ touched' = touched \cup {<<"upsert", p>>}
  /\ UNCHANGED <<disk, away, unsure>> /\ FileEvent

Delete(p) ==
  /\ p \in disk
  /\ disk' = disk \ {p}
  /\ touched' = touched \cup {<<"remove", p>>}
  /\ unsure' = unsure \cup {p}
  /\ UNCHANGED away /\ FileEvent

\* A drive is unmounted, or a directory becomes unreadable, and comes back.
Unmount(r) ==
  /\ r \notin away
  /\ away' = away \cup {r}
  /\ unsure' = unsure \cup Under[r]
  /\ UNCHANGED <<disk, touched>> /\ FileEvent

Mount(r) ==
  /\ r \in away
  /\ away' = away \ {r}
  /\ UNCHANGED <<disk, touched, unsure>> /\ FileEvent

Files ==
  \/ \E p \in Path : Create(p) \/ Edit(p) \/ Delete(p)
  \/ \E r \in Root : Unmount(r) \/ Mount(r)

-----------------------------------------------------------------------------
(* The watcher; `deep` and `rm` write entries in the same two ways.         *)

WatchKeep == UNCHANGED <<fileVars, lease, scan, runs, events, faults>>

\* Removals come first in a batch; the file is read, and dropped if it is gone.
WatchRead(p) ==
  /\ handling = None
  /\ <<"upsert", p>> \in touched
  /\ <<"remove", p>> \notin touched
  /\ touched' = touched \ {<<"upsert", p>>}
  /\ handling' = IF p \in disk \ OutOfReach THEN p ELSE None
  /\ UNCHANGED <<tableVars, unsure>> /\ WatchKeep

WatchStore ==
  /\ handling # None
  /\ UpsertUnstamped(handling)
  /\ handling' = None
  /\ UNCHANGED <<touched, unsure>> /\ WatchKeep

WatchRemove(p) ==
  /\ handling = None
  /\ <<"remove", p>> \in touched
  /\ touched' = touched \ {<<"remove", p>>}
  /\ DropEntries({p})
  /\ unsure' = unsure \cup {p}
  /\ UNCHANGED handling /\ WatchKeep

Watch == WatchStore \/ \E p \in Path : WatchRead(p) \/ WatchRemove(p)

Next == (\E s \in Scanner : Scan(s)) \/ Files \/ Watch

Spec == Init /\ [][Next]_vars

-----------------------------------------------------------------------------
(* Properties.                                                              *)

EarlierRoots(s) == UNION {Under[RootsOf[s][i]] : i \in 1..scan[s].at - 1}

\* One generation is one consistent snapshot: entries with the same generation
\* were stamped by the same run, whatever runs were killed half-way, and however
\* generations are used again once no entry has them (scan_lease,
\* next_scan_generation).
OneRunPerGeneration ==
  \A p, q \in entries : gen[p] = gen[q] /\ gen[p] # 0 => by[p] = by[q]

\* A scan deletes no entry of a file that has been there since the walk of its
\* root began: not when an earlier run was killed, not when the root was away
\* for the whole walk and is back, and not when the watcher writes the entry
\* after the scan has stamped it (COALESCE in upsert_entries,
\* ensure_walked_root_present).
ReconcileSparesSteadyFiles ==
  [][\A s \in Scanner : Reconcile(s) =>
       entries \cap (disk \ unsure) \subseteq entries']_vars

\* The entry of a file that has been gone all that time is deleted, whoever
\* stamped it last and however that run ended; unless the same scan stamped it
\* for an earlier, overlapping root (scan_roots: one generation for all roots).
ReconcileDropsGhosts ==
  [][\A s \in Scanner : Reconcile(s) =>
       entries' \cap (Under[TheRoot(s)] \ (disk \cup unsure \cup EarlierRoots(s)))
         = {}]_vars

\* A scan deletes only entries of files that are gone, or those an interrupted
\* scan left behind.
ReconcileSparesLiveFiles ==
  [][\A s \in Scanner : Reconcile(s) => entries \cap disk \subseteq entries']_vars
=============================================================================
