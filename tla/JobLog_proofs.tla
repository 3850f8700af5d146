--------------------------- MODULE JobLog_proofs ---------------------------
(***************************************************************************)
(* Proofs about JobLog, for every set of jobs, tabs and texts and every    *)
(* bound: the safety properties of the run `jobs`.                         *)
(*                                                                         *)
(* Of a job's task a stream has to know only that its log grows (Grows):   *)
(* what is stored or sent stays so, and what is stored later has a later   *)
(* number.  So the steps of tasks are looked at without the streams        *)
(* (LogInv, SlotInv), and a stream is looked at alone (View).              *)
(***************************************************************************)
EXTENDS JobLog, TLAPS, FiniteSetTheorems, WellFoundedInduction

-----------------------------------------------------------------------------
(* The invariant.                                                           *)

\* The channel is behind the log between store and send only; nothing is stored
\* under a number not yet given; a task that sets the status has pushed the end.
LogInv ==
  /\ status \in [Job -> Status]
  /\ pushed \in [Job -> Seq(Event)]
  /\ sent \in [Job -> Nat]
  /\ history \in [Job -> SUBSET Numbers]
  /\ latest \in [Job -> Numbers \cup {0}]
  /\ cancelled \in [Job -> BOOLEAN]
  /\ pc \in [Job -> Pc]
  /\ \A j \in Job :
       /\ Len(pushed[j]) <= MaxEvents
       /\ IF pc[j] = "storing" THEN sent[j] + 1 = Len(pushed[j]) ELSE sent[j] = Len(pushed[j])
       /\ \A n \in history[j] : n <= Len(pushed[j])
       /\ latest[j] <= Len(pushed[j])
       /\ pc[j] = "ending" => /\ Len(pushed[j]) > 0
                              /\ pushed[j][Len(pushed[j])].kind \in Terminal

AtWork == {j \in Job : pc[j] \notin {"off", "over"}}

\* A task at work has a slot.
SlotInv ==
  /\ registry \subseteq Job
  /\ IsFiniteSet(registry)
  /\ \A j \in AtWork : j \in registry /\ status[j] = "running"
  /\ Cardinality(AtWork) <= MaxJobs

ClientTypes ==
  /\ at \in [Client -> At]
  /\ watch \in [Client -> Job \cup {None}]
  /\ rx \in [Client -> 0..MaxEvents]
  /\ snap \in [Client -> Snapshot]
  /\ fresh \in [Client -> BOOLEAN]
  /\ seen \in [Client -> SUBSET Numbers]
  /\ told \in [Client -> BOOLEAN]
  /\ drops \in [Client -> 0..MaxDrops]

Open    == {"subscribed", "copied", "asked", "streaming"}
Snapped == {"copied", "asked", "streaming"}

Replays(s) == s.hist \cup ({s.prog} \ {0})

\* A stream of the log w, at a and past r, with the snapshot s, that has shown S
\* and has announced a gap if t.  Until then its snapshot and what it has shown
\* make up for every stored event it is past.
View(w, a, r, s, S, t) ==
  /\ a \in Open => w \in Job /\ r <= sent[w]
  /\ a \notin Snapped => s = NoSnap
  /\ a # "streaming" => S = {} /\ ~t
  /\ a \in {"copied", "asked"} => s.prog = 0
  /\ a \in Snapped =>
       /\ \A n \in Replays(s) \cup S : n <= Len(pushed[w])
       /\ ~t => \A n \in history[w] : n <= r =>
                  \E m \in Replays(s) \cup S : pushed[w][m] = pushed[w][n]
       /\ t => S # {} \/ Replays(s) = {}
       /\ S # {} => Replays(s) \subseteq S
       /\ a = "asked" \/ s.prog # 0 => ~EndsInTerminal(w, s.hist)

Viewed(c) == View(watch[c], at[c], rx[c], snap[c], seen[c], told[c])

ClientInv == ClientTypes /\ \A c \in Client : Viewed(c)

JobInv == LogInv /\ SlotInv /\ ClientInv

\* The log grows.
Grows ==
  \A j \in Job :
    /\ Len(pushed[j]) <= Len(pushed'[j])
    /\ sent[j] <= sent'[j]
    /\ \A n \in 1..Len(pushed[j]) : pushed'[j][n] = pushed[j][n]
    /\ \A n \in history'[j] : n \in history[j] \/ n > Len(pushed[j])

LEMMA InitJobInv == Init => JobInv
<1> SUFFICES ASSUME Init PROVE JobInv
  OBVIOUS
<1> USE JobAssumption DEF JobAssumption, Init
<1>1. LogInv
  BY DEF LogInv, Status, Pc, Numbers
<1>2. AtWork = {}
  BY DEF AtWork
<1>3. SlotInv
  BY <1>2, FS_EmptySet DEF SlotInv
<1>4. ClientTypes
  BY DEF ClientTypes, At, NoSnap, Snapshot
<1>5. \A c \in Client : Viewed(c)
  BY DEF Viewed, View, Open, Snapped
<1> QED
  BY <1>1, <1>3, <1>4, <1>5 DEF JobInv, ClientInv

\* A set of numbers of events that is not empty has a greatest one.
LEMMA MaxIsIn ==
  ASSUME NEW S \in SUBSET Nat, NEW n \in Nat, \A k \in S : k <= n, S # {}
  PROVE  Max(S) \in S
<1> DEFINE T == {k \in Nat : \A m \in S : m <= k}
<1>1. T # {} /\ T \subseteq Nat
  OBVIOUS
<1>2. PICK x \in T : \A y \in T : ~ (<<y, x>> \in OpToRel(<, Nat))
  BY <1>1, NatLessThanWellFounded, WFMin, Zenon
<1>3. \A y \in T : ~ (y < x)
  BY <1>1, <1>2 DEF OpToRel
<1>4. x \in S
  <2> SUFFICES ASSUME x \notin S PROVE FALSE
    OBVIOUS
  <2>1. PICK m \in S : TRUE
    OBVIOUS
  <2>2. m <= x /\ m # x /\ m \in Nat /\ x \in Nat
    BY <2>1
  <2>3. x - 1 \in T
    BY <2>2
  <2> QED
    BY <1>3, <2>2, <2>3
<1>5. \A y \in S : x >= y
  OBVIOUS
<1> QED
  BY <1>4, <1>5 DEF Max

-----------------------------------------------------------------------------
(* The steps of a task.                                                     *)

\* What Record does to the log of j, and to no other.
Recorded(j, e) ==
  /\ pushed' \in [Job -> Seq(Event)]
  /\ history' \in [Job -> SUBSET Numbers]
  /\ latest' \in [Job -> Numbers \cup {0}]
  /\ Len(pushed'[j]) = Len(pushed[j]) + 1
  /\ Len(pushed'[j]) <= MaxEvents
  /\ pushed'[j][Len(pushed'[j])] = e
  /\ \A n \in 1..Len(pushed[j]) : pushed'[j][n] = pushed[j][n]
  /\ \A n \in history'[j] : n \in history[j] \/ n = Len(pushed'[j])
  /\ latest'[j] \in {latest[j], Len(pushed'[j])}
  /\ \A i \in Job \ {j} : /\ pushed'[i] = pushed[i]
                          /\ history'[i] = history[i]
                          /\ latest'[i] = latest[i]

LEMMA RecordForm ==
  ASSUME LogInv, NEW j \in Job, NEW e \in Event, Record(j, e)
  PROVE  Recorded(j, e)
<1> DEFINE n == Len(pushed[j]) + 1
<1>0. /\ n <= MaxEvents
      /\ pushed' = [pushed EXCEPT ![j] = Append(pushed[j], e)]
      /\ \/ latest' = [latest EXCEPT ![j] = n] /\ history' = history
         \/ history' = [history EXCEPT ![j] = Store(j, n, e.kind)] /\ latest' = latest
  BY DEF Record
<1>1. pushed \in [Job -> Seq(Event)] /\ pushed[j] \in Seq(Event) /\ Len(pushed[j]) \in Nat
  BY DEF LogInv
<1>2. n \in Numbers
  BY <1>0, <1>1, JobAssumption DEF JobAssumption, Numbers
<1>3. /\ Append(pushed[j], e) \in Seq(Event)
      /\ Len(Append(pushed[j], e)) = n
      /\ Append(pushed[j], e)[n] = e
      /\ \A m \in 1..Len(pushed[j]) : Append(pushed[j], e)[m] = pushed[j][m]
  BY <1>1
<1>4. /\ pushed' \in [Job -> Seq(Event)]
      /\ pushed'[j] = Append(pushed[j], e)
      /\ \A i \in Job \ {j} : pushed'[i] = pushed[i]
  BY <1>0, <1>1, <1>3
<1>5. /\ Store(j, n, e.kind) \in SUBSET Numbers
      /\ \A m \in Store(j, n, e.kind) : m \in history[j] \/ m = n
  BY <1>2 DEF Store, LogInv
<1>6. /\ history' \in [Job -> SUBSET Numbers]
      /\ \A m \in history'[j] : m \in history[j] \/ m = n
      /\ \A i \in Job \ {j} : history'[i] = history[i]
  BY <1>0, <1>5 DEF LogInv
<1>7. /\ latest' \in [Job -> Numbers \cup {0}]
      /\ latest'[j] \in {latest[j], n}
      /\ \A i \in Job \ {j} : latest'[i] = latest[i]
  BY <1>0, <1>2 DEF LogInv
<1> QED
  BY <1>0, <1>3, <1>4, <1>6, <1>7 DEF Recorded

\* What a step of j's task may do to its log and to pc, and to no other's.
LogStep(j) ==
  /\ pushed' \in [Job -> Seq(Event)] /\ sent' \in [Job -> Nat]
  /\ history' \in [Job -> SUBSET Numbers] /\ latest' \in [Job -> Numbers \cup {0}]
  /\ status' \in [Job -> Status] /\ cancelled' \in [Job -> BOOLEAN] /\ pc' \in [Job -> Pc]
  /\ \A i \in Job \ {j} : /\ pushed'[i] = pushed[i] /\ sent'[i] = sent[i]
                          /\ history'[i] = history[i] /\ latest'[i] = latest[i]
                          /\ pc'[i] = pc[i]
  /\ Len(pushed[j]) <= Len(pushed'[j]) /\ Len(pushed'[j]) <= MaxEvents /\ sent[j] <= sent'[j]
  /\ IF pc'[j] = "storing" THEN sent'[j] + 1 = Len(pushed'[j]) ELSE sent'[j] = Len(pushed'[j])
  /\ \A n \in 1..Len(pushed[j]) : pushed'[j][n] = pushed[j][n]
  /\ \A n \in history'[j] : n \in history[j] \/ (n = Len(pushed'[j]) /\ n > Len(pushed[j]))
  /\ latest'[j] \in {latest[j], Len(pushed'[j])}
  /\ pc'[j] = "ending" => /\ Len(pushed'[j]) > 0
                          /\ pushed'[j][Len(pushed'[j])].kind \in Terminal

LEMMA LogStepKeepsLog ==
  ASSUME LogInv, NEW j \in Job, LogStep(j)
  PROVE  LogInv' /\ Grows
<1>0. /\ Len(pushed[j]) \in Nat /\ Len(pushed'[j]) \in Nat
      /\ history[j] \in SUBSET Numbers /\ latest[j] \in Numbers \cup {0}
      /\ \A n \in history[j] : n <= Len(pushed[j])
      /\ latest[j] <= Len(pushed[j])
  BY DEF LogInv
<1> USE DEF LogStep
<1>1. \A n \in history'[j] : n <= Len(pushed'[j])
  <2> TAKE n \in history'[j]
  <2>1. n \in Nat
    BY DEF Numbers
  <2> QED
    BY <1>0, <2>1
<1>2. latest'[j] <= Len(pushed'[j])
  BY <1>0 DEF Numbers
<1>3. ASSUME NEW i \in Job \ {j}
      PROVE  /\ Len(pushed'[i]) <= MaxEvents
             /\ IF pc'[i] = "storing" THEN sent'[i] + 1 = Len(pushed'[i])
                                      ELSE sent'[i] = Len(pushed'[i])
             /\ \A n \in history'[i] : n <= Len(pushed'[i])
             /\ latest'[i] <= Len(pushed'[i])
             /\ pc'[i] = "ending" => /\ Len(pushed'[i]) > 0
                                     /\ pushed'[i][Len(pushed'[i])].kind \in Terminal
  BY <1>3 DEF LogInv
<1>4. LogInv'
  BY <1>1, <1>2, <1>3 DEF LogInv
<1>5. ASSUME NEW i \in Job \ {j}
      PROVE  /\ Len(pushed[i]) <= Len(pushed'[i]) /\ sent[i] <= sent'[i]
             /\ \A n \in 1..Len(pushed[i]) : pushed'[i][n] = pushed[i][n]
             /\ \A n \in history'[i] : n \in history[i]
  <2>1. Len(pushed[i]) \in Nat /\ sent[i] \in Nat
    BY DEF LogInv
  <2> QED
    BY <2>1
<1>6. Grows
  BY <1>5 DEF Grows
<1> QED
  BY <1>4, <1>6

\* A push that is not yet sent.
LEMMA StoringKeepsLog ==
  ASSUME LogInv, NEW j \in Job, NEW e \in Event, Record(j, e),
         pc[j] \notin {"storing", "ending"},
         pc' = [pc EXCEPT ![j] = "storing"],
         status' \in [Job -> Status], UNCHANGED <<sent, cancelled>>
  PROVE  LogInv' /\ Grows
<1>1. Recorded(j, e)
  BY RecordForm
<1>2. /\ Len(pushed[j]) \in Nat /\ sent[j] = Len(pushed[j]) /\ sent \in [Job -> Nat]
      /\ cancelled \in [Job -> BOOLEAN]
  BY DEF LogInv
<1>3. pc' \in [Job -> Pc] /\ pc'[j] = "storing" /\ \A i \in Job \ {j} : pc'[i] = pc[i]
  BY DEF LogInv, Pc
<1>4. LogStep(j)
  BY <1>1, <1>2, <1>3 DEF Recorded, LogStep
<1> QED
  BY <1>4, LogStepKeepsLog

\* A step of j's task that leaves the log alone and goes to p.
LEMMA GoKeepsLog ==
  ASSUME LogInv, NEW j \in Job, NEW p \in Pc \ {"storing"},
         pc[j] # "storing" \/ sent'[j] = Len(pushed[j]),
         sent' = sent \/ sent' = [sent EXCEPT ![j] = Len(pushed[j])],
         p = "ending" => /\ Len(pushed[j]) > 0
                         /\ pushed[j][Len(pushed[j])].kind \in Terminal,
         pc' = [pc EXCEPT ![j] = p],
         status' \in [Job -> Status], UNCHANGED <<pushed, history, latest, cancelled>>
  PROVE  LogInv' /\ Grows
<1>1. /\ Len(pushed[j]) \in Nat /\ sent[j] \in Nat /\ sent[j] <= Len(pushed[j])
      /\ pc[j] # "storing" => sent[j] = Len(pushed[j])
      /\ Len(pushed[j]) <= MaxEvents
      /\ pushed' \in [Job -> Seq(Event)] /\ history' \in [Job -> SUBSET Numbers]
      /\ latest' \in [Job -> Numbers \cup {0}] /\ cancelled' \in [Job -> BOOLEAN]
  BY DEF LogInv
<1>2. pc' \in [Job -> Pc] /\ pc'[j] = p /\ \A i \in Job \ {j} : pc'[i] = pc[i]
  BY DEF LogInv
<1>3. /\ sent' \in [Job -> Nat] /\ sent'[j] = Len(pushed[j])
      /\ \A i \in Job \ {j} : sent'[i] = sent[i]
  BY <1>1 DEF LogInv
<1>4. LogStep(j)
  BY <1>1, <1>2, <1>3 DEF LogStep
<1> QED
  BY <1>4, LogStepKeepsLog

LEMMA JobStepKeepsLog ==
  ASSUME LogInv, SlotInv, NEW j \in Job,
         Start(j) \/ Task(j) \/ Panic(j) \/ Cancel(j) \/ Cleanup(j)
  PROVE  LogInv' /\ Grows
<1>0. /\ status \in [Job -> Status] /\ pushed \in [Job -> Seq(Event)] /\ sent \in [Job -> Nat]
      /\ Len(pushed[j]) \in Nat
  BY DEF LogInv
<1>1. CASE Start(j)
  <2>1. /\ status' \in [Job -> Status] /\ [kind |-> "start", text |-> 0] \in Event
        /\ UNCHANGED <<sent, cancelled>> /\ pc[j] = "off"
        /\ pc' = [pc EXCEPT ![j] = "storing"] /\ Record(j, [kind |-> "start", text |-> 0])
    BY <1>0, <1>1 DEF Start, Status, Event, Kind, Stored
  <2> QED
    BY <2>1, StoringKeepsLog
<1>2. CASE Send(j)
  <2> DEFINE p == IF pushed[j][Len(pushed[j])].kind \in Terminal THEN "ending"
                  ELSE IF Len(pushed[j]) = 1 THEN "head" ELSE "item"
  <2>1. /\ pc[j] = "storing" /\ sent' = [sent EXCEPT ![j] = Len(pushed[j])]
        /\ pc' = [pc EXCEPT ![j] = p] /\ UNCHANGED <<status, pushed, history, latest, cancelled>>
    BY <1>2 DEF Send
  <2>2. sent'[j] = Len(pushed[j]) /\ Len(pushed[j]) > 0
    BY <1>0, <2>1 DEF LogInv
  <2>3. p \in Pc \ {"storing"} /\ (p = "ending" => pushed[j][Len(pushed[j])].kind \in Terminal)
    BY DEF Pc
  <2> HIDE DEF p
  <2> QED
    BY <1>0, <2>1, <2>2, <2>3, GoKeepsLog
<1>3. CASE TakeItem(j) \/ ItemDone(j) \/ Panic(j)
  <2>1. PICK p \in {"item", "head", "dead"} : pc' = [pc EXCEPT ![j] = p]
    BY <1>3 DEF TakeItem, ItemDone, Panic
  <2>2. /\ pc[j] # "storing" /\ UNCHANGED <<status, pushed, sent, history, latest, cancelled>>
        /\ p \in Pc \ {"storing", "ending"}
    BY <1>3 DEF TakeItem, ItemDone, Panic, Pc
  <2> QED
    BY <1>0, <2>1, <2>2, GoKeepsLog
<1>4. CASE Report(j) \/ Finish(j)
  <2>1. PICK e \in Event : Record(j, e)
    BY <1>4 DEF Report, Finish, Event, Kind, Stored, Terminal
  <2>2. /\ pc[j] \in {"item", "head"} /\ pc' = [pc EXCEPT ![j] = "storing"]
        /\ UNCHANGED <<status, sent, cancelled>>
    BY <1>4 DEF Report, Finish
  <2> QED
    BY <1>0, <2>1, <2>2, StoringKeepsLog
<1>5. CASE Fragment(j)
  <2> DEFINE e == [kind |-> "fragment", text |-> 0]
  <2>1. /\ pc[j] = "item" /\ Len(pushed[j]) + 1 < MaxEvents
        /\ pushed' = [pushed EXCEPT ![j] = Append(pushed[j], e)]
        /\ sent' = [sent EXCEPT ![j] = Len(pushed[j]) + 1]
        /\ UNCHANGED <<status, history, latest, cancelled, pc>>
    BY <1>5 DEF Fragment
  <2>2. e \in Event
    BY DEF Event, Kind
  <2>3. /\ Append(pushed[j], e) \in Seq(Event)
        /\ Len(Append(pushed[j], e)) = Len(pushed[j]) + 1
        /\ \A m \in 1..Len(pushed[j]) : Append(pushed[j], e)[m] = pushed[j][m]
    BY <1>0, <2>2
  <2> HIDE DEF e
  <2>4. /\ pushed' \in [Job -> Seq(Event)] /\ pushed'[j] = Append(pushed[j], e)
        /\ \A i \in Job \ {j} : pushed'[i] = pushed[i]
    BY <1>0, <2>1, <2>3
  <2>5. /\ sent' \in [Job -> Nat] /\ sent'[j] = Len(pushed'[j])
        /\ \A i \in Job \ {j} : sent'[i] = sent[i]
    BY <1>0, <2>1, <2>3, <2>4
  <2>6. /\ history' \in [Job -> SUBSET Numbers] /\ latest' \in [Job -> Numbers \cup {0}]
        /\ status' \in [Job -> Status] /\ cancelled' \in [Job -> BOOLEAN] /\ pc' \in [Job -> Pc]
        /\ \A i \in Job \ {j} : history'[i] = history[i] /\ latest'[i] = latest[i] /\ pc'[i] = pc[i]
        /\ history'[j] = history[j] /\ latest'[j] = latest[j] /\ pc'[j] = "item"
    BY <2>1 DEF LogInv
  <2>7. sent[j] = Len(pushed[j])
    BY <2>1 DEF LogInv
  <2>8. /\ Len(pushed'[j]) = Len(pushed[j]) + 1 /\ Len(pushed'[j]) <= MaxEvents
        /\ sent[j] <= sent'[j] /\ Len(pushed[j]) <= Len(pushed'[j])
        /\ \A m \in 1..Len(pushed[j]) : pushed'[j][m] = pushed[j][m]
    BY <1>0, <2>1, <2>3, <2>4, <2>5, <2>7, JobAssumption DEF JobAssumption
  <2>9. LogStep(j)
    BY <2>4, <2>5, <2>6, <2>8 DEF LogStep
  <2> QED
    BY <2>9, LogStepKeepsLog
<1>6. CASE SetStatus(j)
  <2>1. /\ pc[j] = "ending" /\ pc' = [pc EXCEPT ![j] = "over"]
        /\ status' = [status EXCEPT ![j] = pushed[j][Len(pushed[j])].kind]
        /\ UNCHANGED <<pushed, sent, history, latest, cancelled>>
    BY <1>6 DEF SetStatus
  <2>2. pushed[j][Len(pushed[j])].kind \in Status
    BY <2>1 DEF LogInv, Status, Terminal
  <2>3. status' \in [Job -> Status]
    BY <1>0, <2>1, <2>2
  <2>4. "over" \in Pc \ {"storing"}
    BY DEF Pc
  <2> QED
    BY <1>0, <2>1, <2>3, <2>4, GoKeepsLog
<1>7. CASE Cancel(j) \/ Cleanup(j)
  <2>1. /\ UNCHANGED <<status, pushed, sent, history, latest, pc>>
        /\ cancelled' \in [Job -> BOOLEAN]
    BY <1>7 DEF Cancel, Cleanup, LogInv
  <2>2. LogInv'
    BY <2>1 DEF LogInv
  <2>3. Grows
    BY <1>0, <2>1 DEF Grows, LogInv
  <2> QED
    BY <2>2, <2>3
<1> QED
  BY <1>1, <1>2, <1>3, <1>4, <1>5, <1>6, <1>7 DEF Task

\* A step by which no task but those at work is at work, and none loses its slot.
LEMMA FewerAtWork ==
  ASSUME SlotInv, registry' \subseteq Job, IsFiniteSet(registry'), AtWork' \subseteq AtWork,
         \A j \in AtWork' : (j \in registry => j \in registry') /\ status'[j] = status[j]
  PROVE  SlotInv'
<1>1. AtWork \subseteq registry
  BY DEF SlotInv
<1>2. IsFiniteSet(AtWork) /\ Cardinality(AtWork) \in Nat
  BY <1>1, FS_Subset, FS_CardinalityType DEF SlotInv
<1>3. Cardinality(AtWork') <= Cardinality(AtWork) /\ Cardinality(AtWork') \in Nat
  BY <1>2, FS_Subset, FS_CardinalityType
<1>4. Cardinality(AtWork') <= MaxJobs
  BY <1>2, <1>3, JobAssumption DEF SlotInv, JobAssumption
<1> QED
  BY <1>4 DEF SlotInv

LEMMA StartKeepsSlots ==
  ASSUME LogInv, SlotInv, NEW j \in Job, Start(j)
  PROVE  SlotInv'
<1>1. /\ pc[j] = "off" /\ ~CapReached
      /\ registry' = registry \cup {j}
      /\ status' = [status EXCEPT ![j] = "running"]
      /\ pc' = [pc EXCEPT ![j] = "storing"]
      /\ status \in [Job -> Status] /\ pc \in [Job -> Pc]
  BY DEF Start, LogInv
<1>2. AtWork' = AtWork \cup {j}
  BY <1>1 DEF AtWork
<1>3. AtWork \subseteq Running(registry) /\ Running(registry) \subseteq registry
  BY DEF SlotInv, AtWork, Running
<1>4. IsFiniteSet(Running(registry)) /\ IsFiniteSet(AtWork)
  BY <1>3, FS_Subset DEF SlotInv
<1>5. /\ Cardinality(Running(registry)) \in Nat /\ Cardinality(AtWork) \in Nat
      /\ Cardinality(AtWork) <= Cardinality(Running(registry))
  BY <1>3, <1>4, FS_Subset, FS_CardinalityType
<1>6. Cardinality(Running(registry)) < MaxJobs
  BY <1>1, <1>5, JobAssumption DEF CapReached, JobAssumption
<1>7. Cardinality(AtWork \cup {j}) <= Cardinality(AtWork) + 1
  <2>1. Cardinality(AtWork \cup {j}) = IF j \in AtWork THEN Cardinality(AtWork)
                                       ELSE Cardinality(AtWork) + 1
    BY <1>4, FS_AddElement, Zenon
  <2> QED
    BY <1>5, <2>1
<1>8. Cardinality(AtWork \cup {j}) \in Nat
  <2>1. IsFiniteSet(AtWork \cup {j})
    BY <1>4, FS_AddElement, Zenon
  <2> QED
    BY <2>1, FS_CardinalityType, Zenon
<1>9. Cardinality(AtWork') <= MaxJobs
  BY <1>2, <1>5, <1>6, <1>7, <1>8, JobAssumption DEF JobAssumption
<1>10. registry' \subseteq Job /\ IsFiniteSet(registry')
  BY <1>1, FS_AddElement DEF SlotInv
<1>11. \A i \in AtWork' : i \in registry' /\ status'[i] = "running"
  BY <1>1, <1>2 DEF SlotInv, AtWork
<1> QED
  BY <1>9, <1>10, <1>11 DEF SlotInv

LEMMA JobStepKeepsSlots ==
  ASSUME LogInv, SlotInv, NEW j \in Job,
         Start(j) \/ Task(j) \/ Panic(j) \/ Cancel(j) \/ Cleanup(j)
  PROVE  SlotInv'
<1>0. status \in [Job -> Status] /\ pc \in [Job -> Pc]
  BY DEF LogInv
<1>1. CASE Start(j)
  BY <1>1, StartKeepsSlots
<1>2. CASE \/ Send(j) \/ TakeItem(j) \/ Report(j) \/ ItemDone(j) \/ Finish(j) \/ SetStatus(j)
           \/ Panic(j)
  <2>1. pc[j] \notin {"off", "over"} /\ UNCHANGED registry
    BY <1>2 DEF Send, TakeItem, Report, ItemDone, Finish, SetStatus, Panic
  <2>2. \A i \in Job \ {j} : pc'[i] = pc[i] /\ status'[i] = status[i]
    BY <1>0, <1>2 DEF Send, TakeItem, Report, ItemDone, Finish, SetStatus, Panic
  <2>3. status'[j] = status[j] \/ pc'[j] = "over"
    BY <1>0, <1>2 DEF Send, TakeItem, Report, ItemDone, Finish, SetStatus, Panic
  <2>4. AtWork' \subseteq AtWork /\ \A i \in AtWork' : status'[i] = status[i]
    BY <2>1, <2>2, <2>3 DEF AtWork
  <2> QED
    BY <2>1, <2>4, FewerAtWork DEF SlotInv
<1>3. CASE Fragment(j) \/ Cancel(j)
  <2>1. UNCHANGED <<registry, status, pc>>
    BY <1>3 DEF Fragment, Cancel
  <2> QED
    BY <2>1, FewerAtWork DEF SlotInv, AtWork
<1>4. CASE Cleanup(j)
  <2>1. pc[j] = "over" /\ registry' = registry \ {j} /\ UNCHANGED <<status, pc>>
    BY <1>4 DEF Cleanup
  <2>2. registry' \subseteq Job /\ IsFiniteSet(registry')
    BY <2>1, FS_RemoveElement DEF SlotInv
  <2>3. AtWork' = AtWork /\ \A i \in AtWork' : i \in registry => i \in registry'
    BY <2>1 DEF AtWork
  <2> QED
    BY <2>1, <2>2, <2>3, FewerAtWork
<1> QED
  BY <1>1, <1>2, <1>3, <1>4 DEF Task

-----------------------------------------------------------------------------
(* A stream beside the steps of the tasks.                                  *)

\* The end of a history stays its end while the log grows.
LEMMA EndStays ==
  ASSUME LogInv, Grows, NEW w \in Job, NEW S \in SUBSET Numbers,
         \A n \in S : n <= Len(pushed[w])
  PROVE  EndsInTerminal(w, S)' <=> EndsInTerminal(w, S)
<1>1. CASE S = {}
  BY <1>1 DEF EndsInTerminal
<1>2. CASE S # {}
  <2>1. Len(pushed[w]) \in Nat /\ S \subseteq Nat
    BY DEF LogInv, Numbers
  <2>2. Max(S) \in S
    BY <1>2, <2>1, MaxIsIn
  <2>3. Max(S) \in 1..Len(pushed[w])
    <3>1. \A n \in S : n \in 1..Len(pushed[w])
      BY <2>1, JobAssumption DEF Numbers, JobAssumption
    <3> QED
      BY <2>2, <3>1, Zenon
  <2>4. pushed'[w][Max(S)] = pushed[w][Max(S)]
    BY <2>3 DEF Grows
  <2> QED
    BY <2>4 DEF EndsInTerminal
<1> QED
  BY <1>1, <1>2

LEMMA ViewGrows ==
  ASSUME LogInv, Grows, LogInv',
         NEW w \in Job \cup {None}, NEW a \in At, NEW r \in 0..MaxEvents, NEW s \in Snapshot,
         NEW S \in SUBSET Numbers, NEW t \in BOOLEAN,
         View(w, a, r, s, S, t)
  PROVE  View(w, a, r, s, S, t)'
<1>1. CASE a \notin Open
  BY <1>1 DEF View, Open, Snapped
<1>2. CASE a \in Open
  <2>1. w \in Job /\ r <= sent[w]
    BY <1>2 DEF View
  <2>2. /\ Len(pushed[w]) \in Nat /\ Len(pushed'[w]) \in Nat /\ sent[w] \in Nat /\ sent'[w] \in Nat
        /\ sent[w] <= Len(pushed[w])
        /\ history'[w] \in SUBSET Numbers
    BY <2>1 DEF LogInv
  <2>3. /\ Len(pushed[w]) <= Len(pushed'[w]) /\ sent[w] <= sent'[w]
        /\ \A n \in 1..Len(pushed[w]) : pushed'[w][n] = pushed[w][n]
        /\ \A n \in history'[w] : n \in history[w] \/ n > Len(pushed[w])
    BY <2>1 DEF Grows
  <2>4. r \in Nat /\ r <= sent'[w] /\ r <= Len(pushed[w])
    BY <2>1, <2>2, <2>3, JobAssumption DEF JobAssumption
  <2>5. CASE a \notin Snapped
    BY <2>1, <2>4, <2>5 DEF View, Snapped, Open
  <2>6. CASE a \in Snapped
    <3> DEFINE R == Replays(s) \cup S
    <3>1. R \in SUBSET Numbers /\ s.hist \in SUBSET Numbers /\ s.hist \subseteq R
      BY DEF Replays, Snapshot
    <3>2. \A n \in R : n <= Len(pushed[w])
      BY <2>6 DEF View
    <3>3. \A n \in R : n \in 1..Len(pushed[w]) /\ n <= Len(pushed'[w])
      BY <2>2, <2>3, <3>1, <3>2 DEF Numbers
    <3>4. EndsInTerminal(w, s.hist)' <=> EndsInTerminal(w, s.hist)
      BY <2>1, <3>1, <3>2, EndStays
    <3>5. ASSUME ~t, NEW n \in history'[w], n <= r
          PROVE  \E m \in R : pushed'[w][m] = pushed'[w][n]
      <4>1. n \in Nat /\ n \in 1..Len(pushed[w]) /\ n \in history[w]
        BY <2>2, <2>3, <2>4, <3>5 DEF Numbers
      <4>2. PICK m \in R : pushed[w][m] = pushed[w][n]
        BY <2>6, <3>5, <4>1 DEF View
      <4> QED
        BY <2>3, <3>3, <4>1, <4>2
    <3> QED
      BY <2>1, <2>4, <2>6, <3>3, <3>4, <3>5 DEF View
  <2> QED
    BY <2>5, <2>6
<1> QED
  BY <1>1, <1>2

LEMMA JobStepKeepsClients ==
  ASSUME LogInv, LogInv', Grows, ClientInv, UNCHANGED clientVars
  PROVE  ClientInv'
<1>1. ClientTypes'
  BY DEF ClientInv, ClientTypes, clientVars
<1>2. ASSUME NEW c \in Client PROVE Viewed(c)'
  <2>1. /\ watch[c] \in Job \cup {None} /\ at[c] \in At /\ rx[c] \in 0..MaxEvents
        /\ snap[c] \in Snapshot /\ seen[c] \in SUBSET Numbers /\ told[c] \in BOOLEAN
    BY DEF ClientInv, ClientTypes
  <2>2. /\ watch'[c] = watch[c] /\ at'[c] = at[c] /\ rx'[c] = rx[c]
        /\ snap'[c] = snap[c] /\ seen'[c] = seen[c] /\ told'[c] = told[c]
    BY DEF clientVars
  <2>3. PICK w \in Job \cup {None}, a \in At, r \in 0..MaxEvents, s \in Snapshot,
             S \in SUBSET Numbers, t \in BOOLEAN :
          /\ w = watch[c] /\ a = at[c] /\ r = rx[c] /\ s = snap[c] /\ S = seen[c] /\ t = told[c]
    BY <2>1
  <2>4. View(w, a, r, s, S, t)
    BY <2>3 DEF ClientInv, Viewed
  <2>5. View(w, a, r, s, S, t)'
    BY <2>4, ViewGrows
  <2>6. /\ w = watch'[c] /\ a = at'[c] /\ r = rx'[c] /\ s = snap'[c] /\ S = seen'[c]
        /\ t = told'[c]
    BY <2>2, <2>3
  <2> QED
    BY <2>5, <2>6 DEF Viewed, View
<1> QED
  BY <1>1, <1>2 DEF ClientInv

-----------------------------------------------------------------------------
(* The steps of a stream.                                                   *)

\* A step of c's stream leaves the jobs and the other streams alone.
Apart(c) ==
  /\ UNCHANGED jobVars
  /\ ClientTypes'
  /\ \A d \in Client \ {c} :
       /\ at'[d] = at[d] /\ watch'[d] = watch[d] /\ rx'[d] = rx[d]
       /\ snap'[d] = snap[d] /\ seen'[d] = seen[d] /\ told'[d] = told[d]

LEMMA ApartKeepsClients ==
  ASSUME ClientInv, NEW c \in Client, Apart(c), Viewed(c)'
  PROVE  ClientInv'
<1>1. ASSUME NEW d \in Client \ {c} PROVE Viewed(d)'
  <2>1. Viewed(d)
    BY DEF ClientInv
  <2>2. /\ at'[d] = at[d] /\ watch'[d] = watch[d] /\ rx'[d] = rx[d]
        /\ snap'[d] = snap[d] /\ seen'[d] = seen[d] /\ told'[d] = told[d]
        /\ pushed' = pushed /\ sent' = sent /\ history' = history
    BY DEF Apart, jobVars
  <2> QED
    BY <2>1, <2>2 DEF Viewed, View, EndsInTerminal
<1> QED
  BY <1>1 DEF ClientInv, Apart

LEMMA CloseKeepsClients ==
  ASSUME ClientInv, UNCHANGED jobVars, UNCHANGED watch, drops' \in [Client -> 0..MaxDrops],
         NEW c \in Client, NEW where \in {"lost", "ended"}, Close(c, where)
  PROVE  ClientInv'
<1>1. ClientTypes'
  BY JobAssumption DEF JobAssumption, Close, ClientInv, ClientTypes, At, NoSnap, Snapshot
<1>2. Apart(c)
  BY <1>1 DEF Apart, Close, ClientInv, ClientTypes
<1>3. at'[c] = where /\ snap'[c] = NoSnap /\ seen'[c] = {} /\ told'[c] = FALSE
  BY DEF Close, ClientInv, ClientTypes
<1>4. Viewed(c)'
  BY <1>3 DEF Viewed, View, Open, Snapped
<1> QED
  BY <1>2, <1>4, ApartKeepsClients

\* Of Show there is left to see what the stream has after it, if it goes on.
LEMMA ShowKeepsClients ==
  ASSUME ClientInv, UNCHANGED jobVars, UNCHANGED <<watch, drops>>,
         NEW c \in Client, at[c] = "streaming",
         NEW S \in SUBSET Numbers, NEW n \in 0..MaxEvents, NEW f \in BOOLEAN, NEW t \in BOOLEAN,
         Show(c, S, n, f, t),
         View(watch[c], "streaming", n, snap[c], seen[c] \cup S, t)
  PROVE  ClientInv'
<1>1. CASE Close(c, "ended")
  BY <1>1, CloseKeepsClients DEF ClientInv, ClientTypes
<1>2. CASE ~Close(c, "ended")
  <2>1. /\ seen' = [seen EXCEPT ![c] = @ \cup S] /\ rx' = [rx EXCEPT ![c] = n]
        /\ fresh' = [fresh EXCEPT ![c] = f] /\ told' = [told EXCEPT ![c] = t]
        /\ UNCHANGED <<at, snap>>
    BY <1>2 DEF Show
  <2>2. ClientTypes'
    BY <2>1 DEF ClientInv, ClientTypes
  <2>3. Apart(c)
    BY <2>1, <2>2 DEF Apart, ClientInv, ClientTypes
  <2>4. /\ seen'[c] = seen[c] \cup S /\ rx'[c] = n /\ told'[c] = t
        /\ at'[c] = "streaming" /\ snap'[c] = snap[c] /\ watch'[c] = watch[c]
    BY <2>1 DEF ClientInv, ClientTypes
  <2>5. pushed' = pushed /\ sent' = sent /\ history' = history
    BY DEF jobVars
  <2>6. Viewed(c)'
    BY <2>4, <2>5 DEF Viewed, View, EndsInTerminal
  <2> QED
    BY <2>3, <2>6, ApartKeepsClients
<1> QED
  BY <1>1, <1>2

LEMMA OpeningKeepsClients ==
  ASSUME LogInv, SlotInv, ClientInv, NEW c \in Client,
         (\E j \in Job : Subscribe(c, j)) \/ CopyHistory(c) \/ AskStatus(c) \/ ReadProgress(c)
         \/ OnError(c) \/ Reload(c)
  PROVE  ClientInv'
<1>0. /\ Viewed(c) /\ ClientTypes
      /\ at[c] \in At /\ rx[c] \in 0..MaxEvents /\ watch[c] \in Job \cup {None}
      /\ snap[c] \in Snapshot /\ seen[c] \in SUBSET Numbers /\ told[c] \in BOOLEAN
  BY DEF ClientInv, ClientTypes
<1>1. ASSUME NEW j \in Job, Subscribe(c, j) PROVE ClientInv'
  <2>1. sent[j] \in 0..MaxEvents
    <3>1. sent[j] \in Nat /\ Len(pushed[j]) \in Nat /\ sent[j] <= Len(pushed[j])
          /\ Len(pushed[j]) <= MaxEvents
      BY DEF LogInv
    <3> QED
      BY <3>1, JobAssumption DEF JobAssumption
  <2>2. /\ at[c] = "closed" /\ watch' = [watch EXCEPT ![c] = j]
        /\ \/ at' = [at EXCEPT ![c] = "subscribed"] /\ rx' = [rx EXCEPT ![c] = sent[j]]
           \/ at' = [at EXCEPT ![c] = "lost"] /\ rx' = rx
        /\ UNCHANGED <<jobVars, snap, fresh, seen, told, drops>>
    BY <1>1 DEF Subscribe
  <2>3. ClientTypes'
    BY <1>0, <2>1, <2>2 DEF ClientTypes, At
  <2>4. Apart(c)
    BY <1>0, <2>2, <2>3 DEF Apart, ClientTypes
  <2>5. /\ watch'[c] = j /\ snap'[c] = NoSnap /\ seen'[c] = {} /\ ~told'[c]
        /\ (at'[c] = "subscribed" /\ rx'[c] = sent'[j]) \/ at'[c] = "lost"
    BY <1>0, <2>2 DEF ClientTypes, Viewed, View, Snapped, jobVars
  <2>6. sent'[j] \in Nat
    BY <2>1, <2>2 DEF jobVars
  <2>7. Viewed(c)'
    BY <2>5, <2>6 DEF Viewed, View, Open, Snapped
  <2> QED
    BY <2>4, <2>7, ApartKeepsClients
<1>2. CASE CopyHistory(c)
  <2> DEFINE s == [hist |-> history[watch[c]], prog |-> 0]
  <2>1. /\ at[c] = "subscribed" /\ at' = [at EXCEPT ![c] = "copied"]
        /\ snap' = [snap EXCEPT ![c] = s]
        /\ UNCHANGED <<jobVars, watch, rx, fresh, seen, told, drops>>
    BY <1>2 DEF CopyHistory
  <2>2. watch[c] \in Job /\ rx[c] <= sent[watch[c]] /\ seen[c] = {} /\ ~told[c]
    BY <1>0, <2>1 DEF Viewed, View, Open
  <2>3. s \in Snapshot /\ s.prog = 0 /\ Replays(s) = history[watch[c]]
        /\ \A n \in history[watch[c]] : n <= Len(pushed[watch[c]])
    BY <2>2 DEF LogInv, Snapshot, Replays
  <2> HIDE DEF s
  <2>4. ClientTypes'
    BY <1>0, <2>1, <2>3 DEF ClientTypes, At
  <2>5. Apart(c)
    BY <1>0, <2>1, <2>4 DEF Apart, ClientTypes
  <2>6. /\ watch'[c] = watch[c] /\ snap'[c] = s /\ seen'[c] = {} /\ ~told'[c]
        /\ at'[c] = "copied" /\ rx'[c] = rx[c]
        /\ pushed' = pushed /\ sent' = sent /\ history' = history
    BY <1>0, <2>1, <2>2 DEF ClientTypes, jobVars
  <2>7. Viewed(c)'
    BY <2>2, <2>3, <2>6 DEF Viewed, View, Open, Snapped
  <2> QED
    BY <2>5, <2>7, ApartKeepsClients
<1>3. CASE AskStatus(c)
  <2>1. /\ at[c] = "copied"
        /\ \/ at' = [at EXCEPT ![c] = "asked"] /\ ~EndsInTerminal(watch[c], snap[c].hist)
           \/ at' = [at EXCEPT ![c] = "streaming"]
        /\ UNCHANGED <<jobVars, watch, rx, snap, fresh, seen, told, drops>>
    BY <1>3 DEF AskStatus, AppendsProgress
  <2>2. ClientTypes'
    BY <1>0, <2>1 DEF ClientTypes, At
  <2>3. Apart(c)
    BY <1>0, <2>1, <2>2 DEF Apart, ClientTypes
  <2>4. /\ watch'[c] = watch[c] /\ snap'[c] = snap[c] /\ seen'[c] = seen[c] /\ told'[c] = told[c]
        /\ rx'[c] = rx[c] /\ pushed' = pushed /\ sent' = sent /\ history' = history
        /\ \/ at'[c] = "asked" /\ ~EndsInTerminal(watch[c], snap[c].hist)
           \/ at'[c] = "streaming"
    BY <1>0, <2>1 DEF ClientTypes, jobVars
  <2>5. Viewed(c)'
    BY <1>0, <2>1, <2>4 DEF Viewed, View, Open, Snapped, EndsInTerminal
  <2> QED
    BY <2>3, <2>5, ApartKeepsClients
<1>4. CASE ReadProgress(c)
  <2> DEFINE s == [snap[c] EXCEPT !.prog = latest[watch[c]]]
  <2>1. /\ at[c] = "asked" /\ at' = [at EXCEPT ![c] = "streaming"]
        /\ snap' = [snap EXCEPT ![c] = s]
        /\ UNCHANGED <<jobVars, watch, rx, fresh, seen, told, drops>>
    BY <1>4 DEF ReadProgress
  <2>2. /\ watch[c] \in Job /\ rx[c] <= sent[watch[c]] /\ seen[c] = {} /\ ~told[c]
        /\ snap[c].prog = 0 /\ ~EndsInTerminal(watch[c], snap[c].hist)
    BY <1>0, <2>1 DEF Viewed, View, Open, Snapped
  <2>3. latest[watch[c]] \in Numbers \cup {0} /\ latest[watch[c]] <= Len(pushed[watch[c]])
    BY <2>2 DEF LogInv
  <2>4. s \in Snapshot /\ s.hist = snap[c].hist /\ s.prog = latest[watch[c]]
    BY <1>0, <2>3 DEF Snapshot
  <2> HIDE DEF s
  <2>5. /\ Replays(snap[c]) \subseteq Replays(s)
        /\ \A n \in Replays(s) : n \in Replays(snap[c]) \/ n = latest[watch[c]]
    BY <2>2, <2>4 DEF Replays
  <2>6. ClientTypes'
    BY <1>0, <2>1, <2>4 DEF ClientTypes, At
  <2>7. Apart(c)
    BY <1>0, <2>1, <2>6 DEF Apart, ClientTypes
  <2>8. /\ watch'[c] = watch[c] /\ snap'[c] = s /\ seen'[c] = {} /\ ~told'[c]
        /\ at'[c] = "streaming" /\ rx'[c] = rx[c]
        /\ pushed' = pushed /\ sent' = sent /\ history' = history
    BY <1>0, <2>1, <2>2 DEF ClientTypes, jobVars
  <2>9. /\ \A n \in Replays(s) : n <= Len(pushed[watch[c]])
        /\ \A n \in history[watch[c]] : n <= rx[c] =>
             \E m \in Replays(s) : pushed[watch[c]][m] = pushed[watch[c]][n]
    BY <1>0, <2>1, <2>2, <2>3, <2>5 DEF Viewed, View, Snapped
  <2>10. Viewed(c)'
    BY <2>2, <2>4, <2>8, <2>9 DEF Viewed, View, Open, Snapped, EndsInTerminal
  <2> QED
    BY <2>7, <2>10, ApartKeepsClients
<1>5. CASE OnError(c)
  <2>1. /\ at[c] = "lost"
        /\ \/ at' = [at EXCEPT ![c] = "closed"] \/ at' = [at EXCEPT ![c] = "ended"]
           \/ at' = [at EXCEPT ![c] = "stranded"]
        /\ UNCHANGED <<jobVars, watch, rx, snap, fresh, seen, told, drops>>
    BY <1>5 DEF OnError
  <2>2. ClientTypes'
    BY <1>0, <2>1 DEF ClientTypes, At
  <2>3. Apart(c)
    BY <1>0, <2>1, <2>2 DEF Apart, ClientTypes
  <2>4. /\ at'[c] \in {"closed", "ended", "stranded"} /\ snap'[c] = NoSnap /\ seen'[c] = {} /\ ~told'[c]
    BY <1>0, <2>1 DEF ClientTypes, Viewed, View, Snapped
  <2>5. Viewed(c)'
    BY <2>4 DEF Viewed, View, Open, Snapped
  <2> QED
    BY <2>3, <2>5, ApartKeepsClients
<1>6. CASE Reload(c)
  <2>1. /\ at[c] = "stranded" /\ at' = [at EXCEPT ![c] = "closed"]
        /\ watch' = [watch EXCEPT ![c] = IF @ \in registry THEN @ ELSE None]
        /\ UNCHANGED <<jobVars, rx, snap, fresh, seen, told, drops>>
    BY <1>6 DEF Reload
  <2>2. ClientTypes'
    BY <1>0, <2>1 DEF ClientTypes, At
  <2>3. Apart(c)
    BY <1>0, <2>1, <2>2 DEF Apart, ClientTypes
  <2>4. /\ at'[c] = "closed" /\ snap'[c] = NoSnap /\ seen'[c] = {} /\ ~told'[c]
    BY <1>0, <2>1 DEF ClientTypes, Viewed, View, Snapped
  <2>5. Viewed(c)'
    BY <2>4 DEF Viewed, View, Open, Snapped
  <2> QED
    BY <2>3, <2>5, ApartKeepsClients
<1> QED
  BY <1>1, <1>2, <1>3, <1>4, <1>5, <1>6

\* What c's stream goes on with: past r, with S shown too and a gap announced if t.
GoesOn(c, r, S, t) ==
  LET w == watch[c]
      all == seen[c] \cup S
      R == Replays(snap[c])
  IN /\ r <= sent[w]
     /\ \A n \in S : n <= Len(pushed[w])
     /\ ~t => \A n \in history[w] : n <= r =>
                \E m \in R \cup all : pushed[w][m] = pushed[w][n]
     /\ t => all # {} \/ R = {}
     /\ all # {} => R \subseteq all

LEMMA GoingOn ==
  ASSUME NEW c \in Client, at[c] = "streaming", watch[c] \in Job, Viewed(c),
         NEW r, NEW S, NEW t \in BOOLEAN, GoesOn(c, r, S, t)
  PROVE  View(watch[c], "streaming", r, snap[c], seen[c] \cup S, t)
BY DEF GoesOn, Viewed, View, Open, Snapped

LEMMA StreamKeepsClients ==
  ASSUME LogInv, ClientInv, NEW c \in Client, Replay(c) \/ Deliver(c) \/ Lag(c) \/ Drop(c)
  PROVE  ClientInv'
<1> DEFINE w == watch[c]
           R == Replays(snap[c])
<1>0. /\ Viewed(c) /\ ClientTypes /\ at[c] = "streaming"
      /\ rx[c] \in 0..MaxEvents /\ w \in Job
      /\ snap[c] \in Snapshot /\ seen[c] \in SUBSET Numbers
      /\ told[c] \in BOOLEAN /\ fresh[c] \in BOOLEAN
      /\ Replayed(c) = R /\ R \in SUBSET Numbers
  <2>1. at[c] = "streaming"
    BY DEF Replay, Deliver, Lag, Drop, ReplayIsDue, LiveIsDue
  <2>2. Viewed(c) /\ ClientTypes /\ w \in Job
    BY <2>1 DEF ClientInv, Viewed, View, Open
  <2>3. snap[c] \in Snapshot
    BY <2>2 DEF ClientTypes
  <2>4. Replayed(c) = R /\ R \in SUBSET Numbers
    BY <2>3 DEF Replayed, Replays, Snapshot
  <2> QED
    BY <2>1, <2>2, <2>3, <2>4 DEF ClientTypes
<1>1. /\ rx[c] <= sent[w]
      /\ \A n \in R \cup seen[c] : n <= Len(pushed[w])
      /\ ~told[c] => \A n \in history[w] : n <= rx[c] =>
                       \E m \in R \cup seen[c] : pushed[w][m] = pushed[w][n]
      /\ told[c] => seen[c] # {} \/ R = {}
      /\ seen[c] # {} => R \subseteq seen[c]
      /\ snap[c].prog # 0 => ~EndsInTerminal(w, snap[c].hist)
  BY <1>0 DEF Viewed, View, Open, Snapped
<1>2. /\ sent[w] \in Nat /\ Len(pushed[w]) \in Nat /\ sent[w] <= Len(pushed[w])
      /\ Len(pushed[w]) <= MaxEvents /\ rx[c] \in Nat /\ MaxEvents \in Nat /\ Capacity \in Nat
      /\ history[w] \in SUBSET Numbers
      /\ \A n \in history[w] : n \in Nat /\ n <= Len(pushed[w])
  BY <1>0, JobAssumption DEF JobAssumption, LogInv, Numbers
<1> HIDE DEF R
<1>4. CASE Replay(c)
  <2>1. /\ Show(c, R, rx[c], FALSE, FALSE) /\ seen[c] = {} /\ R # {}
        /\ UNCHANGED jobVars /\ UNCHANGED <<watch, drops>>
    BY <1>0, <1>4 DEF Replay, ReplayIsDue
  <2>2. ~told[c]
    BY <1>1, <2>1
  <2>3. GoesOn(c, rx[c], R, FALSE)
    BY <1>0, <1>1, <2>1, <2>2 DEF GoesOn, R
  <2> QED
    BY <1>0, <2>1, <2>3, GoingOn, ShowKeepsClients
<1>5. CASE Deliver(c)
  <2> DEFINE k == rx[c] + 1
  <2>1. /\ rx[c] < sent[w] /\ ~(seen[c] = {} /\ R # {})
        /\ \/ Repeats(c, k) /\ Show(c, {}, k, FALSE, told[c])
           \/ Show(c, {k}, k, TRUE, told[c])
        /\ UNCHANGED jobVars /\ UNCHANGED <<watch, drops>>
    BY <1>0, <1>5 DEF Deliver, LiveIsDue, ReplayIsDue
  <2>2. /\ k \in 0..MaxEvents /\ k \in Numbers /\ k <= sent[w] /\ k <= Len(pushed[w])
        /\ \A n \in history[w] : n <= k => n <= rx[c] \/ n = k
    BY <1>2, <2>1 DEF Numbers
  <2> HIDE DEF k
  <2>3. CASE Repeats(c, k) /\ Show(c, {}, k, FALSE, told[c])
    <3>1. PICK m \in R : pushed[w][m] = pushed[w][k]
      BY <1>0, <2>3 DEF Repeats, ReplayTail, Replayed
    <3>2. ~told[c] => \A n \in history[w] : n <= k =>
            \E i \in R \cup (seen[c] \cup {}) : pushed[w][i] = pushed[w][n]
      BY <1>1, <2>2, <3>1
    <3>3. GoesOn(c, k, {}, told[c])
      BY <1>1, <2>1, <2>2, <3>2 DEF GoesOn, R
    <3> QED
      BY <1>0, <2>1, <2>2, <2>3, <3>3, GoingOn, ShowKeepsClients
  <2>4. CASE Show(c, {k}, k, TRUE, told[c])
    <3>2. ~told[c] => \A n \in history[w] : n <= k =>
            \E i \in R \cup (seen[c] \cup {k}) : pushed[w][i] = pushed[w][n]
      BY <1>1, <2>2
    <3>3. GoesOn(c, k, {k}, told[c])
      BY <1>1, <2>1, <2>2, <3>2 DEF GoesOn, R
    <3> QED
      BY <1>0, <2>1, <2>2, <2>4, <3>3, GoingOn, ShowKeepsClients
  <2> QED
    BY <2>1, <2>3, <2>4
<1>6. CASE Lag(c)
  <2> DEFINE E == TheEnd(w)
             k == sent[w] - Capacity
  <2>1. /\ sent[w] - rx[c] > Capacity /\ ~(seen[c] = {} /\ R # {})
        /\ Show(c, E, k, fresh[c], TRUE)
        /\ UNCHANGED jobVars /\ UNCHANGED <<watch, drops>>
    BY <1>0, <1>6 DEF Lag, Lags, LiveIsDue, ReplayIsDue
  <2>2. k \in 0..MaxEvents /\ k <= sent[w]
    BY <1>2, <2>1
  <2>3. E \in SUBSET Numbers /\ \A n \in E : n <= Len(pushed[w])
    BY <1>2 DEF TheEnd
  <2> HIDE DEF E, k
  <2>4. GoesOn(c, k, E, TRUE)
    BY <1>1, <2>1, <2>2, <2>3 DEF GoesOn, R
  <2> QED
    BY <1>0, <2>1, <2>2, <2>3, <2>4, GoingOn, ShowKeepsClients
<1>7. CASE Drop(c)
  <2>1. /\ Close(c, "lost") /\ UNCHANGED jobVars /\ UNCHANGED watch
        /\ drops[c] < MaxDrops /\ drops' = [drops EXCEPT ![c] = @ + 1]
    BY <1>7 DEF Drop
  <2>2. drops' \in [Client -> 0..MaxDrops]
    BY <1>0, <2>1, JobAssumption DEF ClientTypes, JobAssumption
  <2> QED
    BY <2>1, <2>2, CloseKeepsClients
<1> QED
  BY <1>4, <1>5, <1>6, <1>7

-----------------------------------------------------------------------------
(* The theorems.                                                            *)

LEMMA StepKeepsJobInv == JobInv /\ [Next]_vars => JobInv'
<1> SUFFICES ASSUME JobInv, [Next]_vars PROVE JobInv'
  OBVIOUS
<1>0. LogInv /\ SlotInv /\ ClientInv
  BY DEF JobInv
<1>1. CASE \E j \in Job : Start(j) \/ Task(j) \/ Panic(j) \/ Cancel(j) \/ Cleanup(j)
  <2>1. LogInv' /\ Grows /\ SlotInv'
    BY <1>0, <1>1, JobStepKeepsLog, JobStepKeepsSlots
  <2>2. UNCHANGED clientVars
    BY <1>1 DEF Start, Task, Panic, Cancel, Cleanup, Send, TakeItem, Report, Fragment,
                ItemDone, Finish, SetStatus
  <2> QED
    BY <1>0, <2>1, <2>2, JobStepKeepsClients DEF JobInv
<1>2. ASSUME NEW c \in Client, Follow(c) \/ Drop(c) \/ Reload(c) PROVE JobInv'
  <2>1. UNCHANGED jobVars
    BY <1>2 DEF Follow, Drop, Subscribe, CopyHistory, AskStatus, ReadProgress, Replay, Deliver,
                Lag, OnError, Reload
  <2>2. LogInv' /\ SlotInv'
    BY <1>0, <2>1 DEF jobVars, LogInv, SlotInv, AtWork
  <2>3. ClientInv'
    BY <1>0, <1>2, OpeningKeepsClients, StreamKeepsClients DEF Follow
  <2> QED
    BY <2>2, <2>3 DEF JobInv
<1>3. CASE UNCHANGED vars
  <2>1. UNCHANGED jobVars /\ UNCHANGED clientVars
    BY <1>3 DEF vars, jobVars, clientVars
  <2>2. LogInv' /\ SlotInv'
    BY <1>0, <2>1 DEF jobVars, LogInv, SlotInv, AtWork
  <2>3. Grows
    BY <1>0, <2>1 DEF jobVars, Grows, LogInv
  <2> QED
    BY <1>0, <2>1, <2>2, <2>3, JobStepKeepsClients DEF JobInv
<1> QED
  BY <1>1, <1>2, <1>3 DEF Next

LEMMA JobInvHolds == Spec => []JobInv
<1>1. Init => JobInv
  BY InitJobInv
<1>2. JobInv /\ [Next]_vars => JobInv'
  BY StepKeepsJobInv
<1> QED
  BY <1>1, <1>2, PTL DEF Spec

\* All variables of registry, logs, tasks and streams have their types; in
\* particular a receiver is never past what was sent, nor a channel ahead of its log.
THEOREM JobTypes == Spec => []JobTypeOK
<1>1. JobInv => JobTypeOK
  <2> SUFFICES ASSUME JobInv PROVE JobTypeOK
    OBVIOUS
  <2>1. \A j \in Job : sent[j] \in {Len(pushed[j]), Len(pushed[j]) - 1}
    BY DEF JobInv, LogInv
  <2> QED
    BY <2>1 DEF JobInv, LogInv, SlotInv, ClientInv, ClientTypes, JobTypeOK
<1> QED
  BY <1>1, JobInvHolds, PTL

\* At most MaxJobs tasks are at work or have died at work, however starts, ends,
\* panics and cleanups of the registry interleave.
THEOREM Slots == Spec => []CapHolds
<1>1. JobInv => CapHolds
  BY DEF JobInv, SlotInv, AtWork, CapHolds
<1> QED
  BY <1>1, JobInvHolds, PTL

\* No replay shows a progress after the end of the job.
THEOREM NoRestart == Spec => []ReplayNeverRestarts
<1>1. JobInv => ReplayNeverRestarts
  <2> SUFFICES ASSUME JobInv, NEW c \in Client, snap[c].prog # 0
               PROVE  ~EndsInTerminal(watch[c], snap[c].hist)
    BY DEF ReplayNeverRestarts
  <2>1. Viewed(c)
    BY DEF JobInv, ClientInv
  <2>2. at[c] \in Snapped
    BY <2>1 DEF Viewed, View, NoSnap
  <2> QED
    BY <2>1, <2>2 DEF Viewed, View
<1> QED
  BY <1>1, JobInvHolds, PTL

\* A stream past a stored event has shown it, or one that reads alike, or has
\* announced a gap.
THEOREM NoHole == Spec => []NothingUnannounced
<1>1. JobInv => NothingUnannounced
  <2> SUFFICES ASSUME JobInv, NEW c \in Client,
                      at[c] = "streaming", ~ReplayIsDue(c), ~told[c],
                      NEW n \in history[watch[c]], n <= rx[c]
               PROVE  \E m \in seen[c] : pushed[watch[c]][m] = pushed[watch[c]][n]
    BY DEF NothingUnannounced
  <2>1. Viewed(c)
    BY DEF JobInv, ClientInv
  <2>2. Replays(snap[c]) = Replayed(c)
    BY DEF Replays, Replayed
  <2>3. Replays(snap[c]) \subseteq seen[c]
    BY <2>1, <2>2 DEF Viewed, View, Snapped, ReplayIsDue
  <2> QED
    BY <2>1, <2>3 DEF Viewed, View, Snapped
<1> QED
  BY <1>1, JobInvHolds, PTL
=============================================================================
