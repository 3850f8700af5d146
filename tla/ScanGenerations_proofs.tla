----------------------- MODULE ScanGenerations_proofs -----------------------
(***************************************************************************)
(* Proofs about ScanGenerations, for every set of files, roots (however    *)
(* they overlap) and scanners, and any number of changes and faults.       *)
(***************************************************************************)
EXTENDS ScanGenerations, TLAPS

-----------------------------------------------------------------------------
(* The inductive invariant. Whoever is not off holds the lease; so one scan *)
(* at a time reasons about the stamps, and what it has stamped can be told  *)
(* from what it must delete.                                                *)

ScanRecord ==
  [step : Step, run : Nat, gen : Nat, at : Nat,
   visited : SUBSET Path, found : SUBSET Path, seen : BOOLEAN]

Running(s) == scan[s].step \in {"root", "walking", "checked"}
InWalk(s) == scan[s].step \in {"walking", "checked"}
Mine(s) == {p \in Path : gen[p] = scan[s].gen}

\* The generation of a running scan is the newest, and its stamps are its own.
Newest(s) ==
  /\ scan[s].gen # 0
  /\ scan[s].at \in 1..Len(RootsOf[s])
  /\ \A p \in Path : gen[p] <= scan[s].gen
  /\ \A p \in Path : gen[p] = scan[s].gen => by[p] = scan[s].run

\* What is stamped or about to be was on disk when the current root was walked,
\* or belongs to an earlier root.
StampsJustified(s) ==
  /\ scan[s].step = "root" => Mine(s) \subseteq EarlierRoots(s)
  /\ InWalk(s) => Mine(s) \cup scan[s].found \subseteq
       EarlierRoots(s) \cup (Under[TheRoot(s)] \cap (disk \cup unsure))

\* A walk that could read its root has missed nothing that stayed.
WalkComplete(s) ==
  /\ InWalk(s) /\ scan[s].seen =>
       /\ OutOfReach \subseteq unsure
       /\ \A p \in scan[s].visited \cap (disk \ unsure) :
            p \in scan[s].found \/ p \in Mine(s)
  /\ scan[s].step = "checked" => scan[s].seen /\ scan[s].visited = Under[TheRoot(s)]

ScanGood(s) ==
  /\ scan[s] \in ScanRecord
  /\ scan[s].found \subseteq scan[s].visited
  /\ scan[s].step # "off" => lease = s
  /\ Running(s) => Newest(s)
  /\ StampsJustified(s)
  /\ WalkComplete(s)

TablesGood ==
  /\ entries \subseteq Path
  /\ gen \in [Path -> Nat]
  /\ by \in [Path -> Nat]
  /\ \A p \in Path \ entries : gen[p] = 0
  /\ OneRunPerGeneration

RestGood ==
  /\ disk \subseteq Path /\ away \subseteq Root
  /\ unsure \subseteq Path
  /\ lease \in Scanner \cup {None}
  /\ touched \subseteq ChangeKind \X Path
  /\ handling \in Path \cup {None}
  /\ runs \in Nat

IInv ==
  /\ scan = [s \in Scanner |-> scan[s]]
  /\ \A s \in Scanner : ScanGood(s)
  /\ TablesGood
  /\ RestGood

-----------------------------------------------------------------------------

LEMMA NoneIsNobody == None \notin Path /\ None \notin Scanner
BY ScanAssumption DEF ScanAssumption

LEMMA UnderInPath == ASSUME NEW r \in Root PROVE Under[r] \subseteq Path
BY ScanAssumption DEF ScanAssumption

LEMMA IndexOfRoot ==
  ASSUME NEW s \in Scanner
  PROVE  RootsOf[s] \in Seq(Root) /\ Len(RootsOf[s]) \in Nat /\ Len(RootsOf[s]) # 0
BY ScanAssumption DEF ScanAssumption

LEMMA RootInRoot ==
  ASSUME NEW s \in Scanner, scan[s].at \in 1..Len(RootsOf[s])
  PROVE  TheRoot(s) \in Root
BY IndexOfRoot DEF TheRoot

LEMMA ReachInPath ==
  ASSUME away \subseteq Root
  PROVE  OutOfReach \subseteq Path
BY UnderInPath DEF OutOfReach

\* Only the scanner that moves is anywhere but off.
LEMMA OthersStayGood ==
  ASSUME IInv, NEW s \in Scanner, NEW t \in Scanner, t # s,
         scan[s].step # "off" \/ lease = None, scan'[t] = scan[t]
  PROVE  ScanGood(t)'
<1>1. scan[t].step = "off"
  BY NoneIsNobody DEF IInv, ScanGood
<1> QED
  BY <1>1 DEF IInv, ScanGood, Running, InWalk, StampsJustified, WalkComplete

LEMMA InitIInv == Init => IInv
<1> SUFFICES ASSUME Init PROVE IInv
  OBVIOUS
<1>1. ASSUME NEW s \in Scanner PROVE ScanGood(s)
  <2>1. scan[s] = Off /\ Off \in ScanRecord
    BY DEF Init, Off, ScanRecord, Step
  <2> QED
    BY <2>1 DEF Off, ScanGood, Running, InWalk, StampsJustified, WalkComplete
<1>2. TablesGood
  BY DEF Init, TablesGood, OneRunPerGeneration
<1>3. RestGood
  BY DEF Init, RestGood
<1> QED
  BY <1>1, <1>2, <1>3 DEF Init, IInv

-----------------------------------------------------------------------------
(* A step of a scan: the others stay off, so it is enough to look at the    *)
(* scanner that moves.                                                      *)

LEMMA ScanStep ==
  ASSUME IInv, NEW s \in Scanner, NEW r, Set(s, r),
         scan[s].step # "off" \/ lease = None,
         ScanGood(s)', TablesGood', RestGood'
  PROVE  IInv'
<1>1. scan' = [t \in Scanner |-> scan'[t]]
  BY DEF Set, IInv
<1>2. \A t \in Scanner : t # s => scan'[t] = scan[t]
  BY DEF Set, IInv
<1>3. \A t \in Scanner : ScanGood(t)'
  BY <1>2, OthersStayGood
<1> QED
  BY <1>1, <1>3 DEF IInv

LEMMA OffGood ==
  ASSUME NEW s \in Scanner, scan'[s] = Off
  PROVE  ScanGood(s)'
<1>1. Off \in ScanRecord /\ Off.step = "off" /\ Off.found = {}
  BY DEF Off, ScanRecord, Step
<1> QED
  BY <1>1 DEF ScanGood, Running, InWalk, StampsJustified, WalkComplete

LEMMA TablesKeep ==
  ASSUME TablesGood, UNCHANGED tableVars
  PROVE  TablesGood'
BY DEF TablesGood, tableVars, OneRunPerGeneration

LEMMA RestKeep ==
  ASSUME RestGood, Keep, unsure' \subseteq Path, runs' \in Nat, lease' \in Scanner \cup {None}
  PROVE  RestGood'
BY DEF RestGood, Keep, fileVars, watchVars

LEMMA LeaseKeepsIInv ==
  ASSUME IInv, NEW s \in Scanner, Lease(s)
  PROVE  IInv'
<1> DEFINE r == [Off EXCEPT !.step = "leased", !.run = runs + 1]
<1>1. /\ Set(s, r) /\ lease = None /\ lease' = s /\ runs' = runs + 1
      /\ UNCHANGED <<tableVars, unsure, faults>> /\ Keep
  BY DEF Lease, Begin
<1>2. scan'[s] = r
  <2> HIDE DEF r
  <2> QED
    BY <1>1 DEF Set, IInv
<1>3. r \in ScanRecord /\ r.step = "leased" /\ r.found = {}
  <2>1. Off \in ScanRecord /\ Off.found = {}
    BY DEF Off, ScanRecord, Step
  <2>2. ASSUME NEW n \in Nat
        PROVE  /\ [Off EXCEPT !.step = "leased", !.run = n] \in ScanRecord
               /\ [Off EXCEPT !.step = "leased", !.run = n].step = "leased"
               /\ [Off EXCEPT !.step = "leased", !.run = n].found = {}
    BY <2>1 DEF ScanRecord, Step
  <2>3. runs + 1 \in Nat
    BY DEF IInv, RestGood
  <2> QED
    BY <2>2, <2>3
<1>4. ScanGood(s)'
  <2> HIDE DEF r
  <2> QED
    BY <1>1, <1>2, <1>3 DEF ScanGood, Running, InWalk, StampsJustified, WalkComplete
<1>5. TablesGood'
  BY <1>1, TablesKeep DEF IInv
<1>6. RestGood'
  BY <1>1, RestKeep DEF IInv, RestGood
<1> QED
  BY <1>1, <1>4, <1>5, <1>6, ScanStep

LEMMA AllocateKeepsIInv ==
  ASSUME IInv, NEW s \in Scanner, Allocate(s)
  PROVE  IInv'
<1>1. PICK p \in Path :
        /\ \A q \in Path : gen[q] <= gen[p]
        /\ Set(s, [scan[s] EXCEPT !.step = "root", !.gen = gen[p] + 1, !.at = 1])
  BY DEF Allocate
<1> DEFINE r == [scan[s] EXCEPT !.step = "root", !.gen = gen[p] + 1, !.at = 1]
<1>2. /\ scan[s].step = "leased" /\ UNCHANGED <<tableVars, lease, unsure, runs, faults>> /\ Keep
  BY DEF Allocate
<1>3. scan'[s] = r
  <2>1. Set(s, r)
    BY <1>1
  <2> HIDE DEF r
  <2> QED
    BY <2>1 DEF Set, IInv
<1>4. gen[p] \in Nat /\ \A q \in Path : gen[q] \in Nat /\ gen[q] < gen[p] + 1
  BY <1>1 DEF IInv, TablesGood
<1>5. /\ r \in ScanRecord /\ r.step = "root" /\ r.gen = gen[p] + 1 /\ r.at = 1
      /\ r.found = scan[s].found /\ r.visited = scan[s].visited
  <2>1. scan[s] \in ScanRecord
    BY DEF IInv, ScanGood
  <2> DEFINE m(n) == [scan[s] EXCEPT !.step = "root", !.gen = n, !.at = 1]
  <2>2. ASSUME NEW n \in Nat
        PROVE  /\ m(n) \in ScanRecord /\ m(n).step = "root" /\ m(n).gen = n /\ m(n).at = 1
               /\ m(n).found = scan[s].found /\ m(n).visited = scan[s].visited
    BY <2>1 DEF ScanRecord, Step
  <2>3. gen[p] + 1 \in Nat
    BY <1>4
  <2> QED
    BY <2>2, <2>3
<1>6. ScanGood(s)'
  <2> HIDE DEF r
  <2>1. gen' = gen /\ by' = by /\ lease' = s /\ scan[s].found \subseteq scan[s].visited
    BY <1>2 DEF tableVars, IInv, ScanGood
  <2>2. Newest(s)'
    BY <2>1, <1>3, <1>4, <1>5, IndexOfRoot DEF Newest
  <2>3. Mine(s)' = {}
    BY <2>1, <1>3, <1>4, <1>5 DEF Mine
  <2> QED
    BY <2>1, <2>2, <2>3, <1>3, <1>5
    DEF ScanGood, Running, InWalk, StampsJustified, WalkComplete
<1>7. TablesGood' /\ RestGood'
  BY <1>2, TablesKeep, RestKeep DEF IInv, RestGood
<1> QED
  BY <1>1, <1>2, <1>6, <1>7, ScanStep

LEMMA BeginWalkKeepsIInv ==
  ASSUME IInv, NEW s \in Scanner, BeginWalk(s)
  PROVE  IInv'
<1> DEFINE root == TheRoot(s)
<1> DEFINE r == [scan[s] EXCEPT
                   !.step = "walking", !.found = {}, !.seen = ~Gone(root),
                   !.visited = IF Gone(root) THEN Under[root] ELSE {}]
<1>1. /\ scan[s].step = "root" /\ Set(s, r)
      /\ unsure' = IF Gone(root) THEN {} ELSE OutOfReach
      /\ UNCHANGED <<tableVars, lease, runs, faults>> /\ Keep
  BY DEF BeginWalk
<1>2. scan'[s] = r
  <2> HIDE DEF r
  <2> QED
    BY <1>1 DEF Set, IInv
<1>3. scan[s] \in ScanRecord /\ Newest(s) /\ Mine(s) \subseteq EarlierRoots(s) /\ lease = s
  BY <1>1 DEF IInv, ScanGood, Running, StampsJustified
<1>4. Under[root] \subseteq Path /\ OutOfReach \subseteq Path
  BY <1>3, RootInRoot, UnderInPath, ReachInPath DEF Newest, IInv, RestGood
<1>5. Gone(root) \in BOOLEAN
  BY DEF Gone
<1>6. /\ r \in ScanRecord /\ r.step = "walking" /\ r.gen = scan[s].gen /\ r.at = scan[s].at
      /\ r.run = scan[s].run /\ r.found = {} /\ r.seen = ~Gone(root)
      /\ ~Gone(root) => r.visited = {}
  BY <1>3, <1>4, <1>5 DEF ScanRecord, Step
<1>7. ScanGood(s)'
  <2> HIDE DEF r
  <2>1. /\ gen' = gen /\ by' = by /\ lease' = s /\ away' = away
    BY <1>1, <1>3 DEF tableVars, Keep, fileVars
  <2>2. Newest(s)'
    BY <2>1, <1>2, <1>3, <1>6 DEF Newest
  <2>3. Mine(s)' = Mine(s) /\ EarlierRoots(s)' = EarlierRoots(s)
    BY <2>1, <1>2, <1>6 DEF Mine, EarlierRoots
  <2>4. OutOfReach' = OutOfReach
    BY <2>1 DEF OutOfReach
  <2>5. StampsJustified(s)'
    BY <2>3, <1>2, <1>3, <1>6 DEF StampsJustified, InWalk
  <2>6. WalkComplete(s)'
    BY <2>4, <1>1, <1>2, <1>6 DEF WalkComplete, InWalk
  <2> QED
    BY <2>1, <2>2, <2>5, <2>6, <1>2, <1>6 DEF ScanGood, Running
<1>8. TablesGood' /\ RestGood'
  BY <1>1, <1>4, TablesKeep, RestKeep DEF IInv, RestGood
<1> QED
  BY <1>1, <1>7, <1>8, ScanStep

LEMMA VisitKeepsIInv ==
  ASSUME IInv, NEW s \in Scanner, NEW p \in Path, Visit(s, p)
  PROVE  IInv'
<1> DEFINE seen == IF p \in disk \ OutOfReach THEN {p} ELSE {}
<1> DEFINE r == [scan[s] EXCEPT !.visited = @ \cup {p}, !.found = @ \cup seen]
<1>1. /\ scan[s].step = "walking" /\ p \in Under[TheRoot(s)]
      /\ UNCHANGED <<tableVars, lease, unsure, runs, faults>> /\ Keep
  BY DEF Visit
<1>2. scan[s] \in ScanRecord /\ scan[s].found \subseteq scan[s].visited
  BY DEF IInv, ScanGood
<1>3. Set(s, r)
  <2>1. (IF p \in disk \ OutOfReach THEN scan[s].found \cup {p} ELSE scan[s].found)
          = scan[s].found \cup seen
    OBVIOUS
  <2> QED
    BY <2>1 DEF Visit, Set
<1>4. scan'[s] = r
  <2> HIDE DEF r
  <2> QED
    BY <1>3 DEF Set, IInv
<1>5. /\ r \in ScanRecord /\ r.step = "walking" /\ r.gen = scan[s].gen /\ r.at = scan[s].at
      /\ r.run = scan[s].run /\ r.seen = scan[s].seen
      /\ r.visited = scan[s].visited \cup {p} /\ r.found = scan[s].found \cup seen
  <2>1. seen \subseteq Path
    OBVIOUS
  <2> HIDE DEF seen
  <2> QED
    BY <1>1, <1>2, <2>1 DEF ScanRecord, Step
<1>6. ScanGood(s)'
  <2> HIDE DEF r
  <2>1. /\ gen' = gen /\ by' = by /\ lease' = lease /\ lease = s /\ away' = away
        /\ disk' = disk /\ unsure' = unsure
    BY <1>1 DEF tableVars, Keep, fileVars, IInv, ScanGood
  <2>2. Newest(s)'
    BY <2>1, <1>1, <1>4, <1>5 DEF Newest, IInv, ScanGood, Running
  <2>3. Mine(s)' = Mine(s) /\ EarlierRoots(s)' = EarlierRoots(s) /\ TheRoot(s)' = TheRoot(s)
        /\ OutOfReach' = OutOfReach
    BY <2>1, <1>4, <1>5 DEF Mine, EarlierRoots, TheRoot, OutOfReach
  <2>4. StampsJustified(s) /\ WalkComplete(s)
    BY DEF IInv, ScanGood
  <2>5. StampsJustified(s)'
    BY <2>1, <2>3, <2>4, <1>1, <1>4, <1>5 DEF StampsJustified, InWalk
  <2>6. WalkComplete(s)'
    BY <2>1, <2>3, <2>4, <1>1, <1>4, <1>5 DEF WalkComplete, InWalk
  <2>7. r.found \subseteq r.visited
    BY <1>2, <1>5
  <2> QED
    BY <2>1, <2>2, <2>5, <2>6, <2>7, <1>4, <1>5 DEF ScanGood, Running
<1>7. TablesGood' /\ RestGood'
  BY <1>1, TablesKeep, RestKeep DEF IInv, RestGood
<1> QED
  BY <1>1, <1>3, <1>6, <1>7, ScanStep

LEMMA StampBatchKeepsIInv ==
  ASSUME IInv, NEW s \in Scanner, NEW S \in SUBSET scan[s].found, StampBatch(s, S)
  PROVE  IInv'
<1> DEFINE g == scan[s].gen
<1> DEFINE r == [scan[s] EXCEPT !.found = @ \ S]
<1>1. /\ InWalk(s) /\ StampEntries(S, g, scan[s].run) /\ Set(s, r)
      /\ UNCHANGED <<lease, unsure, runs, faults>> /\ Keep
  BY DEF StampBatch, InWalk
<1>2. /\ scan[s] \in ScanRecord /\ scan[s].found \subseteq scan[s].visited /\ Newest(s)
      /\ lease = s /\ StampsJustified(s) /\ WalkComplete(s)
  BY <1>1 DEF IInv, ScanGood, Running, InWalk
<1>3. scan'[s] = r
  <2> HIDE DEF r
  <2> QED
    BY <1>1 DEF Set, IInv
<1>4. /\ r \in ScanRecord /\ r.step = scan[s].step /\ r.gen = g /\ r.at = scan[s].at
      /\ r.run = scan[s].run /\ r.seen = scan[s].seen
      /\ r.visited = scan[s].visited /\ r.found = scan[s].found \ S
  BY <1>2 DEF ScanRecord, Step
<1>5. S \subseteq Path /\ g \in Nat /\ scan[s].run \in Nat
  BY <1>2 DEF ScanRecord
<1>6. Stamped(S, g) = S
  BY <1>2, <1>5 DEF Stamped, Newest
<1>7. /\ entries' = entries \cup S
      /\ gen' = [p \in Path |-> IF p \in S THEN g ELSE gen[p]]
      /\ by' = [p \in Path |-> IF p \in S THEN scan[s].run ELSE by[p]]
  BY <1>1, <1>6 DEF StampEntries
<1>8. \A p \in Path : gen'[p] <= g /\ (gen'[p] = g => by'[p] = scan[s].run)
  BY <1>2, <1>5, <1>7 DEF Newest, IInv, TablesGood
<1> HIDE DEF r, g
<1>9. ScanGood(s)'
  <2>1. lease' = s /\ away' = away /\ disk' = disk /\ unsure' = unsure
    BY <1>1, <1>2 DEF Keep, fileVars
  <2>2. Newest(s)'
    BY <1>2, <1>3, <1>4, <1>8 DEF Newest, g
  <2>3. Mine(s)' = Mine(s) \cup S
    BY <1>3, <1>4, <1>5, <1>7 DEF Mine, g
  <2>4. EarlierRoots(s)' = EarlierRoots(s) /\ TheRoot(s)' = TheRoot(s) /\ OutOfReach' = OutOfReach
    BY <2>1, <1>3, <1>4 DEF EarlierRoots, TheRoot, OutOfReach
  <2>5. StampsJustified(s)'
    BY <2>1, <2>3, <2>4, <1>1, <1>2, <1>3, <1>4 DEF StampsJustified, InWalk
  <2>6. WalkComplete(s)'
    BY <2>1, <2>3, <2>4, <1>1, <1>2, <1>3, <1>4 DEF WalkComplete, InWalk
  <2> QED
    BY <2>1, <2>2, <2>5, <2>6, <1>2, <1>3, <1>4 DEF ScanGood, Running
<1>10. TablesGood'
  <2>1. TablesGood
    BY DEF IInv
  <2>2. gen' \in [Path -> Nat] /\ by' \in [Path -> Nat] /\ entries' \subseteq Path
    BY <2>1, <1>5, <1>7 DEF TablesGood
  <2>3. \A p \in Path \ entries' : gen'[p] = 0
    BY <2>1, <1>7 DEF TablesGood
  <2>4. ASSUME NEW p \in entries', NEW q \in entries', gen'[p] = gen'[q], gen'[p] # 0
        PROVE  by'[p] = by'[q]
    <3>1. CASE gen'[p] = g
      BY <3>1, <2>2, <2>4, <1>8
    <3>2. CASE gen'[p] # g
      <4>1. p \notin S /\ q \notin S
        BY <3>2, <2>2, <2>4, <1>7
      <4> QED
        BY <4>1, <2>1, <2>2, <2>4, <1>7 DEF TablesGood, OneRunPerGeneration
    <3> QED
      BY <3>1, <3>2
  <2> QED
    BY <2>2, <2>3, <2>4 DEF TablesGood, OneRunPerGeneration
<1>11. RestGood'
  BY <1>1, RestKeep DEF IInv, RestGood
<1> QED
  <2>1. scan[s].step # "off"
    BY <1>1 DEF InWalk
  <2> QED
    BY <1>1, <1>9, <1>10, <1>11, <2>1, ScanStep DEF r

LEMMA CheckRootKeepsIInv ==
  ASSUME IInv, NEW s \in Scanner, CheckRoot(s)
  PROVE  IInv'
<1> DEFINE r == [scan[s] EXCEPT !.step = "checked"]
<1>1. /\ scan[s].step = "walking" /\ scan[s].visited = Under[TheRoot(s)] /\ scan[s].seen
      /\ Set(s, r) /\ UNCHANGED <<tableVars, lease, unsure, runs, faults>> /\ Keep
  BY DEF CheckRoot, Walked, RootPresent
<1>2. scan'[s] = r
  <2> HIDE DEF r
  <2> QED
    BY <1>1 DEF Set, IInv
<1>3. /\ scan[s] \in ScanRecord /\ scan[s].found \subseteq scan[s].visited /\ Newest(s)
      /\ lease = s /\ StampsJustified(s) /\ WalkComplete(s)
  BY <1>1 DEF IInv, ScanGood, Running
<1>4. /\ r \in ScanRecord /\ r.step = "checked" /\ r.gen = scan[s].gen /\ r.at = scan[s].at
      /\ r.run = scan[s].run /\ r.seen = scan[s].seen
      /\ r.visited = scan[s].visited /\ r.found = scan[s].found
  BY <1>3 DEF ScanRecord, Step
<1> HIDE DEF r
<1>5. ScanGood(s)'
  <2>1. /\ gen' = gen /\ by' = by /\ lease' = s /\ away' = away
        /\ disk' = disk /\ unsure' = unsure
    BY <1>1, <1>3 DEF tableVars, Keep, fileVars
  <2>2. Newest(s)'
    BY <2>1, <1>2, <1>3, <1>4 DEF Newest
  <2>3. Mine(s)' = Mine(s) /\ EarlierRoots(s)' = EarlierRoots(s) /\ TheRoot(s)' = TheRoot(s)
        /\ OutOfReach' = OutOfReach
    BY <2>1, <1>2, <1>4 DEF Mine, EarlierRoots, TheRoot, OutOfReach
  <2>4. StampsJustified(s)'
    BY <2>1, <2>3, <1>1, <1>2, <1>3, <1>4 DEF StampsJustified, InWalk
  <2>5. WalkComplete(s)'
    BY <2>1, <2>3, <1>1, <1>2, <1>3, <1>4 DEF WalkComplete, InWalk
  <2> QED
    BY <2>1, <2>2, <2>4, <2>5, <1>2, <1>3, <1>4 DEF ScanGood, Running
<1>6. TablesGood' /\ RestGood'
  BY <1>1, TablesKeep, RestKeep DEF IInv, RestGood
<1> QED
  BY <1>1, <1>5, <1>6, ScanStep DEF r

\* What was stamped for the root that is over belongs to the earlier roots now.
LEMMA EarlierGrows ==
  ASSUME NEW s \in Scanner, scan[s].at \in 1..Len(RootsOf[s]), scan'[s].at = scan[s].at + 1
  PROVE  EarlierRoots(s) \cup Under[TheRoot(s)] \subseteq EarlierRoots(s)'
<1> DEFINE a == scan[s].at
<1>1. a \in Nat /\ a \in 1..a /\ 1..a - 1 \subseteq 1..a /\ (a + 1) - 1 = a
  BY IndexOfRoot
<1>2. EarlierRoots(s)' = UNION {Under[RootsOf[s][i]] : i \in 1..a}
  BY <1>1 DEF EarlierRoots
<1> QED
  BY <1>1, <1>2 DEF EarlierRoots, TheRoot

LEMMA NextRootGood ==
  ASSUME IInv, NEW s \in Scanner, InWalk(s), NextRoot(s),
         \A p \in Path : gen'[p] <= scan[s].gen
                         /\ (gen'[p] = scan[s].gen => gen[p] = scan[s].gen /\ by'[p] = by[p])
  PROVE  ScanGood(s)' /\ lease' \in Scanner \cup {None} /\ \E r : Set(s, r)
<1>1. /\ scan[s] \in ScanRecord /\ scan[s].found \subseteq scan[s].visited /\ Newest(s)
      /\ lease = s /\ StampsJustified(s)
  BY DEF IInv, ScanGood, Running, InWalk
<1>2. CASE ~ scan[s].at < Len(RootsOf[s])
  <2>1. Set(s, Off) /\ lease' = None
    BY <1>2 DEF NextRoot
  <2>2. scan'[s] = Off
    BY <2>1 DEF Set, IInv
  <2> QED
    BY <2>1, <2>2, OffGood
<1>3. CASE scan[s].at < Len(RootsOf[s])
  <2> DEFINE r == [scan[s] EXCEPT !.step = "root", !.at = @ + 1]
  <2>1. Set(s, r) /\ lease' = s
    BY <1>1, <1>3 DEF NextRoot
  <2>2. scan'[s] = r
    <3> HIDE DEF r
    <3> QED
      BY <2>1 DEF Set, IInv
  <2>3. scan[s].at \in Nat /\ scan[s].at + 1 \in 1..Len(RootsOf[s])
    BY <1>1, <1>3, IndexOfRoot DEF Newest
  <2>4. /\ r \in ScanRecord /\ r.step = "root" /\ r.gen = scan[s].gen /\ r.run = scan[s].run
        /\ r.at = scan[s].at + 1 /\ r.found = scan[s].found /\ r.visited = scan[s].visited
    <3> DEFINE m(n) == [scan[s] EXCEPT !.step = "root", !.at = n]
    <3>1. ASSUME NEW n \in Nat
          PROVE  /\ m(n) \in ScanRecord /\ m(n).step = "root" /\ m(n).gen = scan[s].gen
                 /\ m(n).run = scan[s].run /\ m(n).at = n
                 /\ m(n).found = scan[s].found /\ m(n).visited = scan[s].visited
      BY <1>1 DEF ScanRecord, Step
    <3>2. scan[s].at + 1 \in Nat /\ r = m(scan[s].at + 1)
      BY <2>3
    <3> HIDE DEF r, m
    <3>3. m(scan[s].at + 1) \in ScanRecord
      BY <3>1, <3>2
    <3> QED
      BY <3>1, <3>2, <3>3
  <2> HIDE DEF r
  <2>5. Newest(s)'
    BY <1>1, <2>2, <2>3, <2>4 DEF Newest
  <2>6. Mine(s)' \subseteq Mine(s)
    BY <2>2, <2>4 DEF Mine
  <2>7. Mine(s) \subseteq EarlierRoots(s)'
    <3>1. Mine(s) \subseteq EarlierRoots(s) \cup Under[TheRoot(s)]
      BY <1>1 DEF StampsJustified
    <3> QED
      BY <3>1, <1>1, <2>2, <2>4, EarlierGrows DEF Newest
  <2>8. StampsJustified(s)'
    BY <2>2, <2>4, <2>6, <2>7 DEF StampsJustified, InWalk
  <2>9. WalkComplete(s)'
    BY <2>2, <2>4 DEF WalkComplete, InWalk
  <2> QED
    BY <1>1, <2>1, <2>2, <2>4, <2>5, <2>8, <2>9 DEF ScanGood, Running
<1> QED
  BY <1>2, <1>3

LEMMA SkipRootKeepsIInv ==
  ASSUME IInv, NEW s \in Scanner, SkipRoot(s)
  PROVE  IInv'
<1>1. /\ InWalk(s) /\ scan[s].step # "off" /\ NextRoot(s)
      /\ UNCHANGED <<tableVars, unsure, runs, faults>> /\ Keep
  BY DEF SkipRoot, Walked, InWalk
<1>2. ScanGood(s)' /\ lease' \in Scanner \cup {None} /\ \E r : Set(s, r)
  <2>1. Newest(s)
    BY <1>1 DEF IInv, ScanGood, Running, InWalk
  <2>2. gen' = gen /\ by' = by
    BY <1>1 DEF tableVars
  <2> QED
    BY <1>1, <2>1, <2>2, NextRootGood DEF Newest
<1>3. TablesGood' /\ RestGood'
  BY <1>1, <1>2, TablesKeep, RestKeep DEF IInv, RestGood
<1> QED
  BY <1>1, <1>2, <1>3, ScanStep

LEMMA DropKeepsTables ==
  ASSUME TablesGood, NEW S \in SUBSET Path, DropEntries(S)
  PROVE  TablesGood'
<1>1. /\ entries' = entries \ S /\ by' = by
      /\ gen' = [p \in Path |-> IF p \in S THEN 0 ELSE gen[p]]
  BY DEF DropEntries
<1> QED
  BY <1>1 DEF TablesGood, OneRunPerGeneration

LEMMA ReconcileKeepsIInv ==
  ASSUME IInv, NEW s \in Scanner, Reconcile(s)
  PROVE  IInv'
<1>1. /\ InWalk(s) /\ scan[s].step # "off" /\ DropEntries(Ghosts(s)) /\ NextRoot(s)
      /\ UNCHANGED <<unsure, runs, faults>> /\ Keep
  BY DEF Reconcile, InWalk
<1>2. Ghosts(s) \subseteq Path
  BY DEF Ghosts, IInv, TablesGood
<1>3. scan[s] \in ScanRecord /\ Newest(s)
  BY <1>1 DEF IInv, ScanGood, Running, InWalk
<1>4. ScanGood(s)' /\ lease' \in Scanner \cup {None} /\ \E r : Set(s, r)
  <2>1. by' = by /\ gen' = [p \in Path |-> IF p \in Ghosts(s) THEN 0 ELSE gen[p]]
    BY <1>1 DEF DropEntries
  <2>2. scan[s].gen \in Nat \ {0}
    BY <1>3 DEF Newest, ScanRecord
  <2>3. \A p \in Path : gen'[p] <= scan[s].gen
                        /\ (gen'[p] = scan[s].gen => gen[p] = scan[s].gen /\ by'[p] = by[p])
    BY <2>1, <2>2, <1>3 DEF Newest
  <2> QED
    BY <1>1, <2>3, NextRootGood
<1>5. TablesGood' /\ RestGood'
  BY <1>1, <1>2, <1>4, DropKeepsTables, RestKeep DEF IInv, RestGood
<1> QED
  BY <1>1, <1>4, <1>5, ScanStep

LEMMA AbortKeepsIInv ==
  ASSUME IInv, NEW s \in Scanner, Abort(s)
  PROVE  IInv'
<1>1. /\ scan[s].step # "off" /\ Set(s, Off) /\ lease' = None
      /\ UNCHANGED <<tableVars, unsure, runs>> /\ Keep
  BY DEF Abort
<1>2. ScanGood(s)'
  BY <1>1, OffGood DEF Set, IInv
<1>3. TablesGood' /\ RestGood'
  BY <1>1, TablesKeep, RestKeep DEF IInv, RestGood
<1> QED
  BY <1>1, <1>2, <1>3, ScanStep

-----------------------------------------------------------------------------
(* Steps outside the scans. They leave the scanners and the stamps alone    *)
(* and may only make more files unsure.                                     *)

\* Seen by a scanner, a change of the disk marks what it changes as unsure.
Outside ==
  /\ UNCHANGED <<scan, lease, runs, by>>
  /\ disk \subseteq disk' \cup unsure' /\ disk' \subseteq disk \cup unsure'
  /\ unsure \subseteq unsure'
  /\ OutOfReach' \subseteq OutOfReach \cup unsure'
  /\ \A p \in Path : gen'[p] = gen[p] \/ (gen'[p] = 0 /\ p \in unsure')

LEMMA OutsideStaysGood ==
  ASSUME IInv, Outside, NEW s \in Scanner
  PROVE  ScanGood(s)'
<1>1. ScanGood(s)
  BY DEF IInv
<1>2. /\ scan' = scan /\ lease' = lease /\ by' = by
      /\ EarlierRoots(s)' = EarlierRoots(s) /\ TheRoot(s)' = TheRoot(s)
  BY DEF Outside, EarlierRoots, TheRoot
<1>3. CASE Running(s)
  <2>1. Newest(s) /\ scan[s].gen \in Nat /\ scan[s].gen # 0
    BY <1>1, <1>3 DEF ScanGood, Newest, ScanRecord
  <2>2. Newest(s)'
    BY <2>1, <1>2 DEF Newest, Outside
  <2>3. Mine(s)' \subseteq Mine(s) /\ Mine(s) \subseteq Mine(s)' \cup unsure'
    BY <2>1, <1>2 DEF Mine, Outside
  <2>4. StampsJustified(s)'
    BY <2>3, <1>1, <1>2 DEF ScanGood, StampsJustified, InWalk, Outside
  <2>5. WalkComplete(s)'
    BY <2>3, <1>1, <1>2 DEF ScanGood, WalkComplete, InWalk, Outside
  <2> QED
    BY <2>2, <2>4, <2>5, <1>1, <1>2 DEF ScanGood, Running
<1>4. CASE ~Running(s)
  BY <1>1, <1>2, <1>4 DEF ScanGood, Running, InWalk, StampsJustified, WalkComplete
<1> QED
  BY <1>3, <1>4

LEMMA OutsideStep ==
  ASSUME IInv, Outside, TablesGood', RestGood'
  PROVE  IInv'
<1>1. scan' = [s \in Scanner |-> scan'[s]]
  BY DEF Outside, IInv
<1> QED
  BY <1>1, OutsideStaysGood DEF IInv

LEMMA FilesKeepIInv ==
  ASSUME IInv, Files
  PROVE  IInv'
<1>1. UNCHANGED <<tableVars, lease, scan, handling, runs, faults>>
  BY DEF Files, Create, Edit, Delete, Unmount, Mount, FileEvent
<1>2. gen' = gen /\ by' = by /\ lease' = lease /\ scan' = scan /\ runs' = runs
      /\ handling' = handling
  BY <1>1 DEF tableVars
<1>3. ASSUME NEW p \in Path, Create(p) \/ Edit(p) \/ Delete(p)
      PROVE  Outside /\ RestGood'
  <2>1. /\ away' = away /\ disk' \in {disk, disk \cup {p}, disk \ {p}}
        /\ disk' # disk => unsure' = unsure \cup {p}
        /\ unsure' \in {unsure, unsure \cup {p}}
        /\ touched' \in {touched \cup {<<"upsert", p>>}, touched \cup {<<"remove", p>>}}
    BY <1>3 DEF Create, Edit, Delete
  <2>2. OutOfReach' = OutOfReach
    BY <2>1 DEF OutOfReach
  <2>3. Outside
    BY <1>2, <2>1, <2>2 DEF Outside
  <2> QED
    BY <1>2, <2>1, <2>3 DEF IInv, RestGood, ChangeKind
<1>4. ASSUME NEW r \in Root, Unmount(r) \/ Mount(r)
      PROVE  Outside /\ RestGood'
  <2>1. /\ disk' = disk /\ touched' = touched
        /\ \/ away' = away \cup {r} /\ unsure' = unsure \cup Under[r]
           \/ away' = away \ {r} /\ unsure' = unsure
    BY <1>4 DEF Unmount, Mount
  <2>2. OutOfReach' \subseteq OutOfReach \cup unsure'
    BY <2>1 DEF OutOfReach
  <2>3. Outside
    BY <1>2, <2>1, <2>2 DEF Outside
  <2> QED
    BY <1>2, <2>1, <2>3, UnderInPath DEF IInv, RestGood
<1>5. TablesGood'
  BY <1>1, TablesKeep DEF IInv
<1> QED
  BY <1>3, <1>4, <1>5, OutsideStep DEF Files

LEMMA WatchKeepsIInv ==
  ASSUME IInv, Watch
  PROVE  IInv'
<1>1. UNCHANGED <<fileVars, lease, scan, runs, events, faults>>
  BY DEF Watch, WatchRead, WatchStore, WatchRemove, WatchKeep
<1>2. /\ disk' = disk /\ away' = away /\ lease' = lease /\ scan' = scan /\ runs' = runs
      /\ OutOfReach' = OutOfReach
  BY <1>1 DEF fileVars, OutOfReach
<1>3. ASSUME NEW p \in Path, WatchRead(p) PROVE IInv'
  <2>1. UNCHANGED <<tableVars, unsure>> /\ touched' \subseteq touched /\ handling' \in {p, None}
    BY <1>3 DEF WatchRead
  <2>2. Outside /\ TablesGood'
    BY <1>2, <2>1, TablesKeep DEF Outside, tableVars, IInv
  <2> QED
    BY <1>2, <2>1, <2>2, OutsideStep DEF IInv, RestGood
<1>4. CASE WatchStore
  <2>1. /\ handling \in Path /\ entries' = entries \cup {handling} /\ gen' = gen /\ by' = by
        /\ handling' = None /\ unsure' = unsure /\ touched' = touched
    BY <1>4 DEF WatchStore, UpsertUnstamped, IInv, RestGood
  <2>2. Outside
    BY <1>2, <2>1 DEF Outside
  <2>3. TablesGood'
    BY <2>1 DEF IInv, TablesGood, OneRunPerGeneration
  <2> QED
    BY <1>2, <2>1, <2>2, <2>3, OutsideStep DEF IInv, RestGood
<1>5. ASSUME NEW p \in Path, WatchRemove(p) PROVE IInv'
  <2>1. /\ DropEntries({p}) /\ unsure' = unsure \cup {p} /\ touched' \subseteq touched
        /\ handling' = handling
    BY <1>5 DEF WatchRemove
  <2>2. by' = by /\ gen' = [q \in Path |-> IF q \in {p} THEN 0 ELSE gen[q]]
    BY <2>1 DEF DropEntries
  <2>3. Outside
    BY <1>2, <2>1, <2>2 DEF Outside
  <2>4. TablesGood'
    BY <2>1, DropKeepsTables DEF IInv
  <2> QED
    BY <1>2, <2>1, <2>3, <2>4, OutsideStep DEF IInv, RestGood
<1> QED
  BY <1>3, <1>4, <1>5 DEF Watch

LEMMA NextIInv == IInv /\ [Next]_vars => IInv'
<1> SUFFICES ASSUME IInv, [Next]_vars PROVE IInv'
  OBVIOUS
<1>1. ASSUME NEW s \in Scanner, Scan(s) PROVE IInv'
  BY <1>1, LeaseKeepsIInv, AllocateKeepsIInv, BeginWalkKeepsIInv, VisitKeepsIInv,
     StampBatchKeepsIInv, CheckRootKeepsIInv, SkipRootKeepsIInv, ReconcileKeepsIInv,
     AbortKeepsIInv
  DEF Scan
<1>2. CASE Files
  BY <1>2, FilesKeepIInv
<1>3. CASE Watch
  BY <1>3, WatchKeepsIInv
<1>4. CASE UNCHANGED vars
  <2>1. UNCHANGED <<disk, away, entries, gen, by, lease, scan, touched, handling, unsure, runs>>
    BY <1>4 DEF vars, fileVars, tableVars, watchVars
  <2>2. Outside
    BY <2>1 DEF Outside, OutOfReach
  <2>3. TablesGood' /\ RestGood'
    BY <2>1, TablesKeep DEF IInv, tableVars, RestGood
  <2> QED
    BY <2>2, <2>3, OutsideStep
<1> QED
  BY <1>1, <1>2, <1>3, <1>4 DEF Next

\* The invariant holds of every reachable state.
THEOREM AlwaysIInv == Spec => []IInv
  BY InitIInv, NextIInv, PTL DEF Spec

-----------------------------------------------------------------------------
(* What follows from it.                                                    *)

\* Every reachable state is well typed; in particular a scan at work always has
\* a generation and a root (crates/core/src/store/entries.rs).
THEOREM ScanTypeCorrect == Spec => []TypeOK
<1>1. IInv => TypeOK
  BY DEF IInv, TablesGood, RestGood, ScanGood, Running, Newest, ScanRecord, TypeOK
<1> QED
  BY <1>1, AlwaysIInv, PTL

\* A generation is one run's, however roots overlap and runs are cut short
\* (scan_lease, next_scan_generation).
THEOREM GenerationIsOneRun == Spec => []OneRunPerGeneration
<1>1. IInv => OneRunPerGeneration
  BY DEF IInv, TablesGood
<1> QED
  BY <1>1, AlwaysIInv, PTL

LEMMA CheckedKnows ==
  ASSUME IInv, NEW s \in Scanner, Reconcile(s)
  PROVE  /\ scan[s].gen \in Nat /\ gen \in [Path -> Nat] /\ entries \subseteq Path
         /\ \A p \in Path : gen[p] <= scan[s].gen
         /\ Mine(s) \subseteq EarlierRoots(s) \cup disk \cup unsure
         /\ Under[TheRoot(s)] \cap (disk \ unsure) \subseteq Mine(s)
BY DEF Reconcile, IInv, ScanGood, TablesGood, Running, InWalk, Newest,
  StampsJustified, WalkComplete, ScanRecord

\* A reconciliation deletes no entry of a file that stayed through the walk of
\* its root, for any roots and any interleaving with the watcher
\* (reconcile_by_generation, ensure_walked_root_present, COALESCE in the upsert).
THEOREM SparesSteadyFiles == Spec => ReconcileSparesSteadyFiles
<1>1. ASSUME IInv, NEW s \in Scanner, Reconcile(s)
      PROVE  entries \cap (disk \ unsure) \subseteq entries'
  <2>1. entries' = entries \ Ghosts(s)
    BY <1>1 DEF Reconcile, DropEntries
  <2>2. Ghosts(s) \cap (disk \ unsure) = {}
    BY <1>1, CheckedKnows DEF Ghosts, Mine
  <2> QED
    BY <2>1, <2>2
<1>2. IInv => [\A s \in Scanner : Reconcile(s) =>
                 entries \cap (disk \ unsure) \subseteq entries']_vars
  BY <1>1
<1> QED
  BY <1>2, AlwaysIInv, PTL DEF ReconcileSparesSteadyFiles

\* A reconciliation deletes every entry of a file that was gone all through the
\* walk of its root (delete_generation_ghosts).
THEOREM DropsGhosts == Spec => ReconcileDropsGhosts
<1>1. ASSUME IInv, NEW s \in Scanner, Reconcile(s)
      PROVE  entries' \cap (Under[TheRoot(s)] \ (disk \cup unsure \cup EarlierRoots(s))) = {}
  <2>1. entries' = entries \ Ghosts(s)
    BY <1>1 DEF Reconcile, DropEntries
  <2>2. ASSUME NEW p \in entries, p \in Under[TheRoot(s)],
               p \notin disk \cup unsure \cup EarlierRoots(s)
        PROVE  p \in Ghosts(s)
    BY <1>1, <2>2, CheckedKnows DEF Ghosts, Mine
  <2> QED
    BY <2>1, <2>2
<1>2. IInv => [\A s \in Scanner : Reconcile(s) =>
                 entries' \cap (Under[TheRoot(s)] \ (disk \cup unsure \cup EarlierRoots(s)))
                   = {}]_vars
  BY <1>1
<1> QED
  BY <1>2, AlwaysIInv, PTL DEF ReconcileDropsGhosts
=============================================================================
