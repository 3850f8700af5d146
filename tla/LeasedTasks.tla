----------------------------- MODULE LeasedTasks -----------------------------
(***************************************************************************)
(* What the summary queue promises its users, without rows, attempts or    *)
(* separate reads and writes: a task is waiting, or leased to exactly one  *)
(* agent, or its lease was lost and awaits recovery, or it is of no        *)
(* concern.  An agent has one lease at a time, only its holder ends a      *)
(* lease, and only a lost lease can be recovered.                          *)
(***************************************************************************)
CONSTANTS Task, Agent, Nobody

VARIABLES
  waiting,   \* tasks to be taken
  holder,    \* the agent a task is leased to, or Nobody
  lost       \* tasks whose lease was lost

leaseVars == <<waiting, holder, lost>>

LeaseTypeOK ==
  /\ waiting \subseteq Task
  /\ holder \in [Task -> Agent \cup {Nobody}]
  /\ lost \subseteq Task

LeaseInit ==
  /\ waiting = {}
  /\ holder = [t \in Task |-> Nobody]
  /\ lost = {}

Free(a) == \A t \in Task : holder[t] # a
Unleased == {t \in Task \ lost : holder[t] = Nobody}

\* Tasks are asked for; those in hand or lost stay as they are.
Offer(S) ==
  /\ S \subseteq Unleased
  /\ waiting' = waiting \cup S
  /\ UNCHANGED <<holder, lost>>

\* Tasks no agent has in hand are called off.
CallOff(S) ==
  /\ S \subseteq Unleased \cup lost
  /\ waiting' = waiting \ S
  /\ lost' = lost \ S
  /\ UNCHANGED holder

Take(a, t) ==
  /\ Free(a)
  /\ t \in waiting
  /\ waiting' = waiting \ {t}
  /\ holder' = [holder EXCEPT ![t] = a]
  /\ UNCHANGED lost

\* The holder returns the task undone ...
GiveBack(a, t) ==
  /\ holder[t] = a
  /\ holder' = [holder EXCEPT ![t] = Nobody]
  /\ waiting' = waiting \cup {t}
  /\ UNCHANGED lost

\* ... or is done with it.
Settle(a, t) ==
  /\ holder[t] = a
  /\ holder' = [holder EXCEPT ![t] = Nobody]
  /\ UNCHANGED <<waiting, lost>>

\* Agents vanish, and the leases they had are lost.
Vanish(A) ==
  LET theirs == {t \in Task : holder[t] \in A} IN
  /\ holder' = [t \in Task |-> IF t \in theirs THEN Nobody ELSE holder[t]]
  /\ lost' = lost \cup theirs
  /\ UNCHANGED waiting

\* Lost tasks are put up again, all but those that are given up.
Recover(givenUp) ==
  /\ givenUp \subseteq lost
  /\ waiting' = waiting \cup (lost \ givenUp)
  /\ lost' = {}
  /\ UNCHANGED holder

LeaseNext ==
  \/ \E S \in SUBSET Task : Offer(S) \/ CallOff(S) \/ Recover(S)
  \/ \E a \in Agent, t \in Task : Take(a, t) \/ GiveBack(a, t) \/ Settle(a, t)
  \/ \E A \in SUBSET Agent : Vanish(A)

LeaseSpec == LeaseInit /\ [][LeaseNext]_leaseVars
=============================================================================
