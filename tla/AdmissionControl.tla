-------------------------- MODULE AdmissionControl --------------------------
(***************************************************************************)
(* What the LLM scheduler promises (the module comment of                  *)
(* llm/scheduler.py), with nothing of how it does it: jobs wait, hold a    *)
(* slot, and leave.  Some slots are kept for chat; a pure background job   *)
(* may be sent back to wait, an effectful one never.                       *)
(***************************************************************************)
EXTENDS Naturals, FiniteSets, FiniteSetTheorems, TLAPS

CONSTANTS Job, Slots, Reserved, Chat, Pure

(* What a user of this contract has to show of the parameters.             *)
AdmissionAssumption ==
    /\ IsFiniteSet(Job)
    /\ Slots \in Nat
    /\ Reserved \in Nat
    /\ Reserved < Slots

VARIABLES
    waiting,    \* the jobs that wait for a slot
    holding     \* the jobs that hold one

vars == <<waiting, holding>>

Init == waiting = {} /\ holding = {}

Arrive(j) ==
    /\ j \notin waiting \cup holding
    /\ waiting' = waiting \cup {j}
    /\ UNCHANGED holding

(* Jobs give up waiting, together if their turn is cancelled.              *)
Withdraw(S) ==
    /\ S \subseteq waiting
    /\ waiting' = waiting \ S
    /\ UNCHANGED holding

Admit(j) ==
    /\ j \in waiting
    /\ Cardinality(holding) < Slots
    /\ j \in Chat \/ Cardinality(holding) + Reserved < Slots
    /\ waiting' = waiting \ {j}
    /\ holding' = holding \cup {j}

Release(j) ==
    /\ j \in holding
    /\ holding' = holding \ {j}
    /\ UNCHANGED waiting

(* Preemption: a pure background job waits again.                          *)
Yield(j) ==
    /\ j \in holding \cap Pure
    /\ j \notin Chat
    /\ holding' = holding \ {j}
    /\ waiting' = waiting \cup {j}

Next ==
    \/ \E j \in Job : Arrive(j) \/ Admit(j) \/ Release(j) \/ Yield(j)
    \/ \E S \in SUBSET Job : Withdraw(S)

Spec == Init /\ [][Next]_vars

(* A job waits or holds a slot, not both; the slots suffice, and those     *)
(* reserved are never held by background jobs (scheduler.py:9-10).         *)
Capacity ==
    /\ waiting \subseteq Job
    /\ holding \subseteq Job
    /\ waiting \cap holding = {}
    /\ Cardinality(holding) <= Slots
    /\ Cardinality(holding \ Chat) <= Slots - Reserved

-----------------------------------------------------------------------------

(* Adding one job to a set of jobs adds at most one to its cardinality,    *)
(* removing one adds nothing.                                              *)
LEMMA CardinalityOfJobs ==
    ASSUME AdmissionAssumption, NEW S \in SUBSET Job, NEW j \in Job
    PROVE  /\ IsFiniteSet(S) /\ Cardinality(S) \in Nat
           /\ Cardinality(S \cup {j}) <= Cardinality(S) + 1
           /\ Cardinality(S \ {j}) <= Cardinality(S)
<1>1. IsFiniteSet(S) /\ Cardinality(S) \in Nat
  BY FS_Subset, FS_CardinalityType DEF AdmissionAssumption
<1>2. Cardinality(S \cup {j}) <= Cardinality(S) + 1
  BY <1>1, FS_AddElement
<1>3. Cardinality(S \ {j}) <= Cardinality(S)
  BY <1>1, FS_Subset, S \ {j} \subseteq S
<1> QED BY <1>1, <1>2, <1>3

(* For every number of jobs and slots, no step of the abstract scheduler   *)
(* gives out a slot it does not have, or a reserved one to background work.*)
THEOREM CapacityHolds ==
    ASSUME AdmissionAssumption
    PROVE  Spec => []Capacity
<1>1. Init => Capacity
  BY FS_EmptySet DEF Init, Capacity, AdmissionAssumption
<1>2. Capacity /\ [Next]_vars => Capacity'
  <2> SUFFICES ASSUME Capacity, [Next]_vars PROVE Capacity'
    OBVIOUS
  <2> USE DEF Capacity
  <2>1. ASSUME NEW j \in Job, Arrive(j) PROVE Capacity'
    BY <2>1 DEF Arrive
  <2>2. ASSUME NEW j \in Job, Admit(j) PROVE Capacity'
    <3>1. Cardinality(holding') <= Slots
      BY <2>2, CardinalityOfJobs DEF Admit, AdmissionAssumption
    <3>2. CASE j \in Chat
      <4>1. holding' \ Chat = holding \ Chat
        BY <2>2, <3>2 DEF Admit
      <4> QED BY <2>2, <3>1, <4>1 DEF Admit
    <3>3. CASE j \notin Chat
      <4>1. /\ holding' \ Chat = (holding \ Chat) \cup {j}
            /\ Cardinality(holding) + Reserved < Slots
        BY <2>2, <3>3 DEF Admit
      <4>2. Cardinality(holding \ Chat) <= Cardinality(holding)
        BY CardinalityOfJobs, FS_Subset, holding \ Chat \subseteq holding
      <4>3. Cardinality(holding' \ Chat) <= Cardinality(holding \ Chat) + 1
        BY <4>1, CardinalityOfJobs, holding \ Chat \in SUBSET Job
      <4>4. /\ Cardinality(holding) \in Nat
            /\ Cardinality(holding \ Chat) \in Nat
            /\ Cardinality(holding' \ Chat) \in Nat
        BY <4>1, CardinalityOfJobs, holding \ Chat \in SUBSET Job,
           holding' \ Chat \in SUBSET Job
      <4>5. Cardinality(holding' \ Chat) <= Slots - Reserved
        BY <4>1, <4>2, <4>3, <4>4 DEF AdmissionAssumption
      <4> QED BY <2>2, <3>1, <4>5 DEF Admit
    <3> QED BY <3>2, <3>3
  <2>3. ASSUME NEW j \in Job, holding' = holding \ {j} PROVE
            /\ Cardinality(holding') <= Slots
            /\ Cardinality(holding' \ Chat) <= Slots - Reserved
    <3>1. holding' \ Chat = (holding \ Chat) \ {j}
      BY <2>3
    <3>2. /\ Cardinality(holding') <= Cardinality(holding)
          /\ Cardinality(holding' \ Chat) <= Cardinality(holding \ Chat)
          /\ Cardinality(holding) \in Nat /\ Cardinality(holding') \in Nat
          /\ Cardinality(holding \ Chat) \in Nat
          /\ Cardinality(holding' \ Chat) \in Nat
      BY <2>3, <3>1, CardinalityOfJobs, holding \ Chat \in SUBSET Job,
         holding' \in SUBSET Job, holding' \ Chat \in SUBSET Job
    <3> QED BY <3>2 DEF AdmissionAssumption
  <2>4. ASSUME NEW j \in Job, Release(j) PROVE Capacity'
    BY <2>3, <2>4 DEF Release
  <2>5. ASSUME NEW j \in Job, Yield(j) PROVE Capacity'
    BY <2>3, <2>5 DEF Yield
  <2>6. ASSUME NEW S \in SUBSET Job, Withdraw(S) PROVE Capacity'
    BY <2>6 DEF Withdraw
  <2>7. CASE UNCHANGED vars
    BY <2>7 DEF vars
  <2> QED BY <2>1, <2>2, <2>4, <2>5, <2>6, <2>7 DEF Next
<1> QED BY <1>1, <1>2, PTL DEF Spec
=============================================================================
