--------------------------- MODULE TokenStreamProofs ---------------------------
(***************************************************************************)
(* Proofs about TokenStream, for any clients, deltas and attachments.      *)
(***************************************************************************)
EXTENDS TokenStream, TLAPS

(* No reply, nobody connected.                                             *)
LEMMA InitEstablishes == Init => IInv
<1> SUFFICES ASSUME Init PROVE IInv
  OBVIOUS
<1>1. TypeOK
  <2>1. 0 \in 0..MaxDeltas /\ 0 \in 0..MaxAttach
    BY StreamAssumption
  <2>2. /\ conn \in [Client -> {"away", "attaching", "here"}]
        /\ key \in [Client -> BOOLEAN]
        /\ text \in [Client -> SUBSET (0..MaxDeltas)]
        /\ done \in [Client -> BOOLEAN]
        /\ served \in [Client -> BOOLEAN]
        /\ missed \in [Client -> SUBSET (0..MaxDeltas)]
        /\ unended \in [Client -> BOOLEAN]
    BY DEF Init
  <2> QED BY <2>1, <2>2 DEF Init, TypeOK, Final
<1>2. Broadcasting /\ StreamFollowsJob /\ UpToDate
  <2>1. \A c \in Client : /\ text[c] = {} /\ missed[c] = {}
                           /\ ~unended[c] /\ conn[c] = "away"
    BY DEF Init
  <2> QED BY <2>1 DEF Init, Broadcasting, StreamFollowsJob, UpToDate, Shows, Final
<1> QED BY <1>1, <1>2 DEF IInv

(* A snapshot leaves out the delta that has passed the client, and the end.*)
LEMMA SnapshotKeeps ==
    ASSUME IInv, NEW c \in Client, Snapshot(c), stream = "set",
           UNCHANGED <<stream, job, seq, turn, cast, key, attached>>,
           key[c], conn' \in [Client -> {"away", "attaching", "here"}],
           \A d \in Client \ {c} : conn'[d] = conn[d]
    PROVE  IInv'
<1> USE StreamAssumption
    DEF IInv, TypeOK, Final, Broadcasting, StreamFollowsJob, UpToDate, Shows, Got
<1>1. /\ text' \in [Client -> SUBSET (0..MaxDeltas)]
      /\ text'[c] = Parts
      /\ \A d \in Client \ {c} : text'[d] = text[d]
  BY DEF Snapshot, Parts
<1>2. /\ done' \in [Client -> BOOLEAN]
      /\ done'[c] = FALSE
      /\ \A d \in Client \ {c} : done'[d] = done[d]
  BY DEF Snapshot
<1>3. /\ served' \in [Client -> BOOLEAN]
      /\ \A d \in Client \ {c} : served'[d] = served[d]
  BY DEF Snapshot
<1>4. /\ missed' \in [Client -> SUBSET (0..MaxDeltas)]
      /\ missed'[c] = IF job = "sending" /\ c \notin cast THEN {seq} ELSE {}
      /\ \A d \in Client \ {c} : missed'[d] = missed[d]
  BY DEF Snapshot
<1>5. /\ unended' \in [Client -> BOOLEAN]
      /\ unended'[c] <=> job = "closing" /\ c \notin cast
      /\ \A d \in Client \ {c} : unended'[d] = unended[d]
  BY Zenon DEF Snapshot
<1>6. TypeOK' /\ Broadcasting' /\ StreamFollowsJob'
  BY <1>1, <1>2, <1>3, <1>4, <1>5
<1>7. UpToDate'
  BY <1>1, <1>2, <1>3, <1>4, <1>5 DEF Parts
<1> QED BY <1>6, <1>7

(* Every step keeps the invariant; one step of the proof per action.       *)
LEMMA StepKeeps == IInv /\ [Next]_vars => IInv'
<1> SUFFICES ASSUME IInv, [Next]_vars PROVE IInv'
  OBVIOUS
<1> USE StreamAssumption
    DEF IInv, TypeOK, Final, Broadcasting, StreamFollowsJob, UpToDate, Shows, Got, replyVars,
        clientVars, shownVars, pastVars
(* The reply: what a client has got changes with the broadcasts only.      *)
<1>1. CASE Begin
  BY <1>1 DEF Begin
<1>2. CASE FirstDelta
  BY <1>2 DEF FirstDelta
<1>3. CASE NextDelta
  BY <1>3 DEF NextDelta, Cast
<1>4. CASE Announced
  BY <1>4 DEF Announced, Cast
<1>5. CASE Recorded
  BY <1>5 DEF Recorded
<1>6. CASE Finish
  BY <1>6 DEF Finish, Withdraw, Cast
<1>7. CASE Finished
  BY <1>7 DEF Finished
<1>8. CASE Fail
  BY <1>8 DEF Fail
<1>9. CASE Failed
  BY <1>9 DEF Failed
(* The turn.                                                               *)
<1>10. CASE Stray
  BY <1>10 DEF Stray
<1>11. CASE Cancel
  BY <1>11 DEF Cancel
<1>12. CASE Stopped
  BY <1>12 DEF Stopped
<1>13. CASE Taken
  BY <1>13 DEF Taken
(* The clients: a snapshot remembers what is on its way past it.           *)
<1>14. ASSUME NEW c \in Client, Visit(c) PROVE IInv'
  <2>1. TypeOK'
    <3>1. text' \in [Client -> SUBSET (0..MaxDeltas)]
      BY <1>14 DEF Visit
    <3>2. done' \in [Client -> BOOLEAN]
      BY <1>14 DEF Visit
    <3>3. cast' \in SUBSET Client /\ UNCHANGED <<replyVars, clientVars, pastVars>>
      BY <1>14 DEF Visit
    <3> QED BY <3>1, <3>2, <3>3
  <2>2. Broadcasting' /\ StreamFollowsJob'
    BY <1>14 DEF Visit
  <2>3. UpToDate'
    <3> SUFFICES ASSUME turn' # "cancelled", NEW d \in Client
                 PROVE  Shows(d)'
      OBVIOUS
    <3>1. CASE d # c
      BY <1>14, <3>1 DEF Visit
    <3>2. CASE d = c /\ conn[c] = "away"
      BY <1>14, <3>2 DEF Visit
    <3>3. CASE d = c /\ conn[c] # "away" /\ job = "sending"
      BY <1>14, <3>3 DEF Visit
    <3>4. CASE d = c /\ conn[c] # "away" /\ job = "closing"
      BY <1>14, <3>4 DEF Visit
    <3> QED BY <1>14, <3>1, <3>2, <3>3, <3>4 DEF Visit
  <2> QED BY <2>1, <2>2, <2>3
<1>15. ASSUME NEW c \in Client, Attach(c) PROVE IInv'
  <2>1. TypeOK'
    <3>1. text' \in [Client -> SUBSET (0..MaxDeltas)] /\ done' \in [Client -> BOOLEAN]
      BY <1>15 DEF Attach
    <3>2. conn' \in [Client -> {"away", "attaching", "here"}] /\ key' \in [Client -> BOOLEAN]
      BY <1>15 DEF Attach
    <3>3. attached' \in 0..MaxAttach /\ cast' \in SUBSET Client
      BY <1>15 DEF Attach
    <3> QED BY <1>15, <3>1, <3>2, <3>3 DEF Attach
  <2>2. Broadcasting' /\ StreamFollowsJob'
    BY <1>15 DEF Attach
  <2>3. UpToDate'
    BY <1>15 DEF Attach
  <2> QED BY <2>1, <2>2, <2>3
<1>16. ASSUME NEW c \in Client, Resync(c) PROVE IInv'
  <2> UNCHANGED <<stream, job, seq, turn, cast, key, attached>>
    BY <1>16 DEF Resync
  <2>1. /\ key[c]
        /\ conn' \in [Client -> {"away", "attaching", "here"}]
        /\ \A d \in Client \ {c} : conn'[d] = conn[d]
    BY <1>16 DEF Resync
  <2>2. CASE stream = "set" /\ Snapshot(c)
    BY <2>1, <2>2, SnapshotKeeps
  <2>3. CASE /\ stream # "set"
             /\ served' = [served EXCEPT ![c] = stream # "taken" /\ job \notin Final]
             /\ UNCHANGED <<shownVars, missed, unended>>
    <3> DEFINE inTime == stream # "taken" /\ job \notin Final
    <3>1. /\ served' \in [Client -> BOOLEAN]
          /\ served'[c] <=> inTime
          /\ \A d \in Client \ {c} : served'[d] = served[d]
      <4>1. inTime \in BOOLEAN
        OBVIOUS
      <4>2. served' = [served EXCEPT ![c] = inTime]
        BY <2>3
      <4> HIDE DEF inTime
      <4> QED BY <4>1, <4>2, Zenon
    <3>2. TypeOK' /\ Broadcasting' /\ StreamFollowsJob'
      BY <2>1, <2>3, <3>1
    <3>3. UpToDate'
      BY <2>1, <2>3, <3>1
    <3> QED BY <3>2, <3>3
  <2> QED BY <1>16, <2>2, <2>3 DEF Resync
<1>17. ASSUME NEW c \in Client, Sync(c) PROVE IInv'
  BY <1>17, SnapshotKeeps DEF Sync
<1>18. ASSUME NEW c \in Client, Leave(c) PROVE IInv'
  BY <1>18 DEF Leave
<1>19. CASE UNCHANGED vars
  BY <1>19 DEF vars
<1> QED
  BY <1>1, <1>2, <1>3, <1>4, <1>5, <1>6, <1>7, <1>8, <1>9, <1>10, <1>11, <1>12, <1>13,
     <1>14, <1>15, <1>16, <1>17, <1>18, <1>19 DEF Next, Reply

(* The invariant of the stream.                                            *)
THEOREM InvariantHolds == Spec => []IInv
BY InitEstablishes, StepKeeps, PTL DEF Spec

(* While no token goes out, an attached client shows what is recorded but  *)
(* the delta its latest snapshot missed, and an end if and only if the     *)
(* reply is complete, whatever fails.                                      *)
THEOREM InSyncHolds == Spec => []InSync
<1>1. IInv => InSync
  BY DEF IInv, UpToDate, Shows, InSync, StreamFollowsJob, Got, Parts, Final
<1> QED BY <1>1, InvariantHolds, PTL

(* Only the broadcast of RESPONDING lets a delta of an obsolete turn pass. *)
THEOREM OnlyFirstTokenLateHolds == Spec => OnlyFirstTokenLate
<1>1. IInv /\ [Next]_vars => [Obsolete /\ job # "sending" /\ job' = "sending" => seq = 0]_vars
  <2> SUFFICES ASSUME IInv, Next, Obsolete, job # "sending", job' = "sending"
               PROVE  seq = 0
    BY DEF vars
  <2>1. CASE Reply
    <3>1. Announced
      BY <2>1 DEF Reply, Begin, FirstDelta, NextDelta, Wanted, Recorded, Finish, Finished,
                  Fail, Failed, Stray, Cancel, Stopped, Taken, Final
    <3> QED BY <3>1 DEF Announced, IInv, Broadcasting
  <2>2. ASSUME NEW c \in Client, Visit(c) \/ Attach(c) \/ Resync(c) \/ Sync(c) \/ Leave(c)
        PROVE  FALSE
    BY <2>2 DEF Visit, Attach, Resync, Sync, Leave, replyVars
  <2> QED BY <2>1, <2>2 DEF Next
<1> QED BY <1>1, InvariantHolds, PTL DEF Spec, OnlyFirstTokenLate
=============================================================================
