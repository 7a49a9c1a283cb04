-------------------------- MODULE ChatTurnsProofs ---------------------------
(***************************************************************************)
(* Proofs about ChatTurns, for any number of sessions, turns and deltas,   *)
(* with or without a voice, whatever fails.                                *)
(***************************************************************************)
EXTENDS ChatTurns, TLAPS

(* Turn ids start at 1.                                                    *)
LEMMA NoneIsNoTurn == None \notin Turn
BY TurnAssumption DEF None, Turn

(* An empty database, no task, no foreground.                              *)
LEMMA InitEstablishes == Init => IInv
BY TurnAssumption
   DEF Init, IInv, TypeOK, DeltaFits, ForegroundIsNewest, ForegroundUnlessAstray,
       LaunchesOwn, CancelsKnown, TasksIssued, StreamHasTask, KilledIsCancelled,
       CancelledIsStopped, HeldIsClosed, FinishedIsOver, RecordedSoFar, OpenOnlyIfMuted, DoneMeansAnswered,
       Turn, None, Terminal, Idle

(* Every step keeps the invariant; one step of the proof per action.       *)
LEMMA StepKeeps == IInv /\ [Next]_vars => IInv'
<1> SUFFICES ASSUME IInv, [Next]_vars PROVE IInv'
  OBVIOUS
<1> USE TurnAssumption
    DEF IInv, TypeOK, DeltaFits, ForegroundIsNewest, ForegroundUnlessAstray,
        LaunchesOwn, CancelsKnown, TasksIssued, StreamHasTask, KilledIsCancelled,
        CancelledIsStopped, HeldIsClosed, FinishedIsOver, RecordedSoFar,
        OpenOnlyIfMuted, DoneMeansAnswered, storeVars, jobVars, Terminal, None
(* Commands: only a free foreground is taken without a cancellation.       *)
<1>1. ASSUME NEW s \in Session, ChatSend(s)
      PROVE  IInv'
  <2> counter + 1 \in Turn
    BY <1>1 DEF ChatSend, Turn
  <2>1. TypeOK' /\ DeltaFits'
    BY <1>1 DEF ChatSend, Issue, Turn
  <2>2. ForegroundIsNewest' /\ LaunchesOwn' /\ CancelsKnown' /\ TasksIssued' /\ StreamHasTask'
    BY <1>1 DEF ChatSend, Issue, Turn
  <2>3. ForegroundUnlessAstray' /\ HeldIsClosed' /\ FinishedIsOver'
    BY <1>1 DEF ChatSend, Issue, Turn
  <2>4. /\ KilledIsCancelled' /\ CancelledIsStopped' /\ RecordedSoFar'
        /\ OpenOnlyIfMuted' /\ DoneMeansAnswered'
    BY <1>1 DEF ChatSend, Issue, Turn
  <2> QED BY <2>1, <2>2, <2>3, <2>4
<1>2. ASSUME NEW s \in Session, ChatSupersedes(s)
      PROVE  IInv'
  BY <1>2 DEF ChatSupersedes, Cancel
<1>3. ASSUME NEW s \in Session, SupersedeDone(s)
      PROVE  IInv'
  <2> counter + 1 \in Turn
    BY <1>3 DEF SupersedeDone, Turn
  <2>1. TypeOK' /\ DeltaFits'
    <3>1. counter' \in 0..MaxTurns
      BY <1>3 DEF SupersedeDone, Issue
    <3>2. jobKill' \in SUBSET Turn /\ UNCHANGED <<job, parts>>
      BY <1>3 DEF SupersedeDone, CancelJobs, LiveJob, CancelsKnown
    <3> QED BY <1>3, <3>1, <3>2 DEF SupersedeDone, Issue
  <2>2. ForegroundIsNewest' /\ LaunchesOwn' /\ CancelsKnown' /\ TasksIssued' /\ StreamHasTask'
    BY <1>3 DEF SupersedeDone, CancelJobs, LiveJob, Issue, Turn
  <2>3. ForegroundUnlessAstray'
    BY <1>3 DEF SupersedeDone, Issue, Turn
  <2>4. /\ KilledIsCancelled' /\ CancelledIsStopped' /\ HeldIsClosed' /\ FinishedIsOver'
        /\ RecordedSoFar' /\ OpenOnlyIfMuted' /\ DoneMeansAnswered'
    BY <1>3 DEF SupersedeDone, CancelJobs, LiveJob, Issue, Turn
  <2> QED BY <2>1, <2>2, <2>3, <2>4
<1>4. ASSUME NEW s \in Session, TurnLaunched(s)
      PROVE  IInv'
  BY <1>4 DEF TurnLaunched, Idle
<1>5. ASSUME NEW s \in Session, UserCancels(s)
      PROVE  IInv'
  BY <1>5 DEF UserCancels, Cancel
<1>6. ASSUME NEW s \in Session, UserCancelDone(s)
      PROVE  IInv'
  BY <1>6 DEF UserCancelDone, CancelJobs, LiveJob, Idle
(* The stream and the speech worker: they answer their turn.               *)
<1>7. ASSUME NEW t \in Turn, Delta(t)
      PROVE  IInv'
  BY <1>7 DEF Delta, Obsolete
<1>8. ASSUME NEW t \in Turn, FirstToken(t)
      PROVE  IInv'
  BY <1>8 DEF FirstToken
<1>9. ASSUME NEW t \in Turn, TokenSent(t)
      PROVE  IInv'
  BY <1>9 DEF TokenSent
<1>10. ASSUME NEW t \in Turn, JobEnds(t)
      PROVE  IInv'
  BY <1>10 DEF JobEnds, Answer
<1>11. ASSUME NEW t \in Turn, JobKilled(t)
      PROVE  IInv'
  BY <1>11 DEF JobKilled, Answer
<1>12. ASSUME NEW t \in Turn, SpeechEnds(t)
      PROVE  IInv'
  BY <1>12 DEF SpeechEnds
<1>13. ASSUME NEW t \in Turn, SpeechFails(t)
      PROVE  IInv'
  BY <1>13 DEF SpeechFails
(* The task of the turn: what it has recorded, and that it closes the turn.*)
<1>14. ASSUME NEW t \in Turn, TurnStarts(t)
      PROVE  IInv'
  BY <1>14 DEF TurnStarts, Say, Goto
<1>15. ASSUME NEW t \in Turn, TurnStreams(t)
      PROVE  IInv'
  BY <1>15 DEF TurnStreams, Goto
<1>16. ASSUME NEW t \in Turn, TurnCloses(t)
      PROVE  IInv'
  BY <1>16 DEF TurnCloses, Answered, LiveJob, Goto
<1>17. ASSUME NEW t \in Turn, TurnReplies(t)
      PROVE  IInv'
  BY <1>17 DEF TurnReplies, Say, Goto
<1>18. ASSUME NEW t \in Turn, TurnSpoken(t)
      PROVE  IInv'
  BY <1>18 DEF TurnSpoken, Goto
<1>19. ASSUME NEW t \in Turn, TurnMute(t)
      PROVE  IInv'
  BY <1>19 DEF TurnMute, ShowError, Goto
<1>20. ASSUME NEW t \in Turn, TurnFails(t)
      PROVE  IInv'
  BY <1>20 DEF TurnFails, Answered, LiveJob, ShowError, Goto
<1>21. ASSUME NEW t \in Turn, TurnHushed(t)
      PROVE  IInv'
  BY <1>21 DEF TurnHushed, ShowError, Goto
<1>22. ASSUME NEW t \in Turn, TurnFinishes(t)
      PROVE  IInv'
  <2>1. \A u \in Turn : row[u] = "cancelled" => row'[u] = "cancelled"
    BY <1>22, NoneIsNoTurn DEF TurnFinishes, Finish, Obsolete
  <2>2. CancelsKnown' /\ KilledIsCancelled'
    BY <1>22, <2>1 DEF TurnFinishes, Goto
  <2>3. TypeOK' /\ DeltaFits' /\ ForegroundIsNewest' /\ ForegroundUnlessAstray'
    BY <1>22, NoneIsNoTurn DEF TurnFinishes, Finish, Obsolete, Goto
  <2>4. /\ LaunchesOwn' /\ TasksIssued' /\ StreamHasTask' /\ CancelledIsStopped' /\ HeldIsClosed'
        /\ FinishedIsOver'
        /\ RecordedSoFar' /\ OpenOnlyIfMuted' /\ DoneMeansAnswered'
    BY <1>22 DEF TurnFinishes, Finish, Obsolete, Goto
  <2> QED BY <2>1, <2>2, <2>3, <2>4
<1>23. ASSUME NEW t \in Turn, TurnDecays(t)
      PROVE  IInv'
  BY <1>23 DEF TurnDecays, Goto
<1>24. ASSUME NEW t \in Turn, TurnKilled(t)
      PROVE  IInv'
  BY <1>24 DEF TurnKilled, CancelJobs, LiveJob, Answered, ShowError, Goto
<1>25. ASSUME NEW t \in Turn, TurnUnwound(t)
      PROVE  IInv'
  BY <1>25 DEF TurnUnwound, Goto
(* A restart finds the rows; the active ones are nobody's.                 *)
<1>26. ASSUME Crash PROVE IInv'
  BY <1>26 DEF Crash, Died, Idle
<1>27. ASSUME UNCHANGED vars PROVE IInv'
  BY <1>27 DEF vars
(* A crash between the commits leaves an id without a row.                 *)
<1>28. ASSUME NEW s \in Session, CrashIssuing(s)
       PROVE  IInv'
  <2>1. counter' \in 0..MaxTurns /\ counter' > counter
    BY <1>28 DEF CrashIssuing, HalfIssued
  <2>2. TypeOK' /\ DeltaFits' /\ ForegroundUnlessAstray'
    BY <1>28, <2>1 DEF CrashIssuing, HalfIssued, Died, Idle
  <2>3. ForegroundIsNewest'
    BY <1>28, <2>1 DEF CrashIssuing, HalfIssued, Died, Turn
  <2>4. /\ LaunchesOwn' /\ CancelsKnown' /\ TasksIssued' /\ StreamHasTask' /\ KilledIsCancelled'
        /\ CancelledIsStopped' /\ HeldIsClosed' /\ FinishedIsOver'
        /\ RecordedSoFar' /\ OpenOnlyIfMuted' /\ DoneMeansAnswered'
    BY <1>28 DEF CrashIssuing, HalfIssued, Died, Idle
  <2> QED BY <2>2, <2>3, <2>4
<1> QED
  BY <1>1, <1>2, <1>3, <1>4, <1>5, <1>6, <1>7, <1>8, <1>9, <1>10, <1>11,
     <1>12, <1>13, <1>14, <1>15, <1>16, <1>17, <1>18, <1>19, <1>20, <1>21,
     <1>22, <1>23, <1>24, <1>25, <1>26, <1>27, <1>28
     DEF Next, Command, Handler, JobStep, SpeechStep, TurnStep

(* The invariant of the chat turns.                                        *)
THEOREM InvariantHolds == Spec => []IInv
BY InitEstablishes, StepKeeps, PTL DEF Spec

(* "exactly one foreground": an active turn is the foreground, or commands *)
(* that overlapped, or a crash, took it from the TurnManager.              *)
THEOREM ForegroundUnlessAstrayHolds == Spec => []ForegroundUnlessAstray
<1>1. IInv => ForegroundUnlessAstray
  BY DEF IInv
<1> QED BY <1>1, InvariantHolds, PTL

(* _run_chat_turn leaves its turn open only if the voice had failed.       *)
THEOREM OpenOnlyIfMutedHolds == Spec => []OpenOnlyIfMuted
<1>1. IInv => OpenOnlyIfMuted
  BY DEF IInv
<1> QED BY <1>1, InvariantHolds, PTL

(* A turn the database calls done has its reply in the history.            *)
THEOREM DoneMeansAnsweredHolds == Spec => []DoneMeansAnswered
<1>1. IInv => DoneMeansAnswered
  BY DEF IInv
<1> QED BY <1>1, InvariantHolds, PTL

-----------------------------------------------------------------------------
(* finish() and cancel() touch the row of the foreground only, begin() a   *)
(* row that does not exist yet.                                            *)
LEMMA RowsEndOnce ==
    ASSUME IInv, [Next]_vars
    PROVE  \A t \in Turn : row[t] \in Terminal => row'[t] = row[t]
<1> USE DEF IInv, TypeOK, ForegroundIsNewest, storeVars, Terminal, None
<1>1. ASSUME NEW s \in Session, ChatSend(s) \/ SupersedeDone(s)
      PROVE  \A t \in Turn : row[t] \in Terminal => row'[t] = row[t]
  BY <1>1, TurnAssumption DEF ChatSend, SupersedeDone, Issue, Turn
<1>2. ASSUME NEW s \in Session, ChatSupersedes(s) \/ UserCancels(s)
      PROVE  \A t \in Turn : row[t] \in Terminal => row'[t] = row[t]
  BY <1>2 DEF ChatSupersedes, UserCancels, Cancel
<1>3. ASSUME NEW u \in Turn, TurnFinishes(u)
      PROVE  \A t \in Turn : row[t] \in Terminal => row'[t] = row[t]
  BY <1>3, NoneIsNoTurn DEF TurnFinishes, Finish, Obsolete
<1>4. ASSUME NEW s \in Session, TurnLaunched(s) \/ UserCancelDone(s)
      PROVE  UNCHANGED row
  BY <1>4 DEF TurnLaunched, UserCancelDone
<1>5. ASSUME NEW u \in Turn, Delta(u) \/ JobStep(u) \/ SpeechStep(u)
      PROVE  UNCHANGED row
  BY <1>5 DEF Delta, JobStep, FirstToken, TokenSent, JobEnds, JobKilled,
              SpeechStep, SpeechEnds, SpeechFails
<1>6. ASSUME NEW u \in Turn, TurnStep(u), ~TurnFinishes(u)
      PROVE  UNCHANGED row
  BY <1>6 DEF TurnStep, TurnStarts, TurnStreams, TurnCloses, TurnReplies, TurnSpoken,
              TurnMute, TurnFails, TurnHushed, TurnDecays, TurnKilled, TurnUnwound
<1>7. ASSUME Crash \/ (\E s \in Session : CrashIssuing(s)) \/ UNCHANGED vars
      PROVE  UNCHANGED row
  BY <1>7 DEF Crash, CrashIssuing, HalfIssued, vars
<1> QED
  BY <1>1, <1>2, <1>3, <1>4, <1>5, <1>6, <1>7 DEF Next, Command, Handler

(* "a late finish must not resurrect it": an ended turn keeps its status.  *)
THEOREM TerminalIsFinalHolds == Spec => TerminalIsFinal
<1>1. IInv /\ [Next]_vars => [\A t \in Turn : row[t] \in Terminal => row'[t] = row[t]]_vars
  BY RowsEndOnce
<1> QED BY <1>1, InvariantHolds, PTL DEF Spec, TerminalIsFinal

(* Only begin() changes the foreground to a turn, and next_turn_id() gives *)
(* an id above those of all rows, also after a restart.                    *)
LEMMA ForegroundIsFresh ==
    ASSUME IInv, [Next]_vars, current' \notin {None, current}
    PROVE  \A t \in Turn : row[t] # "none" => t < current'
<1> USE DEF IInv, TypeOK, ForegroundIsNewest, None
<1>1. ASSUME NEW s \in Session, ChatSend(s) \/ SupersedeDone(s)
      PROVE  \A t \in Turn : row[t] # "none" => t < current'
  BY <1>1, TurnAssumption DEF ChatSend, SupersedeDone, Issue, Turn
<1>2. ASSUME NEW s \in Session, ChatSupersedes(s) \/ UserCancels(s)
      PROVE  current' = None
  BY <1>2 DEF ChatSupersedes, UserCancels, Cancel
<1>3. ASSUME NEW u \in Turn, TurnFinishes(u)
      PROVE  current' \in {None, current}
  BY <1>3 DEF TurnFinishes, Finish, Obsolete
<1>4. ASSUME NEW s \in Session, TurnLaunched(s) \/ UserCancelDone(s)
      PROVE  UNCHANGED current
  BY <1>4 DEF TurnLaunched, UserCancelDone
<1>5. ASSUME NEW u \in Turn, Delta(u) \/ JobStep(u) \/ SpeechStep(u)
      PROVE  UNCHANGED current
  BY <1>5 DEF Delta, JobStep, FirstToken, TokenSent, JobEnds, JobKilled,
              SpeechStep, SpeechEnds, SpeechFails
<1>6. ASSUME NEW u \in Turn, TurnStep(u), ~TurnFinishes(u)
      PROVE  UNCHANGED current
  BY <1>6 DEF TurnStep, TurnStarts, TurnStreams, TurnCloses, TurnReplies, TurnSpoken,
              TurnMute, TurnFails, TurnHushed, TurnDecays, TurnKilled, TurnUnwound
<1>7. ASSUME Crash \/ (\E s \in Session : CrashIssuing(s)) \/ UNCHANGED vars
      PROVE  current' \in {None, current}
  BY <1>7 DEF Crash, CrashIssuing, Died, vars
<1> QED
  BY <1>1, <1>2, <1>3, <1>4, <1>5, <1>6, <1>7 DEF Next, Command, Handler

(* "restarts never reuse ids", though a process may have died between the  *)
(* commit of the counter and that of the row.                              *)
THEOREM IdsNeverReusedHolds == Spec => IdsNeverReused
<1>1. IInv /\ [Next]_vars =>
        [current' \notin {None, current} =>
            \A t \in Turn : row[t] # "none" => t < current']_vars
  BY ForegroundIsFresh
<1> QED BY <1>1, InvariantHolds, PTL DEF Spec, IdsNeverReused

(* The task of a cancelled turn is on its way out, so it records nothing.  *)
LEMMA CancelledIsSilent ==
    ASSUME IInv, [Next]_vars, NEW t \in Turn, row[t] = "cancelled", t \notin astray
    PROVE  /\ said'[t] = said[t]
           /\ pc[t] # pc'[t] => pc'[t] # "success"
           /\ pc[t] # pc'[t] /\ pc'[t] = "error" => pc[t] = "hushing"
<1> USE DEF IInv, TypeOK, CancelledIsStopped, LaunchesOwn, storeVars, jobVars
<1>1. ASSUME NEW s \in Session, Command(s) \/ Handler(s), ~TurnLaunched(s)
      PROVE  UNCHANGED <<said, pc>>
  BY <1>1 DEF Command, Handler, ChatSend, ChatSupersedes, SupersedeDone, UserCancels,
              UserCancelDone
<1>2. ASSUME NEW s \in Session, TurnLaunched(s)
      PROVE  UNCHANGED said /\ pc'[t] \in {pc[t], "created"}
  BY <1>2 DEF TurnLaunched
<1>3. ASSUME NEW u \in Turn, Delta(u) \/ JobStep(u) \/ SpeechStep(u)
      PROVE  UNCHANGED <<said, pc>>
  BY <1>3 DEF Delta, JobStep, FirstToken, TokenSent, JobEnds, JobKilled,
              SpeechStep, SpeechEnds, SpeechFails
<1>4. ASSUME NEW u \in Turn, TurnStep(u), u # t
      PROVE  said'[t] = said[t] /\ pc'[t] = pc[t]
  BY <1>4 DEF TurnStep, TurnStarts, TurnStreams, TurnCloses, TurnReplies, TurnSpoken,
              TurnMute, TurnFails, TurnHushed, TurnFinishes, TurnDecays, TurnKilled,
              TurnUnwound, Say, Goto, ShowError
<1>5. ASSUME TurnStep(t), t \in kill
      PROVE  /\ said'[t] = said[t]
             /\ \/ pc'[t] \in {"unwinding", "ended"}
                \/ pc[t] = "hushing" /\ pc'[t] = "error"
  <2>1. TurnDecays(t) \/ TurnKilled(t) \/ TurnUnwound(t)
    BY <1>5 DEF TurnStep, TurnStarts, TurnStreams, TurnCloses, TurnReplies, TurnSpoken,
                TurnMute, TurnFails, TurnHushed, TurnFinishes
  <2>2. CASE TurnDecays(t) \/ TurnUnwound(t)
    BY <2>2 DEF TurnDecays, TurnUnwound, Goto
  <2>3. CASE TurnKilled(t)
    BY <2>3 DEF TurnKilled, Goto, ShowError
  <2> QED BY <2>1, <2>2, <2>3
<1>6. ASSUME TurnStep(t), t \notin kill
      PROVE  said'[t] = said[t] /\ pc'[t] \in {"holding", "ended"}
  BY <1>6 DEF TurnStep, TurnStarts, TurnStreams, TurnCloses, TurnReplies, TurnSpoken,
              TurnMute, TurnFails, TurnHushed, TurnFinishes, TurnDecays, TurnKilled,
              TurnUnwound, Goto
<1>7. ASSUME Crash \/ (\E s \in Session : CrashIssuing(s)) \/ UNCHANGED vars
      PROVE  UNCHANGED said /\ pc'[t] \in {pc[t], "none"}
  BY <1>7 DEF Crash, CrashIssuing, Died, vars
<1> QED
  BY <1>1, <1>2, <1>3, <1>4, <1>5, <1>6, <1>7 DEF Next

(* What a barge-in cancels stays silent, unless it went astray.            *)
THEOREM CancelledStaysSilentHolds == Spec => CancelledStaysSilent
<1>1. IInv /\ [Next]_vars =>
      [\A t \in Turn : row[t] = "cancelled" /\ t \notin astray =>
          /\ said'[t] = said[t]
          /\ pc[t] # pc'[t] => pc'[t] # "success"
          /\ pc[t] # pc'[t] /\ pc'[t] = "error" => pc[t] = "hushing"]_vars
  BY CancelledIsSilent
<1> QED BY <1>1, InvariantHolds, PTL DEF Spec, CancelledStaysSilent

-----------------------------------------------------------------------------
(* `_stream` is written by a turn's task only, and by whoever gives up.    *)
LEMMA StreamIsTaken ==
    ASSUME IInv, [Next]_vars, NEW t \in Turn,
           stream = t, t = current, stream' # t
    PROVE  \/ /\ pc'[t] # pc[t]
              /\ "assistant" \in said'[t] \/ pc'[t] \in {"error", "none"}
           \/ \E u \in 1..(t - 1) :
                 /\ pc'[u] # pc[u]
                 /\ u \in astray \/ (row[u] = "cancelled" /\ pc'[u] \in {"ended", "error"})
<1> USE DEF IInv, TypeOK
<1>1. ASSUME NEW s \in Session, Command(s) \/ Handler(s) PROVE FALSE
  BY <1>1 DEF Command, Handler, ChatSend, ChatSupersedes, SupersedeDone, UserCancels,
              UserCancelDone, TurnLaunched
<1>2. ASSUME NEW u \in Turn, Delta(u) \/ JobStep(u) \/ SpeechStep(u) PROVE FALSE
  BY <1>2 DEF Delta, JobStep, FirstToken, TokenSent, JobEnds, JobKilled,
              SpeechStep, SpeechEnds, SpeechFails
<1>3. ASSUME UNCHANGED vars PROVE FALSE
  BY <1>3 DEF vars
(* The turn is active, so its task was not cancelled; it clears the stream *)
(* when the reply is recorded, or with an error.                           *)
<1>4. ASSUME TurnStep(t)
      PROVE  pc'[t] # pc[t] /\ ("assistant" \in said'[t] \/ pc'[t] = "error")
  <2>1. row[t] = "active"
    BY NoneIsNoTurn DEF ForegroundIsNewest
  <2>2. ~TurnKilled(t) /\ ~TurnUnwound(t)
    BY <2>1 DEF TurnKilled, TurnUnwound, KilledIsCancelled
  <2>3. \/ TurnReplies(t)
        \/ pc[t] # "error" /\ pc'[t] = "error"
    BY <1>4, <2>2 DEF TurnStep, TurnStarts, TurnStreams, TurnCloses, TurnSpoken,
         TurnMute, TurnFails, TurnHushed, TurnFinishes, TurnDecays, Goto, ShowError
  <2>4. TurnReplies(t) => pc'[t] # pc[t] /\ "assistant" \in said'[t]
    BY DEF TurnReplies, Say, Goto
  <2> QED BY <2>3, <2>4
(* A process that dies takes the task along.                               *)
<1>5. ASSUME Crash \/ \E s \in Session : CrashIssuing(s)
      PROVE  pc'[t] # pc[t] /\ pc'[t] = "none"
  BY <1>5, NoneIsNoTurn DEF Crash, CrashIssuing, Died, StreamHasTask
(* Another turn's task is that of a turn which is cancelled or astray.     *)
<1>6. ASSUME NEW u \in Turn, TurnStep(u), u # t
      PROVE  /\ u \in 1..(t - 1)
             /\ pc'[u] # pc[u]
             /\ u \in astray \/ (row[u] = "cancelled" /\ pc'[u] \in {"ended", "error"})
  <2>1. pc'[u] # pc[u] /\ pc[u] \notin {"none", "holding", "ended"}
    BY <1>6 DEF TurnStep, TurnStarts, TurnStreams, TurnCloses, TurnReplies, TurnSpoken,
                TurnMute, TurnFails, TurnHushed, TurnFinishes, TurnDecays, TurnKilled,
                TurnUnwound, Goto, ShowError
  <2>2. u \in astray \/ row[u] = "cancelled"
    BY <1>6, <2>1 DEF ForegroundUnlessAstray, FinishedIsOver, TasksIssued, Terminal
  <2>3. ASSUME row[u] = "cancelled", u \notin astray
        PROVE  pc'[u] \in {"ended", "error"}
    <3>1. u \in kill \/ pc[u] \in {"unwinding", "error"}
      BY <2>1, <2>3 DEF CancelledIsStopped
    <3>2. TurnKilled(u) \/ TurnUnwound(u)
      BY <1>6, <2>1, <3>1
         DEF TurnStep, TurnStarts, TurnStreams, TurnCloses, TurnReplies, TurnSpoken,
             TurnMute, TurnFails, TurnHushed, TurnFinishes, TurnDecays
    <3> QED BY <3>2 DEF TurnKilled, TurnUnwound, Goto, ShowError
  <2>4. u \in 1..(t - 1)
    <3>1. row[u] # "none"
      BY <2>1 DEF TasksIssued
    <3>2. u \in Nat /\ t \in Nat /\ u >= 1
      BY TurnAssumption DEF Turn
    <3>3. u <= counter /\ t = counter
      BY <3>1, NoneIsNoTurn DEF ForegroundIsNewest
    <3> QED BY <1>6, <3>2, <3>3
  <2> QED BY <2>1, <2>2, <2>3, <2>4
<1> QED
  BY <1>1, <1>2, <1>3, <1>4, <1>5, <1>6 DEF Next

(* A foreground turn loses the place from which its reply is resent only   *)
(* when the reply is recorded, fails or dies with the process, or to the   *)
(* task of an older turn that was cancelled or went astray.                *)
THEOREM ReplyLostOnlyToStrayHolds == Spec => ReplyLostOnlyToStray
<1>1. IInv /\ [Next]_vars =>
      [\A t \in Turn : stream = t /\ t = current /\ stream' # t =>
          \/ /\ pc'[t] # pc[t]
             /\ "assistant" \in said'[t] \/ pc'[t] \in {"error", "none"}
          \/ \E u \in 1..(t - 1) :
                /\ pc'[u] # pc[u]
                /\ u \in astray \/ (row[u] = "cancelled" /\ pc'[u] \in {"ended", "error"})]_vars
  BY StreamIsTaken
<1> QED BY <1>1, InvariantHolds, PTL DEF Spec, ReplyLostOnlyToStray
=============================================================================
