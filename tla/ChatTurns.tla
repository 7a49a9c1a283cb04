------------------------------ MODULE ChatTurns -----------------------------
(***************************************************************************)
(* Chat turns: TurnManager (orchestrator/turns.py), the orchestrator's     *)
(* commands and `_run_chat_turn` (orchestrator/orchestrator.py), and the   *)
(* turn and message tables of CoreStore (store.py).                        *)
(*                                                                         *)
(* An action is what one asyncio task does between two awaits.  A          *)
(* broadcast numbers and records its message at once and may then be       *)
(* suspended by a slow client, so each of them ends an action.  The tasks  *)
(* are: one command handler per session, one task per turn, one scheduler  *)
(* job per turn (the LLM stream, with `on_delta` inside) and one speech    *)
(* worker per turn.                                                        *)
(***************************************************************************)
EXTENDS Naturals

CONSTANTS
    Session,    \* the connected sessions
    MaxTurns,   \* bound on the turns issued
    MaxDeltas,  \* bound on the deltas of one reply
    Voice,      \* TRUE iff a TTS engine is configured
    Faults      \* the faults to expect: {"llm", "tts", "crash"} or fewer

ASSUME TurnAssumption ==
    /\ MaxTurns \in Nat
    /\ MaxDeltas \in Nat
    /\ Voice \in BOOLEAN
    /\ Faults \subseteq {"llm", "tts", "crash"}

Turn == 1..MaxTurns
None == 0       \* no turn; ids start at 1

VARIABLES
    \* The database, which survives a crash.
    counter,    \* kv 'turn_counter'
    row,        \* row[t]: status of the turn's row in `turns`
    said,       \* said[t]: the roles of the turn's rows in `messages`
    \* TurnManager and Orchestrator.
    current,    \* _current
    owner,      \* owner_session of the current turn
    stream,     \* _stream: the turn whose reply stream.sync would send
    \* Tasks.
    cmd,        \* cmd[s]: what the session's command handler awaits
    pc,         \* pc[t]: what the turn's task awaits
    kill,       \* turns whose task has a CancelledError coming
    job,        \* job[t]: the LLM stream of the turn, then its answer to submit()
    jobKill,    \* turns whose job has a CancelledError coming
    parts,      \* parts[t]: deltas of the reply recorded so far
    speech,     \* speech[t]: the speech worker of the turn
    shown,      \* the last `state` broadcast
    astray      \* history: turns cancelled before their task was known, put aside
                \* by another begin(), or left active by a crash

storeVars == <<counter, row, said>>
jobVars   == <<job, jobKill, parts>>
vars == <<counter, row, said, current, owner, stream, cmd, pc, kill, job,
          jobKill, parts, speech, shown, astray>>

Terminal == {"done", "cancelled", "error"}

TypeOK ==
    /\ counter \in 0..MaxTurns
    /\ row \in [Turn -> {"none", "active"} \cup Terminal]
    /\ said \in [Turn -> SUBSET {"user", "assistant"}]
    /\ current \in Turn \cup {None}
    /\ owner \in Session \cup {None}
    /\ stream \in Turn \cup {None}
    /\ cmd \in [Session -> [at : {"idle", "superseding", "starting", "cancelling"},
                            turn : Turn \cup {None}]]
    /\ pc \in [Turn -> {"none", "created", "thinking", "streaming", "closing",
                        "speaking", "hushing", "success", "error", "holding",
                        "unwinding", "ended"}]
    /\ kill \in SUBSET Turn
    /\ job \in [Turn -> {"none", "open", "responding", "token", "ok", "failed",
                         "cancelled"}]
    /\ jobKill \in SUBSET Turn
    /\ parts \in [Turn -> 0..MaxDeltas]
    /\ speech \in [Turn -> {"none", "working", "ended", "failed"}]
    /\ shown \in {"IDLE", "THINKING", "RESPONDING", "SUCCESS", "ERROR"}
    /\ astray \in SUBSET Turn

Idle == [at |-> "idle", turn |-> None]

(* An empty database; startup() has broadcast IDLE.                        *)
Init ==
    /\ counter = 0
    /\ row = [t \in Turn |-> "none"]
    /\ said = [t \in Turn |-> {}]
    /\ current = None
    /\ owner = None
    /\ stream = None
    /\ cmd = [s \in Session |-> Idle]
    /\ pc = [t \in Turn |-> "none"]
    /\ kill = {}
    /\ job = [t \in Turn |-> "none"]
    /\ jobKill = {}
    /\ parts = [t \in Turn |-> 0]
    /\ speech = [t \in Turn |-> "none"]
    /\ shown = "IDLE"
    /\ astray = {}

-----------------------------------------------------------------------------
(* TurnManager.                                                            *)

(* A slip: is_obsolete() by order instead of identity.                     *)
ObsoleteOlder(t) == current > t

LiveJob(t) == job[t] \in {"open", "responding", "token"}

Obsolete(t) == current # t

(* The rest of begin(): a new id, its row, the foreground.  The `turn`     *)
(* event that tells the clients goes out with every change of a row.       *)
Issue(s) ==
    LET new == counter + 1 IN
    /\ counter' = new
    /\ row' = [row EXCEPT ![new] = "active"]
    /\ owner' = s
    /\ current' = new
    /\ astray' = IF current = None THEN astray ELSE astray \cup {current}
    /\ cmd' = [cmd EXCEPT ![s] = [at |-> "starting", turn |-> new]]

(* A slip: cancel() that forgets the turn's task.                          *)
CancelSparesTask(t) ==
    /\ row' = [row EXCEPT ![t] = "cancelled"]
    /\ current' = None
    /\ owner' = None
    /\ UNCHANGED kill
    /\ astray' = IF pc[t] = "none" THEN astray \cup {t} ELSE astray

(* cancel() of the foreground turn up to its await: the turn's task, if it *)
(* was launched, gets a CancelledError.                                    *)
Cancel(t) ==
    /\ row' = [row EXCEPT ![t] = "cancelled"]
    /\ current' = None
    /\ owner' = None
    /\ kill' = IF pc[t] \in {"none", "ended"} THEN kill ELSE kill \cup {t}
    /\ astray' = IF pc[t] = "none" THEN astray \cup {t} ELSE astray

(* _notify_turn after the broadcast of "cancelled": scheduler.cancel_turn. *)
CancelJobs(t) == jobKill' = IF LiveJob(t) THEN jobKill \cup {t} ELSE jobKill

(* A slip: finish() that leaves the turn in the foreground.                *)
FinishLingers(t, status) ==
    IF Obsolete(t)
    THEN UNCHANGED <<row, current, owner>>
    ELSE row' = [row EXCEPT ![t] = status] /\ UNCHANGED <<current, owner>>

(* A slip: finish() that leaves the row alone.                             *)
FinishUnrecorded(t, status) ==
    /\ UNCHANGED row
    /\ current' = IF Obsolete(t) THEN current ELSE None
    /\ owner' = IF Obsolete(t) THEN owner ELSE None

(* A slip: finish() that ignores the status it is given.                   *)
FinishDone(t, status) ==
    IF Obsolete(t)
    THEN UNCHANGED <<row, current, owner>>
    ELSE row' = [row EXCEPT ![t] = "done"] /\ current' = None /\ owner' = None

(* finish(): nothing if the turn is not the foreground any more.           *)
Finish(t, status) ==
    IF Obsolete(t)
    THEN UNCHANGED <<row, current, owner>>
    ELSE /\ row' = [row EXCEPT ![t] = status]
         /\ current' = None
         /\ owner' = None

-----------------------------------------------------------------------------
(* Commands.  A connection handles one command at a time.                  *)

ChatSend(s) ==
    /\ cmd[s].at = "idle"
    /\ counter < MaxTurns
    /\ current = None
    /\ Issue(s)
    /\ UNCHANGED <<said, stream, pc, kill, jobVars, speech, shown>>

(* A message during a turn is a barge-in.                                  *)
ChatSupersedes(s) ==
    /\ cmd[s].at = "idle"
    /\ counter < MaxTurns
    /\ current # None
    /\ Cancel(current)
    /\ cmd' = [cmd EXCEPT ![s] = [at |-> "superseding", turn |-> current]]
    /\ UNCHANGED <<counter, said, stream, pc, jobVars, speech, shown>>

SupersedeDone(s) ==
    /\ cmd[s].at = "superseding"
    /\ counter < MaxTurns
    /\ CancelJobs(cmd[s].turn)
    /\ Issue(s)
    /\ UNCHANGED <<said, stream, pc, kill, job, parts, speech, shown>>

(* begin() returned: the task of the turn is created.                      *)
TurnLaunched(s) ==
    /\ cmd[s].at = "starting"
    /\ pc' = [pc EXCEPT ![cmd[s].turn] = "created"]
    /\ cmd' = [cmd EXCEPT ![s] = Idle]
    /\ UNCHANGED <<storeVars, current, owner, stream, kill, jobVars, speech, shown, astray>>

(* turn.cancel by the owner; any other call changes nothing.               *)
UserCancels(s) ==
    /\ cmd[s].at = "idle"
    /\ current # None
    /\ owner = s
    /\ Cancel(current)
    /\ cmd' = [cmd EXCEPT ![s] = [at |-> "cancelling", turn |-> current]]
    /\ UNCHANGED <<counter, said, stream, pc, jobVars, speech, shown>>

UserCancelDone(s) ==
    /\ cmd[s].at = "cancelling"
    /\ CancelJobs(cmd[s].turn)
    /\ cmd' = [cmd EXCEPT ![s] = Idle]
    /\ UNCHANGED <<storeVars, current, owner, stream, pc, kill, job, parts, speech,
                   shown, astray>>

-----------------------------------------------------------------------------
(* The LLM stream: a scheduler job that runs on_delta.                     *)

(* A delta of the foreground turn; that of an obsolete one is dropped.     *)
Delta(t) ==
    /\ job[t] = "open"
    /\ t \notin jobKill
    /\ parts[t] < MaxDeltas
    /\ ~Obsolete(t)
    /\ IF parts[t] = 0
       THEN job' = [job EXCEPT ![t] = "responding"] /\ shown' = "RESPONDING"
       ELSE job' = [job EXCEPT ![t] = "token"] /\ UNCHANGED shown
    /\ UNCHANGED <<storeVars, current, owner, stream, cmd, pc, kill, jobKill, parts,
                   speech, astray>>

(* RESPONDING went out: the first token follows.                           *)
FirstToken(t) ==
    /\ job[t] = "responding"
    /\ t \notin jobKill
    /\ job' = [job EXCEPT ![t] = "token"]
    /\ UNCHANGED <<storeVars, current, owner, stream, cmd, pc, kill, jobKill, parts,
                   speech, shown, astray>>

(* The token went out: it joins the parts.                                 *)
TokenSent(t) ==
    /\ job[t] = "token"
    /\ t \notin jobKill
    /\ job' = [job EXCEPT ![t] = "open"]
    /\ parts' = [parts EXCEPT ![t] = @ + 1]
    /\ UNCHANGED <<storeVars, current, owner, stream, cmd, pc, kill, jobKill, speech,
                   shown, astray>>

(* The answer reaches the turn that awaits it; nobody else wants it.       *)
Answer(t, what) ==
    job' = [job EXCEPT ![t] = IF pc[t] = "streaming" THEN what ELSE "none"]

JobEnds(t) ==
    /\ job[t] = "open"
    /\ t \notin jobKill
    /\ \/ Answer(t, "ok")
       \/ "llm" \in Faults /\ Answer(t, "failed")
    /\ UNCHANGED <<storeVars, current, owner, stream, cmd, pc, kill, jobKill, parts,
                   speech, shown, astray>>

JobKilled(t) ==
    /\ t \in jobKill
    /\ Answer(t, "cancelled")
    /\ jobKill' = jobKill \ {t}
    /\ UNCHANGED <<storeVars, current, owner, stream, cmd, pc, kill, parts, speech,
                   shown, astray>>

-----------------------------------------------------------------------------
(* The speech worker, as far as the turn sees it.                          *)

Goto(t, place) == pc' = [pc EXCEPT ![t] = place]

(* submit() has answered.                                                  *)
Answered(t) == job' = [job EXCEPT ![t] = IF LiveJob(t) THEN @ ELSE "none"]

SpeechEnds(t) ==
    /\ pc[t] = "speaking"
    /\ speech[t] = "working"
    /\ t \notin kill
    /\ speech' = [speech EXCEPT ![t] = "ended"]
    /\ UNCHANGED <<storeVars, current, owner, stream, cmd, pc, kill, jobVars, shown, astray>>

SpeechFails(t) ==
    /\ "tts" \in Faults
    /\ pc[t] \in {"streaming", "closing", "speaking"}
    /\ speech[t] = "working"
    /\ t \in kill => pc[t] # "speaking"
    /\ speech' = [speech EXCEPT ![t] = "failed"]
    /\ UNCHANGED <<storeVars, current, owner, stream, cmd, pc, kill, jobVars, shown, astray>>

-----------------------------------------------------------------------------
(* The turn's task: _run_chat_turn.                                        *)

Say(t, role) == said' = [said EXCEPT ![t] = @ \cup {role}]

(* The loop is FIFO: the CancelledError of a turn cancelled before this    *)
(* one began arrives before this task's first step, unless it has to pass  *)
(* through the speech worker first.                                        *)
TurnStarts(t) ==
    /\ pc[t] = "created"
    /\ t \notin kill
    /\ \A u \in kill : u < t => pc[u] \in {"speaking", "hushing"}
    /\ Say(t, "user")
    /\ shown' = "THINKING"
    /\ Goto(t, "thinking")
    /\ UNCHANGED <<counter, row, current, owner, stream, cmd, kill, jobVars, speech,
                   astray>>

TurnStreams(t) ==
    /\ pc[t] = "thinking"
    /\ t \notin kill
    /\ speech' = [speech EXCEPT ![t] = IF Voice THEN "working" ELSE "none"]
    /\ stream' = t
    /\ job' = [job EXCEPT ![t] = "open"]
    /\ Goto(t, "streaming")
    /\ UNCHANGED <<storeVars, current, owner, cmd, kill, jobKill, parts, shown, astray>>

(* The stream is over: the done token.                                     *)
TurnCloses(t) ==
    /\ pc[t] = "streaming"
    /\ t \notin kill
    /\ job[t] = "ok"
    /\ Answered(t)
    /\ Goto(t, "closing")
    /\ UNCHANGED <<storeVars, current, owner, stream, cmd, kill, jobKill, parts, speech,
                   shown, astray>>

(* The reply is recorded; a silent turn succeeds, a spoken one goes on.    *)
TurnReplies(t) ==
    /\ pc[t] = "closing"
    /\ t \notin kill
    /\ stream' = None
    /\ Say(t, "assistant")
    /\ IF Voice
       THEN Goto(t, "speaking") /\ UNCHANGED shown
       ELSE Goto(t, "success") /\ shown' = "SUCCESS"
    /\ UNCHANGED <<counter, row, current, owner, cmd, kill, jobVars, speech, astray>>

TurnSpoken(t) ==
    /\ pc[t] = "speaking"
    /\ t \notin kill
    /\ speech[t] = "ended"
    /\ shown' = "SUCCESS"
    /\ Goto(t, "success")
    /\ UNCHANGED <<storeVars, current, owner, stream, cmd, kill, jobVars, speech, astray>>

ShowError(t) ==
    /\ stream' = None
    /\ shown' = "ERROR"
    /\ Goto(t, "error")

(* `except TtsError` shows the error.  Any other failure of the worker is  *)
(* raised a second time by the speech.cancel() of `except Exception`.      *)
TurnMute(t) ==
    /\ pc[t] = "speaking"
    /\ t \notin kill
    /\ speech[t] = "failed"
    /\ \/ ShowError(t)
       \/ Goto(t, "ended") /\ UNCHANGED <<stream, shown>>
    /\ UNCHANGED <<storeVars, current, owner, cmd, kill, jobVars, speech, astray>>

(* A slip: `except LlmError` that raises again once the speech is stopped. *)
TurnHushedEnds(t) ==
    /\ pc[t] = "hushing"
    /\ t \notin kill
    /\ Goto(t, "ended")
    /\ UNCHANGED <<storeVars, current, owner, stream, cmd, kill, jobVars, speech, shown,
                   astray>>

(* `except LlmError`: speech.cancel() first.  It awaits the worker, and    *)
(* raises what a worker that had already failed raises.                    *)
TurnFails(t) ==
    /\ pc[t] = "streaming"
    /\ t \notin kill
    /\ job[t] = "failed"
    /\ Answered(t)
    /\ \/ /\ speech[t] = "none"
          /\ ShowError(t)
       \/ /\ speech[t] = "working"
          /\ Goto(t, "hushing")
          /\ UNCHANGED <<stream, shown>>
       \/ /\ speech[t] = "failed"
          /\ Goto(t, "ended")
          /\ UNCHANGED <<stream, shown>>
    /\ UNCHANGED <<storeVars, current, owner, cmd, kill, jobKill, parts, speech, astray>>

TurnHushed(t) ==
    /\ pc[t] = "hushing"
    /\ t \notin kill
    /\ ShowError(t)
    /\ UNCHANGED <<storeVars, current, owner, cmd, kill, jobVars, speech, astray>>

(* SUCCESS or ERROR went out: turns.finish, then the hold of the state.    *)
TurnFinishes(t) ==
    /\ pc[t] \in {"success", "error"}
    /\ t \notin kill
    /\ Finish(t, IF pc[t] = "success" THEN "done" ELSE "error")
    /\ Goto(t, "holding")
    /\ UNCHANGED <<counter, said, stream, cmd, kill, jobVars, speech, shown, astray>>

(* A slip: _decay_to_idle that waits for its own turn in the foreground.   *)
TurnDecaysOwn(t) ==
    /\ pc[t] = "holding"
    /\ shown' = IF current = t THEN "IDLE" ELSE shown
    /\ Goto(t, "ended")
    /\ UNCHANGED <<storeVars, current, owner, stream, cmd, kill, jobVars, speech, astray>>

(* A slip: _decay_to_idle that also resets the stream.                     *)
TurnDecaysAll(t) ==
    /\ pc[t] = "holding"
    /\ shown' = IF current = None THEN "IDLE" ELSE shown
    /\ stream' = None
    /\ Goto(t, "ended")
    /\ UNCHANGED <<storeVars, current, owner, cmd, kill, jobVars, speech, astray>>

(* _decay_to_idle.                                                         *)
TurnDecays(t) ==
    /\ pc[t] = "holding"
    /\ shown' = IF current = None THEN "IDLE" ELSE shown
    /\ Goto(t, "ended")
    /\ UNCHANGED <<storeVars, current, owner, stream, cmd, kill, jobVars, speech, astray>>

(* The CancelledError arrives, from cancel() or as the answer of a job      *)
(* that cancel_turn killed.  submit() takes its job along; the handler     *)
(* stops the speech, unless its worker failed and speech.cancel() raises,  *)
(* and clears the stream.  A task that has not started, or that is in an   *)
(* error handler, just ends; one that awaits the worker there swallows it. *)
TurnKilled(t) ==
    /\ t \in kill \/ (pc[t] = "streaming" /\ job[t] = "cancelled")
    /\ kill' = kill \ {t}
    /\ IF pc[t] = "streaming" THEN CancelJobs(t) /\ Answered(t) ELSE UNCHANGED <<job, jobKill>>
    /\ \/ /\ pc[t] = "hushing"
          /\ ShowError(t)
       \/ /\ pc[t] \in {"streaming", "closing"}
          /\ speech[t] = "working"
          /\ Goto(t, "unwinding")
          /\ UNCHANGED <<stream, shown>>
       \/ /\ \/ pc[t] \in {"created", "error"}
             \/ pc[t] \in {"streaming", "closing", "speaking"} /\ speech[t] = "failed"
          /\ Goto(t, "ended")
          /\ UNCHANGED <<stream, shown>>
       \/ /\ \/ pc[t] \in {"thinking", "success"}
             \/ pc[t] \in {"streaming", "closing"} /\ speech[t] = "none"
             \/ pc[t] = "speaking" /\ speech[t] # "failed"
          /\ Goto(t, "ended")
          /\ stream' = None
          /\ UNCHANGED shown
    /\ UNCHANGED <<storeVars, current, owner, cmd, parts, speech, astray>>

(* The speech worker is gone.                                              *)
TurnUnwound(t) ==
    /\ pc[t] = "unwinding"
    /\ stream' = None
    /\ Goto(t, "ended")
    /\ UNCHANGED <<storeVars, current, owner, cmd, kill, jobVars, speech, shown, astray>>

-----------------------------------------------------------------------------

(* The process dies and is started again on the same database.             *)
Died ==
    /\ "crash" \in Faults
    /\ current' = None
    /\ owner' = None
    /\ stream' = None
    /\ cmd' = [s \in Session |-> Idle]
    /\ pc' = [t \in Turn |-> "none"]
    /\ kill' = {}
    /\ job' = [t \in Turn |-> "none"]
    /\ jobKill' = {}
    /\ parts' = [t \in Turn |-> 0]
    /\ speech' = [t \in Turn |-> "none"]
    /\ shown' = "IDLE"
    /\ astray' = astray \cup {t \in Turn : row[t] = "active"}

Crash == Died /\ UNCHANGED storeVars

(* A slip: the row is written before the counter.                          *)
HalfIssuedSwapped ==
    /\ row' = [row EXCEPT ![counter + 1] = "active"]
    /\ UNCHANGED counter

(* What is on disk between the two commits of begin().                     *)
HalfIssued == counter' = counter + 1 /\ UNCHANGED row

(* The process dies in begin(), between next_turn_id() and record_turn().  *)
CrashIssuing(s) ==
    /\ cmd[s].at = "superseding" \/ (cmd[s].at = "idle" /\ current = None)
    /\ counter < MaxTurns
    /\ HalfIssued
    /\ Died
    /\ UNCHANGED said

Command(s) ==
    \/ ChatSend(s)
    \/ ChatSupersedes(s)
    \/ UserCancels(s)

Handler(s) == SupersedeDone(s) \/ TurnLaunched(s) \/ UserCancelDone(s)

JobStep(t) == FirstToken(t) \/ TokenSent(t) \/ JobEnds(t) \/ JobKilled(t)

SpeechStep(t) == SpeechEnds(t) \/ SpeechFails(t)

TurnStep(t) ==
    \/ TurnStarts(t)
    \/ TurnStreams(t)
    \/ TurnCloses(t)
    \/ TurnReplies(t)
    \/ TurnSpoken(t)
    \/ TurnMute(t)
    \/ TurnFails(t)
    \/ TurnHushed(t)
    \/ TurnFinishes(t)
    \/ TurnDecays(t)
    \/ TurnKilled(t)
    \/ TurnUnwound(t)

Next ==
    \/ \E s \in Session : Command(s) \/ Handler(s)
    \/ \E t \in Turn : TurnStep(t) \/ Delta(t) \/ JobStep(t) \/ SpeechStep(t)
    \/ Crash
    \/ \E s \in Session : CrashIssuing(s)

Spec == Init /\ [][Next]_vars

(* The event loop runs every ready task; clients read or are dropped; the  *)
(* LLM and TTS clients time out.                                           *)
Fairness ==
    /\ \A s \in Session : WF_vars(Handler(s))
    /\ \A t \in Turn : WF_vars(TurnStep(t)) /\ WF_vars(JobStep(t)) /\ WF_vars(SpeechStep(t))

FairSpec == Spec /\ Fairness

-----------------------------------------------------------------------------
(* What the turns promise.                                                 *)

(* The counter is never behind the rows, whatever commit a crash came      *)
(* before; only the newest turn can be the foreground, and it is active.   *)
ForegroundIsNewest ==
    /\ \A t \in Turn : row[t] # "none" => t <= counter
    /\ current # None => current = counter /\ row[current] = "active"

(* "exactly one foreground": an active turn is the foreground, unless      *)
(* commands that overlapped, or a crash, took it from the TurnManager.     *)
ForegroundUnlessAstray ==
    \A t \in Turn : row[t] = "active" => t = current \/ t \in astray

(* A turn is closed when its task is over, unless it went astray or its    *)
(* voice had failed.                                                       *)
OpenOnlyIfMuted ==
    \A t \in Turn : pc[t] = "ended" /\ row[t] = "active"
                        => t \in astray \/ speech[t] = "failed"

(* A turn done was answered: its reply is in the history, also after a     *)
(* crash.                                                                  *)
DoneMeansAnswered ==
    \A t \in Turn : row[t] = "done" => said[t] = {"user", "assistant"}

(* "a late finish must not resurrect it": an ended turn keeps its status,  *)
(* whatever its task, the other commands and the restarts still do.        *)
TerminalIsFinal ==
    [][\A t \in Turn : row[t] \in Terminal => row'[t] = row[t]]_vars

(* "restarts never reuse ids": a new foreground has an id without a row,   *)
(* above every id that has one, also when an earlier process died between  *)
(* the commit of the counter and that of the row (store.py:76-93).         *)
IdsNeverReused ==
    [][current' \notin {None, current} =>
          \A t \in Turn : row[t] # "none" => t < current']_vars

(* A cancelled turn records nothing and shows neither SUCCESS nor ERROR,   *)
(* except one that went astray, and the ERROR of one that was giving up.   *)
CancelledStaysSilent ==
    [][\A t \in Turn : row[t] = "cancelled" /\ t \notin astray =>
          /\ said'[t] = said[t]
          /\ pc[t] # pc'[t] => pc'[t] # "success"
          /\ pc[t] # pc'[t] /\ pc'[t] = "error" => pc[t] = "hushing"]_vars

(* What a client that reconnects gets back is the reply of the foreground  *)
(* turn for as long as it streams (orchestrator.py:201-202).  It is lost   *)
(* only to the turn itself, whose reply is recorded by then or fails, to   *)
(* the death of the process, or to a task of an older turn: one that dies  *)
(* late after its cancellation, or one that went astray.                   *)
ReplyLostOnlyToStray ==
    [][\A t \in Turn : stream = t /\ t = current /\ stream' # t =>
          \/ /\ pc'[t] # pc[t]
             /\ "assistant" \in said'[t] \/ pc'[t] \in {"error", "none"}
          \/ \E u \in 1..(t - 1) :
                /\ pc'[u] # pc[u]
                /\ u \in astray \/ (row[u] = "cancelled" /\ pc'[u] \in {"ended", "error"})]_vars

(* The inductive invariant.  A command handler knows an issued turn: the   *)
(* one it is about to launch, which is its own, has no task yet, and went  *)
(* astray if it is cancelled already; or the one it has just cancelled.    *)
LaunchesOwn ==
    \A s \in Session : cmd[s].at = "starting" =>
        LET t == cmd[s].turn IN
        /\ t \in Turn
        /\ row[t] \in {"active", "cancelled"}
        /\ pc[t] = "none"
        /\ row[t] = "cancelled" => t \in astray
        /\ \A r \in Session \ {s} : cmd[r].at = "starting" => cmd[r].turn # t

CancelsKnown ==
    \A s \in Session : cmd[s].at \in {"superseding", "cancelling"} =>
        cmd[s].turn \in Turn /\ row[cmd[s].turn] = "cancelled"

(* A turn without a row has no task.                                       *)
TasksIssued == \A t \in Turn : row[t] = "none" => pc[t] = "none"

(* A reply to resend has a task.                                           *)
StreamHasTask == stream # None => pc[stream] # "none"

(* A CancelledError reaches only the task and the job of a cancelled turn. *)
KilledIsCancelled ==
    \A t \in Turn : t \in kill \cup jobKill \/ job[t] = "cancelled" \/ pc[t] = "unwinding"
                      => row[t] = "cancelled"

(* The task of a cancelled turn is being killed, or has nothing to say.    *)
CancelledIsStopped ==
    \A t \in Turn : row[t] = "cancelled" /\ t \notin astray =>
        t \in kill \/ pc[t] \in {"none", "unwinding", "error", "holding", "ended"}

HeldIsClosed ==
    \A t \in Turn : pc[t] = "holding" /\ row[t] = "active" => t \in astray

(* The task of a turn that has finished only waits for the decay.          *)
FinishedIsOver ==
    \A t \in Turn : row[t] \in {"done", "error"} => pc[t] \in {"none", "holding", "ended"}

(* What a task has recorded when it is past a point.                       *)
RecordedSoFar ==
    \A t \in Turn :
        /\ pc[t] \in {"thinking", "streaming", "closing"} => "user" \in said[t]
        /\ pc[t] \in {"speaking", "success"} => said[t] = {"user", "assistant"}

(* A delta is under way only while there is room for it.                   *)
DeltaFits ==
    \A t \in Turn : job[t] \in {"responding", "token"} => parts[t] < MaxDeltas

IInv ==
    /\ TypeOK
    /\ DeltaFits
    /\ ForegroundIsNewest
    /\ ForegroundUnlessAstray
    /\ LaunchesOwn
    /\ CancelsKnown
    /\ TasksIssued
    /\ StreamHasTask
    /\ KilledIsCancelled
    /\ CancelledIsStopped
    /\ HeldIsClosed
    /\ FinishedIsOver
    /\ RecordedSoFar
    /\ OpenOnlyIfMuted
    /\ DoneMeansAnswered

(* Every turn comes to an end: it is done, in error or cancelled.          *)
EveryTurnEnds ==
    \A t \in Turn : row[t] = "active" ~> row[t] \in Terminal

(* "SUCCESS/ERROR are transient": after a turn has finished the state      *)
(* decays to IDLE, unless a newer turn takes over.                         *)
FinishedDecays ==
    \A t \in Turn : pc[t] = "holding" ~> shown = "IDLE" \/ t # counter

-----------------------------------------------------------------------------
(* What a comment of the code promises and the code does not keep.         *)

(* turns.py: "there is exactly one foreground".                            *)
OneForeground == \A t \in Turn : row[t] = "active" => t = current
=============================================================================
