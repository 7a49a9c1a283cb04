# Verification of ghost-runner-core

ghost-runner-core is a Python asyncio process that gives a desktop "ghost" its
conversation: clients connect over websockets, send chat commands, and receive
state changes, turns, streamed tokens and speech. This directory holds TLA+
models of its concurrent parts, the TLC configurations that check them on small
instances, and proofs that TLAPS checks for every instance.

Paths below are relative to `src/src/ghost_runner_core/` unless they start with
`tests/`. `PROJECT.json` maps every definition to the lines it stands for and
lists runs, mutants, findings, hazards and theorems.

## 1. The system

The process has one event loop and no threads of its own. Every interleaving
happens at an `await`; between two awaits a task runs alone. That fixes the grain
of the models: **one action is what one task does between two awaits**.

| Component | State | Operations | Talks to |
|---|---|---|---|
| `llm/scheduler.py` LlmScheduler | queue, running jobs, preempting set, wake-up event, worker task, futures | submit, cancel_turn, dispatch, preempt, execute, start/stop, death of the worker | one task per job; the turns submit and cancel |
| `orchestrator/turns.py` TurnManager | the foreground turn | begin (supersedes), cancel, finish | CoreStore (rows), listeners (`turn` event, scheduler) |
| `orchestrator/orchestrator.py` Orchestrator | active stream, commands, state shown | chat.send, turn.cancel, stream.sync, asr.transcribe, skill.*, `_run_chat_turn`, decay to IDLE | everything |
| `store.py` CoreStore | sqlite: turn counter, turns, messages | next_turn_id, record_turn, finish_turn, append_message, recent_messages, kv_get/kv_set | the only state that survives a restart |
| `server/session.py` SessionManager, ReplayLog | sessions, resume keys, seq, log of durable notifications, state snapshot | create, resume, detach, drop, broadcast, broadcast_binary, send_to, tail | sockets of the clients |
| `server/ws_server.py` WsServer | a handler per connection | auth, handshake, attach, serve, dispatch | SessionManager, Orchestrator |
| `voice/tts_pipeline.py` TurnSpeech | sentence queue, worker, audio stream | feed, finish, wait, cancel | TTS client, broadcast_binary |
| `voice/chunker.py` SentenceChunker | text buffer | feed, flush | TurnSpeech |
| `tts/*.py`, `asr/client.py`, `llm/client.py` | a lock, an HTTP client | synthesize, transcribe, stream_chat | external servers |
| `skills/library.py`, `skills/sandbox.py` | files; a child process per run | load, list, get, verify_hash; run_skill with time-out, output cap and kill | bubblewrap |
| `envelope.py`, `binframe.py`, `config.py`, `main.py` | none, or once at start | encode/decode, parse, wire up, shut down | |

### What is hard in it

* **Cancellation.** A preempted job, a superseded turn, a stopped scheduler and a
  cancelled submitter are all `task.cancel()`. Handlers must tell them apart, and
  a task cancelled before its first step runs no handler at all.
* **State read before an await and used after it**: `TurnManager.begin`, the
  `_stream` of the orchestrator and its parts, `session.ws` during an attach or a
  broadcast, the detach at the end of a connection, the obsolescence of a turn.
* **Order of delivery**: live broadcasts overtake a replay tail; snapshots carry
  fresh seqs that no log contains.
* **Limits**: slots and reservation, the replay log's size and age, resume keys
  that expire.
* **Failure in the middle**: a worker that dies with jobs queued, a speech worker
  that fails before the LLM does, a process that dies in the middle of a turn, a
  sandbox that is killed with its pipes full.
* **Locks and time-outs**: a generator suspended inside the TTS client's lock when
  its consumer is cancelled; time-outs that count per operation, or start inside a
  lock; commands awaited in the loop that answers the pings.
* **Cuts**: sentences cut from tokens that end anywhere, samples from chunks of odd
  length, a header from a response that may stop anywhere.
* **Liveness**: every chat is answered, every turn and every speech ends, every
  command is answered, SUCCESS and ERROR decay.

The properties that make each component correct are listed with its module
below. `PROJECT.json` has every hazard at its line.

## 2. Modules

| Module | Models | Theorems |
|---|---|---|
| `AdmissionControl` | abstract: jobs wait for, get, give back and lose slots | here |
| `LlmScheduler` | `llm/scheduler.py`, the whole class | `LlmSchedulerProofs` |
| `ChatTurns` | TurnManager, chat commands, `_run_chat_turn`, turn and message tables, crashes | `ChatTurnsProofs` |
| `Sessions` | SessionManager, ReplayLog, attach and end of connections, sockets, clients | `SessionsProofs` |
| `TokenStream` | `on_delta`, the broadcast of tokens, snapshots and `stream.sync` | `TokenStreamProofs` |
| `AudioStream` | abstract: what a client may rely on in a binary audio stream | |
| `SentenceChunker`, `WavHeader` | `voice/chunker.py` and the WAV parser of `tts/client.py`, as operators | `VoiceProofs` |
| `TurnSpeech` | format probe, `voice/tts_pipeline.py`, `synth_stream` of both TTS clients; composes the two above | `TurnSpeechProofs` |
| `SkillRun` | `skills/library.py`, `run_skill` of `skills/sandbox.py`, the process in the sandbox | with `Commands` |
| `Commands` | the receive loop of `server/ws_server.py`, `asr/client.py`, `asr.transcribe`, `skill.*`; extends `SkillRun` | `CommandsProofs` |
| `MCLlmScheduler`, `MCChatTurns`, `MCSessions`, `MCTokenStream`, `MCTurnSpeech`, `MCCommands` | constants for TLC | |

`LlmScheduler` implements `AdmissionControl` (`ImplementsAdmission`) and
`TurnSpeech` implements `AudioStream` (`ImplementsAudioStream`): both are
`INSTANCE` refinements that are checked and proved. `Commands` runs one
`SkillRun`; `TurnSpeech` calls `Feed`, `Flush` and `FindPcmStart`. The rest is
joined by contracts rather than by composition: a turn of `ChatTurns` owns one LLM
job whose steps are *streams a delta, ends, fails, is cancelled*, which is what
`LlmScheduler` offers a submitter, and one speech worker that *ends or fails*,
which is what `TurnSpeech` offers; the broadcasts of `ChatTurns` end an action,
`Sessions` says what a durable broadcast does, and `TokenStream` what one of a
token does.

Definitions whose comment starts with "A slip" are not part of the
specification. Each is the form a definition would have after a plausible
mistake; `PROJECT.json` pairs it with the property that notices.

### LlmScheduler

A value of `Job` is a submitter and the `Job` object of its latest submission, so
submissions go on for ever without an unbounded set of jobs. `queue`, `running`,
`preempting`, `future`, `wake` are the fields of the same name; `task`,
`cancelReq` and `caller` are the asyncio tasks; `age` and `ahead` abstract
`enqueued_at` to the levels gained and the order in which jobs gain them; `older`
is the order of `seq`.

* `Submit`, `CallerCancelled`, `CallerResumes` – `submit()` up to and after its
  await. `CancelTurn` – `cancel_turn()`. `Stop`, `StopFinishes` – `stop()`.
* `WorkerWakes`, `DispatchOne`, `DispatchPreempts`, `DispatchEnds` – one pass of
  `_run`: collecting ended tasks, clearing the event, the synchronous loop of
  `_dispatch`. While `worker = "dispatching"` nobody else moves.
* `JobStarts`, `JobFinishes`, `JobCancelled`, `JobUnwindFails`,
  `JobCancelledUnstarted` – `_execute`, with the case that the task is cancelled
  before its body runs.
* `WorkerFails`, `OnWorkerDead` – an exception escapes `_run`.

Correctness: streams never exceed slots, background streams never the unreserved
ones (`CapacityRespected`); effectful jobs are neither preempted nor queued twice,
and a job given up runs again only if its preemption was under way
(`RevivedOnlyByPreemption`); a preemption is not seen by the submitter; a submission
is lost in one way only, by a preemption or a cancellation of its task before the
task's first step (history: `unstarted`); a dead worker answers everybody who was
not lost in that way before; no wake-up is lost; chats are answered. The capacity
counts the tasks of jobs. A stream whose consumer is cancelled while it handles a
delta is left to the finalizer of asynchronous generators, which closes the
connection a little later; that gap is not in the model.

### ChatTurns

`counter`, `row`, `said` are the database; `current`, `owner`, `stream` the
memory of TurnManager and Orchestrator; `cmd[s]`, `pc[t]`, `job[t]`, `speech[t]`
say where each session's command handler, each turn's task, its LLM job and its
speech worker wait; `kill` and `jobKill` are CancelledErrors on their way;
`shown` is the last state broadcast; `astray` is history. A worker of the speech
that failed lets the turn end in ERROR, or leaves it open: `speech.cancel()` re-raises
what the worker raised, in `except LlmError` and, for a failure that is no `TtsError`,
in `except Exception` (`TurnMute`, `TurnFails`).

* `ChatSend`, `ChatSupersedes`, `SupersedeDone`, `TurnLaunched` – `chat.send`
  through `TurnManager.begin`, cut at the broadcast inside `cancel()` and at the
  one of the new turn. `UserCancels`, `UserCancelDone` – `turn.cancel`.
* `TurnStarts` ... `TurnFinishes`, `TurnDecays` – `_run_chat_turn` in the order of
  its awaits; `TurnMute`, `TurnFails`, `TurnHushed`, `ShowError` its error
  handlers; `TurnKilled`, `TurnUnwound` its CancelledError handler.
* `Delta`, `FirstToken`, `TokenSent` – `on_delta`; `JobEnds`, `JobKilled` – the job;
  `SpeechEnds`, `SpeechFails` – the outcome of the speech worker.
* `Crash`, `CrashIssuing` – the process dies and starts again: everything but the
  database is rebuilt. `begin()` commits twice without an await between, the counter
  (`store.py:84`) and the row (`store.py:93`), and `CrashIssuing` is the death between
  both (`HalfIssued`).

Abstractions: a turn's job is "open" from its submission on, queued or running
(which jobs get lost is LlmScheduler's matter); `except Exception` behaves like
`except LlmError` for the state that is kept; a turn's row and its `turn` event
change together; every turn has origin "balloon", the only one a command
creates. `TurnStarts` uses that the loop runs ready tasks in the order in which
they became ready.

Correctness: one turn is active, and it is the foreground, up to the cases that
`astray` names; ended turns keep their status; a turn that is done has question
and answer in the history, also after a crash; ids are never reused, also when the
process died between the two commits; a cancelled turn says nothing any more, but for
the cases `CancelledStaysSilent` names; the foreground's stream is given up by its own
task, with the reply recorded or in error, by the death of the process, or by the task
of an older turn that was cancelled or went astray (`ReplyLostOnlyToStray`); every
turn ends and the state decays.

### Sessions

`sessions`, `ws`, `seq`, and `log`, `last`, `pruned` (ReplayLog) are the code's
fields. A session bears the number of the connection that created it. Each socket
has a `line` of senders: the websockets library lets one writer drain at a time,
in order, and a slow client holds the first one up (`wrote`). A write happens as
soon as its turn comes (`Settled`), for nothing awaits before it. `cast[b]` is a
broadcast under way and the sessions it has still to reach; `todo[k]` the frames
an attach has still to send: hello_ack, the replay tail, then the snapshot under
a fresh seq.

* `Attach` – `_attach` up to its first await: a new session, a resumed one, one
  whose key has expired, one that is refused its replay.
* `Proceed` (`AttachGoesOn`, `FanOut`) – the sender at the head of a line goes on,
  to the socket the session has *by then*. `SendFails` – ConnectionClosed there.
* `ServingEnds` – the handler's `finally`, which detaches by session id.
* `Broadcast` – a durable notification. `Cut`, `Notice` – a connection breaks, and
  the server hears of it later.

A client holds the key of the last hello_ack and, as the one in
`tests/test_integration.py:154-155`, the highest seq it has received. `owed` is
history: what a client has missed since its session began. Left out here: frames
without a seq (`TokenStream`), binary frames (`TurnSpeech`), protocol violations
(`Commands`), failing handshakes (they leave no state), and a restart of the core,
which forgets all sessions. `startup()`
has broadcast IDLE before anybody connects, so a snapshot always exists.

Correctness: nothing a client missed can vanish from the log without raising the
horizon that refuses it; while a connection is the session's socket, everything
it misses is on its way; no two sessions share a socket; a served client is
attached, up to the case that `overtaken` names.

### TokenStream

One reply. `stream` is `_stream` as seen from it: not set yet, this reply, cleared by
its own task, or taken away by another handler. `seq` is the length of
`state["parts"]`, `job` what the turn awaits or how it ended, `turn` whether it is the
foreground: `is_obsolete` holds of a turn that is being cancelled and of one that
went astray, whose task runs on. `cast` holds the sessions that a broadcast of a token
or of the done frame has still to visit: whether a session has a socket is looked at
when it is its turn. `text[c]` and `done[c]` are what a client shows; `served`,
`missed` and `unended` are history, about a client's latest snapshot.

* `FirstDelta`, `Announced`, `NextDelta`, `Recorded` – `on_delta`: one look at the
  turn, for the first delta the broadcast of RESPONDING, the token's broadcast,
  then `parts` and `seq`.
* `Finish`, `Finished` – the done frame, which goes out for a turn that went astray,
  too. `Fail`, `Failed` – the three handlers of errors: `_stream` is cleared, at once
  or after `speech.cancel()`, or stays when that raises; no done frame.
* `Stray`, `Cancel` – the turn loses the foreground. `Stopped` – the tasks of a
  cancelled one die. `Taken` – another task clears or replaces `_stream`, or this
  turn's handler of CancelledError does.
* `Visit` – a broadcast reaches one session. `Attach`, `Resync` – `_attach` up to
  its end and `resync_streams`; `Sync` – `stream.sync`; `Leave`.

Correctness: between two broadcasts a client that is attached shows exactly the deltas
recorded, but for one that was on its way past it when its latest snapshot was taken
(`missed`), and shows the end mark of a complete reply and of no other (`InSync`). A
client whose attachment came after the reply, or found the stream taken away, shows
nothing that is not recorded. At most the first token of an obsolete turn still goes
out (`OnlyFirstTokenLate`).

### TurnSpeech, SentenceChunker, WavHeader, AudioStream

Startup: `Unreachable`, `Probe`. Then every turn has a stream id, a chunker, a
queue and a worker. `task[t]` is the turn as its speech sees it, `worker[t]` what
the worker awaits, `line` the generators at the client's lock. Audio is counted in
bytes; texts are sequences of characters of the kinds the code tells apart.

* `Start`, `FeedDelta`, `Finish`, `Cancel`, `TaskResumes` – the constructor, `feed`,
  `finish` and `cancel` up to and after the await of the worker.
* `Get`, `Audio`, `AudioEnds`, `HttpFails` – the queue and `synth_stream`: lock,
  chunks with the carried odd byte, the checks at the end. `Opened`, `Framed`,
  `Closed` – the broadcasts of the worker, one await each.
* `WorkerKilled`, `Finalized` – a cancelled worker; inside the generator it leaves
  the lock at once, at a broadcast the generator stays suspended until the
  finalizer of asynchronous generators closes it.

Correctness: the queue gets the sentences of the whole text whatever the deltas
are (`SentencesAsWritten`, against `Sentences`, a definition without deltas); a
`finish()` that returns has spoken all of it (`DoneIsSpoken`); `sent` is that of an
`AudioStream`; a cancelled speech is silent; the probe serves with the rate the
response announces and refuses the others (`ProbeReadsTheFormat`); finish and
cancel return.

### Commands and SkillRun

`SkillRun` has the library on disk, `run_skill` (`phase`), its three tasks
(`feeder`, `reader`), the readers of `_reap` (`drain`), and a process that does as it
likes: reads or not, writes any amount to either pipe, closes its pipes and goes
on, exits anyhow, or hangs. A pipe holds what the kernel and the StreamReader hold.
`Process.wait()` returns only when both pipes can reach their end (`Reapable`).

* `Load`, `Begin`, `Spawned`, `SpawnFails` – the manifests, `verify_hash`, the start.
  `Fed`, `FeedFails`, `Read`, `ReadEof`, `Gathered`, `Returns` – the tasks and the
  verdict. `Expires`, `Overflows`, `Settled`, `Drain`, `Reaped`, `ReapExpires` – the
  exception path. `Proc...` – the process. `Rewrite` – somebody changes the file.
* `Commands` adds the receive loops (`inbox`, `at`, `violations`), the line at the ASR
  client's lock, its time-out per operation (`due`), and pings with their age. A
  request may have any number of operations; `ops` tells none, one and several apart.
  Every send of the loop may raise and then ends the connection (`HangUp`): when a
  broadcast has detached the session, or the answer cannot be encoded.
  `Tick` is the clock: it moves only when the event loop is idle, and a time-out
  expires at the tick at which it is due.

Correctness: a result is the whole output of a process that ended by itself; a run
that is over has killed its process or seen it end, and left no reader at its pipes,
but for the run whose arguments could not be encoded; a pipe never has two readers, a
dead process is collected at once (`SandboxContained`). Among skills and
transcriptions a ping is late only for the causes that `behind` names
(`PingsInTime`); the other commands wait for broadcasts, whose sockets `Sessions` has.
Every frame is received and every command answered while its connection lasts, unless
the ASR server sends for ever (`EveryFrameAnswered`).

## 3. Runs

| Run | Question | Result |
|---|---|---|
| `sched_safety` | all safety properties and the refinement, two chats, a pure and an effectful job, two slots, one reserved, aging, cancel_turn, stop, dying worker | holds |
| `sched_live` | are chats answered, and background jobs when chat stays away, with aging | holds |
| `sched_lost` | is a preempted job queued again | **no** |
| `turns_safety` | all safety properties, two clients, three turns, voice, all faults, a crash at every commit | holds |
| `turns_live` | do turns end and states decay, with deltas and barge-in | holds |
| `turns_overlap` | is there exactly one foreground | **no** |
| `sessions_safety` | replay, sockets and attachment, two clients, three connections, a log of one entry, expiry | holds |
| `sessions_detach` | is a served client attached | **no** |
| `sessions_gap` | is there no silent gap | **no** |
| `tokens` | who shows which deltas and the end, of a reply that completes, fails, is cancelled or goes astray | holds |
| `voice` | is what is spoken what was written, in well-formed streams that end | holds |
| `commands` | are results whole, processes collected, pings and commands answered, with sends that fail and a trickling ASR server | holds |

### What the violations show

1. `sched_lost`: within one `_dispatch` an aged background job is started and then
   preempted for a chat. Its task is cancelled before its first step, `_execute`
   never runs, nobody queues the job again, its submitter waits for ever.
2. `turns_overlap`: `begin()` reads `_current`, awaits, and assigns. Another
   session's turn that began meanwhile is overwritten and stays active.
3. `sessions_detach`: a client reconnects before the server notices the loss of
   its old socket; the old handler's `finally` then detaches the new one.
4. `sessions_gap`: a client cut during its replay has already received a frame
   with a higher seq. It resumes with that and the entries between never come.

The passing runs bound the damage: by `StrandedOnlyByEarlyCancel`,
`ForegroundUnlessAstray` and `DetachedOnlyIfOvertaken` the first three happen in no
other way than the one described, and by `NoGapWhileAttached` the fourth needs a
second break of the connection. Section 5 lists what other properties bound in the
same way without a run that shows it.

### Bounds

* **Scheduler.** Two slots, one reserved, is the constructor's default and the
  smallest case in which both admission rules bind. Two chats fill the slots; one
  pure and one effectful background job are what preemption must distinguish.
  `MaxAge` 2 lets a job of priority 2 age to a chat's. Submitters submit again
  and again. All three runs have it, as `main.py:75` never builds a scheduler without aging.
* **Turns.** Two sessions and three turns are needed for `turns_overlap` (one to
  supersede, one overwritten, one that overwrites), and the safety run has them
  too. Deltas decide no status, so it has none (`MaxDeltas = 0`); the live run has
  one client, two turns of two deltas. It has neither a second client, a failing
  TTS nor a crash, because each of these may leave a turn that never ends
  (`turns_overlap`, `OpenOnlyIfMuted`, section 5).
* **Sessions.** A log of one entry and two broadcasts prune at once; three
  connections allow a resumption of a resumption; the second client does not
  break, but delays broadcasts and shares the seqs. `Aging = TRUE` lets entries
  and keys expire at any attach or broadcast. More connections or casts were not
  needed for any violation met. The run leaves out
  `SessionInv`: it holds on this instance too, but doubles the time (add it to the
  `INVARIANTS` of the cfg to see).
* **Tokens.** The first delta, one after it and one more; two clients, because a
  snapshot for one falls between the visits of both; five attachments let each
  come back.
* **Voice.** The first text is any of up to three of letter, terminator and closer
  (three with no closer in front, where it is one more letter that cannot be spoken),
  and three more with blanks; sentences are forced out at two characters, so
  that a terminator falls before, at and after the limit. Chunks of one and three
  bytes leave an odd byte to carry at every place of a sentence of up to four
  bytes; frames of two bytes cut a chunk in two. The second speech is what waits
  for the lock of the first. Responses have up to three chunks, of seven kinds, each
  whole, without its last bytes, or without its last chunk.
* **Commands.** A tick is five seconds: the ASR time-out is 4, the longest skill 4
  (20 s, `MAX_TIMEOUT_S`), reaping 1, the heartbeat 6. Pipes, buffers and the cap
  are one unit each, which keeps what matters: output fits, fills the pipe, or
  passes the cap with the pipe full behind it. Bounds: one run of a skill per
  behaviour (`run_skill` shares no state between runs), one ping without a pong per
  session, `Rewrite` only before `verify_hash`, since afterwards it makes no
  difference to a process that does as it likes anyway; three frames of one session
  and two of the other. Nothing bounds the operations of an ASR request. The three
  kinds of `Traffic` keep the run's interleavings apart from those of the lock.

`CHECK_DEADLOCK FALSE` where turns, connections, broadcasts, deltas, speeches or
frames are used up, or the scheduler has been stopped.

### Fairness

* Weak fairness of every command handler, turn task, job and speech worker in
  `ChatTurns`, of the worker in `LlmScheduler`: the event loop runs every ready
  task, and every external call has a timeout (`llm/client.py`, `tts/*.py`), so a
  stream ends or fails. No fairness for clients: they need not send or cancel.
* Weak fairness of the turn, the worker and the TTS server in `TurnSpeech`: the loop
  runs every ready task, and the finalizer of an abandoned generator is such a task.
  That a TTS request ends is an assumption on its server: the time-outs of httpx are
  per operation, so a response that trickles for ever would hold the lock. No fairness
  for feeding or cancelling: a reply that stops in the middle is the turn's matter.
* Weak fairness of the tasks in `Commands`, and strong fairness of `Tick`, because
  time goes on although tasks become ready now and then. None for the process in
  the sandbox, the ASR server or the clients: a skill ends by its time-outs, a
  transcription when one operation of it takes too long, and the server that never
  lets one do so is excepted by `EveryFrameAnswered` itself.
* Strong fairness of the steps of a job and of a submitter's resumption in
  `LlmScheduler`. They are continuously ready in the program; the model disables
  them while it spells out the synchronous loop of `_dispatch`, so strong
  fairness of the action is weak fairness of the task.

## 4. Proofs

| Theorem | Says |
|---|---|
| `AdmissionControl!CapacityHolds` | the abstract scheduler keeps slots and reservation |
| `LlmSchedulerProofs!InvariantHolds` | `IInv`, types included |
| `... SchedulerImplementsAdmission` | the refinement |
| `... CapacityIsRespected` | `CapacityRespected`, carried over by the refinement |
| `... StrandedOnlyByEarlyCancelHolds`, `PreemptionIsSilentHolds`, `EffectfulNeverPreemptedHolds`, `RevivedOnlyByPreemptionHolds`, `DeadWorkerAnswersAllHolds`, `NoLostWakeupHolds` | the safety and action properties |
| `ChatTurnsProofs!InvariantHolds` | `IInv`, types included |
| `... ForegroundUnlessAstrayHolds`, `OpenOnlyIfMutedHolds`, `DoneMeansAnsweredHolds`, `TerminalIsFinalHolds`, `IdsNeverReusedHolds`, `CancelledStaysSilentHolds`, `ReplyLostOnlyToStrayHolds` | the safety and action properties, through crashes |
| `SessionsProofs!OneSessionPerSocketHolds` | no two sessions share a socket |
| `... SessionInvariantHolds`, `WellFormedHolds`, `LogReachesHorizonHolds`, `DetachedOnlyIfOvertakenHolds`, `NoGapWhileAttachedHolds` | `SessionInv`, types included, and the safety properties of replay and attachment |
| `TokenStreamProofs!InvariantHolds`, `InSyncHolds`, `OnlyFirstTokenLateHolds` | `IInv`, and both properties of `TokenStream` |
| `TurnSpeechProofs!InvariantHolds`, `StreamsAreAudioStreams`, `CancelSilencesHolds` | `IInv`, the refinement of `AudioStream`, silence after `cancel()` |
| `... SpeechInvariantHolds`, `SentencesAsWrittenHolds`, `DoneIsSpokenHolds` | `SpeechInv`, types included; what is queued and spoken is what was written, for texts of any length and deltas of any size |
| `... ProbeReadsTheFormatHolds` | the parser against the response read as a whole, for any number of chunks of any size, cut anywhere |
| `CommandsProofs!InvariantHolds`, `NoPartialResultHolds` | `RunInv`, whole results |
| `... SandboxContainedHolds`, with `NoOrphanHolds` and `OneReaderHolds` for two of its parts | a run that is over leaves neither a process nor a reader behind but in the one case of arguments that cannot be encoded, a pipe never has two readers, and collecting a dead process takes no time |
| `... CmdInvariantHolds`, `PingsInTimeHolds` | `CmdInv`, types included; the bound on pings, by the clock |

Assumptions are the named ones of the modules. `SlotsAssumption` is the check of
the scheduler's constructor; `JobAssumption`, `TurnAssumption`,
`SessionAssumption`, `StreamAssumption`, `SpeechAssumption`, `ChunkerAssumption`,
`RunAssumption` and `CommandAssumption` type the constants, say that jobs are
finitely many, that replies are texts and responses RIFF chunks, and that a PCM frame
has an even size, which `PCM_FRAME_BYTES` is. `PatienceAssumption` is what the pings
rest on: a skill's longest time-out and its reaping together (20 s,
`skills/library.py:27`, and 5 s, `skills/sandbox.py:116`), and the ASR time-out (20 s),
are below the heartbeat of the client (30 s); `asr/client.py:26-29` says so for its own.

**Scheduler.** Capacity is not inductive in terms of tasks: the code counts
`running`, which a task leaves later than it ends, and which the death of the
worker empties. `IInv` therefore ties both together (`Consistent`: live tasks are
in the book while the worker lives, none is queued), bounds the book
(`BookBound`), and records why a task may be cancelled (`CancelReason`: requested,
preempted, or the worker died), whom a preemption may hit, and that a submission
without a task was cancelled before its task's first step. One lemma per
action keeps it. The refinement maps *waiting* to `queue` and *holding* to the
live tasks; each step is one of the abstract ones or a stutter, so the bound on
live tasks follows from the abstract theorem.

**Turns.** That a cancelled turn is silent needs to know where its task can be
(`CancelledIsStopped`: it is being killed or past the point of saying anything),
which needs the command handlers' knowledge (`LaunchesOwn`, `CancelsKnown`) and
that CancelledErrors reach cancelled turns only (`KilledIsCancelled`). That a turn
that is done was answered needs what has been recorded at each point of its task
(`RecordedSoFar`).

**Sessions.** `SessionInv` grows from the ground up, and each layer is used for the
next. Sockets and sessions are numbered by the connections so far (`SocketInv`), so a
new connection is nobody's socket, not even that of the session that was refused its
replay and had taken it by then. A connection takes one seq at most (`Counted`), which
bounds `seq`; a sender waits in one line only, with something to send (`InOneLine`). The
log lies above the horizon, and both below the last seq (`LogInv`): pruning raises the
horizon to what it drops, which is `LogReachesHorizon`. A session is claimed by one
client only, by its key or by its connection (`ClientInv`), so a resumption takes a
socket from an earlier connection of the same client and of nobody else; whoever else
could detach it is a handler, or a sender at an old socket, that the session has
outlived (`OvertakenInv`), and then it is in `overtaken`. For the gap, a frame may be
written only once and is then no longer owed (`Paid`), and an attach that waits does so
at its own socket while that is the session's (`OwnSocket`): what an attached client is
owed is still in a `todo` or on its way with its broadcast. The induction goes layer by
layer, and there action by action, with one lemma for what a write does.

**Wake-ups.** When the worker sleeps, its last pass left nothing it could admit, so
the proof follows what can change that: a slot is given back by a task whose end is
itself a wake-up, a job is queued with `wake` set, and a chat that waits for a victim
waits for a live task in `preempting` (`Vacating`).

**Tokens.** `Shows` says what a client shows *during* a broadcast too, by whether it was
visited already: the deltas it has got (`Got`), but for the missed one. `InSync` is its
case between broadcasts. It needs that `_stream` is there as long as the reply is and
gone when it is complete (`StreamFollowsJob`), so that a late client cannot take a
snapshot after the end and show a reply without its end mark.

**Streams.** What the worker remembers of its stream (`_opened`, `_seq`) agrees with
what went out (`SentAsCounted`); streams are told apart since ids are handed out in
order, each once (`IdsInOrder`, `OwnId`); and what is left of a chunk is whole samples,
since the aligned part is even and so is a frame (`WholeSamples`).

**Sentences.** `Chunked` relates the two fields of the chunker to the text: after k
characters the sentences that got out are those of `Sentences` before some place a, and
what is pending is the text from a to k, with its cut behind it (`done`) or without one
(`buf`). One character keeps it (`PutKeepsChunked`), hence a delta of any length does,
and the flush at the end completes it. Behind the chunker, `Queued` follows a sentence
from the queue through the worker's hand to `voiced` without losing or repeating one
(`EndIsLast`, `InHand`), and `BytesCounted` does the same for the bytes of the server:
sent, in the rest of a chunk, or carried. A speech whose worker ended by itself has
nothing in hand, so everything is in `voiced` and in `sent`.

**The header.** The loop of the parser stands at chunk i only if no data chunk and only
sound formats came before (`Reached`), and then it has the rate of the last of them
(`RateBefore`). So the answer is decided at the last chunk it reaches, which is the
data chunk, the first unsound format, or the end of what has arrived; in each case that
is what `Announced` says of the whole.

`Sentences`, `Feed`, `Total`, `Offsets` and `Scan` are recursive functions. The library's
induction takes a predicate, which the provers cannot instantiate; `VoiceProofs!Induct`
is induction on a set of numbers instead, from the least element of its complement. A
recursive function is a `CHOOSE`, so each is first shown to exist, by induction on
how far it is defined, and unfolded after that. `Scan` is a function of the offset to a
function of the rate, because the prover has no functions of two arguments.

**Skill runs.** Until an exception is handled nothing of stdout is lost
(`AllKept`: what is kept and what is unread is what was written), and a reader at the
end of its pipe is there for good (`EofIsLast`); so a run that gathers all its
readers has the whole output. `_reap` has a reader at each pipe that goes on until the
end of it (`Drained`), so a process that is dead is collected before time passes.

**Pings.** `Busy` spells out when the event loop has something to do, and `Tick` waits
for it. While one command is before a ping, its age and the time that command has left
add up to no more than the time-out (`InTime`); a ping behind a command that has not
begun has age 0 (`Waits`), because the loop would have begun it before the clock
moved. With `PatienceAssumption` the age stays below the heartbeat. What does not fit
this sets `behind`: a second command, the lock of the ASR client, a request with more
than one operation.

Only model-checked: the liveness properties (`ChatAnswered`,
`BackgroundAnsweredWhenQuiet`, `EveryTurnEnds`, `FinishedDecays`, `EverySpeechEnds`,
`EveryFrameAnswered`), because fairness and `ENABLED` are out of the prover's reach.
Every invariant and every action property of the runs that hold is proved. The
violations are counterexamples of TLC.

## 5. Divergences without a run of their own

Scheduler and turns:

* Chats that overlap for ever starve a background job, for aging changes the order
  and not the admission (`llm/scheduler.py:173`), though its comment says
  "background work is never starved" (5-6). Once chats stay away it is answered, but
  for a job whose task was cancelled before its first step, as in `sched_lost`
  (`BackgroundAnsweredWhenQuiet`).
* `cancel_turn` on a job that is being preempted only cancels it again; the job is
  queued and runs although its turn is cancelled, against
  `orchestrator/turns.py:4-5` (bounded by `RevivedOnlyByPreemption`).
* `cancel_turn` on a job that was created and has not started leaves its submitter
  waiting (covered by `StrandedOnlyByEarlyCancel`).
* While one victim unwinds, another wake-up picks a second one for the same chat.
* Pure jobs of priority 1 (perception) are never preempted; the comment counts
  priority 1 as background (9-12).
* `scheduler.stop()` cancels the tasks of jobs and does not await them (98-105).
* `speech.cancel()` in `except LlmError` re-raises what the speech worker raised: no
  ERROR, and the turn is never closed (`orchestrator.py:312`, against 297-298;
  bounded by `OpenOnlyIfMuted`). In the CancelledError handler the same exception
  leaves `_stream` set. In `except Exception`, where a worker that failed with
  anything but a `TtsError` leads, the same re-raise leaves the turn open, too (318-325).
* A cancelled turn's task, having waited for its worker, clears `_stream`, which may
  be the new turn's by then (294, against 201-202; bounded by
  `ReplyLostOnlyToStray`).
* `chat.send` launches a task for a turn that was cancelled while its `turn` event
  went out (`orchestrator.py:109-112`).
* A cancellation by the user broadcasts no state: clients keep THINKING,
  RESPONDING or SUCCESS until the next turn.
* `_prompt` reads the history after the question was appended and then appends it
  once more (219-225, 233-234): the LLM gets it twice.
* Rows that were active at a crash stay active. Shutdown closes the database
  (`main.py:96`) while turn tasks, which nobody awaits, may still write.

Streams and speech:

* The first token may go out after the turn was cancelled (`orchestrator.py:245-255`;
  bounded by `OnlyFirstTokenLate`).
* A reply that ends in an error gets no done frame (`orchestrator.py:296-325`): clients
  keep a stream without an end mark. Where `speech.cancel()` re-raises, `_stream` stays
  set, and `stream.sync` and reattached clients get a snapshot of a dead turn as if it
  were active, until the next turn.
* The done frame goes out without another look at the turn (266-271), also for one that
  was overwritten and whose later deltas were dropped: its clients see a complete reply
  with a part of the text.
* A snapshot taken while a delta is on its way lacks it, and the client, which the
  broadcast has passed, never gets it (`orchestrator.py:200-215`; bounded by `InSync`).
* A resumed client gets no fresh `audio_meta` (`server/session.py:163-165` says it
  does).
* The chunker keeps sentences within a length "comfortably under" the server's limits
  (`voice/chunker.py:15`), and glues closers and terminators to them without any.
* `TurnSpeech.cancel` swallows a CancelledError aimed at its caller
  (`tts_pipeline.py:80`).

Commands:

* The 20 s of the ASR client are a time-out of httpx for each operation, and a second
  request waits for the lock first: both may pass the client's heartbeat, against
  `asr/client.py:27-29`. `PingsInTime` names what else may not.
* An ASR server that sends a byte now and then keeps its request, the lock and the
  receive loops of all who wait for it for as long as it likes, since no time-out is
  one of the whole request (bounded by `EveryFrameAnswered`).
* A send that raises in the receive loop ends the connection with its command
  unanswered (`server/ws_server.py:226-234`): the one of a result with a lone surrogate,
  which JSON carries and UTF-8 does not, or of a session that a broadcast has detached.
* Arguments with a lone surrogate raise in `feed_stdin` (`skills/sandbox.py:161`), past
  the handler that kills and reaps: the process is left to its own limits and the
  readers to it, against "a skill can waste at most its own timeout window"
  (`skills/sandbox.py:12-13`). `NoOrphan` has this exception and no other.

## 6. Not modelled

Configuration, the JSON envelope, the stack scripts, the voice tools and the bundled
skills are stateless or sequential I/O, each without a second actor: a model of them
would restate them. Of the entry point the two startup checks with a decision in
them are modelled and the wiring is not. The prompt, the history's window and all
texts are data no property is about. Websocket, HTTP, sqlite and bubblewrap are
external; the models say how the code uses them.

## 7. Plan

Done: all components with concurrent or failing behaviour, each with a safety run,
liveness where it promises an end, and proofs of what is in the prover's reach.

1. Every broadcast and every attach of `Sessions` ends, under fairness of the sockets.
2. A composition of turns and scheduler: the job of `ChatTurns` as a refinement of
   what `LlmScheduler` offers one submitter, and its speech worker as one of
   `TurnSpeech`.
3. Shutdown, once it awaits what it stops.
