------------------------------- MODULE Commands -------------------------------
(***************************************************************************)
(* Commands that take their time: the receive loop of a connection         *)
(* (server/ws_server.py), which awaits each command inline, asr.transcribe *)
(* with the lock and the time-outs of its client (asr/client.py), and      *)
(* skill.run with a run of SkillRun (orchestrator/orchestrator.py).        *)
(*                                                                         *)
(* Time is discrete: a tick passes when the event loop has nothing to do,  *)
(* and a time-out expires at the tick it is due.                           *)
(***************************************************************************)
EXTENDS SkillRun, SequencesExt

CONSTANTS
    Session,        \* the connected sessions
    Traffic,        \* the kinds of frames that the sessions may send
    MaxFrames,      \* MaxFrames[s]: bound on the frames of s
    MaxViolations,  \* MAX_VIOLATIONS
    AsrTimeout,     \* the time-out of the ASR client
    Heartbeat       \* ticks after which a client gives up

FrameKind == {"ping", "bad", "quick", "asr", "skill"}

ASSUME CommandAssumption ==
    /\ Traffic \subseteq [Session -> SUBSET FrameKind]
    /\ \A kinds \in Traffic : \A s, t \in Session :
            "skill" \in kinds[s] \cap kinds[t] => s = t
    /\ MaxFrames \in [Session -> Nat]
    /\ {AsrTimeout, Heartbeat} \subseteq Nat
    /\ MaxViolations \in Nat \ {0}

(* "must fail before the client's heartbeat gives up on the link": 20 s,    *)
(* and 5 s to reap, against two pings of 15 s.                             *)
ASSUME PatienceAssumption ==
    /\ MaxTimeout + ReapTimeout < Heartbeat
    /\ AsrTimeout < Heartbeat

VARIABLES
    sends,      \* sends[s]: the kinds of frames that the client of s sends
    inbox,      \* inbox[s]: frames that were sent and not received
    frames,     \* frames[s]: how many were sent
    at,         \* at[s]: what the receive loop awaits
    violations, \* violations[s]
    line,       \* the commands at the lock of the ASR client, the first has it
    due,        \* ticks until the operation of its request times out
    ops,        \* the operations of its request so far: none, one, or several
    \* History.
    ping,       \* ping[s]: the age of the ping without a pong
    behind      \* behind[s]: its pong is behind more than one command or request

asrVars  == <<line, due, ops>>
pingVars == <<ping, behind>>
cmdVars  == <<sends, inbox, frames, at, violations, line, due, ops, ping, behind>>
vars == <<library, served, disk, phase, args, why, left, outcome, feeder, reader, drain, got,
          proc, code, unread, wrote, exit, sends, inbox, frames, at, violations, line, due, ops,
          ping, behind>>

NoPing == Heartbeat + 1

Slow == {"asr", "skill"}

TypeOK ==
    /\ RunTypeOK
    /\ sends \in Traffic
    /\ inbox \in [Session -> Seq(FrameKind)]
    /\ frames \in [Session -> Nat]
    /\ at \in [Session -> {"reading", "closed"} \cup Slow]
    /\ violations \in [Session -> 0..MaxViolations]
    /\ line \in Seq(Session)
    /\ due \in 0..AsrTimeout
    /\ ops \in 0..2
    /\ ping \in [Session -> 0..NoPing]
    /\ behind \in [Session -> BOOLEAN]

Init ==
    /\ RunInit
    /\ sends \in Traffic
    /\ inbox = [s \in Session |-> <<>>]
    /\ frames = [s \in Session |-> 0]
    /\ at = [s \in Session |-> "reading"]
    /\ violations = [s \in Session |-> 0]
    /\ line = <<>>
    /\ due = 0
    /\ ops = 0
    /\ ping = [s \in Session |-> NoPing]
    /\ behind = [s \in Session |-> FALSE]

-----------------------------------------------------------------------------
(* The client.                                                             *)

(* The commands of s that a frame sent now has to wait for: their places   *)
(* in the inbox, and 0 for the one that is awaited.                        *)
Ahead(s) ==
    {i \in DOMAIN inbox[s] : inbox[s][i] \in Slow} \cup {i \in {0} : at[s] \in Slow}

(* Bounds: MaxFrames, one run of a skill, one ping without a pong.         *)
Send(s, frame) ==
    /\ served = "up"
    /\ at[s] # "closed"
    /\ frames[s] < MaxFrames[s]
    /\ frame = "skill" => phase = "none" /\ ~Contains(inbox[s], frame)
    /\ frame = "ping" => ping[s] = NoPing
    /\ frames' = [frames EXCEPT ![s] = @ + 1]
    /\ inbox' = [inbox EXCEPT ![s] = Append(@, frame)]
    /\ IF frame = "ping"
       THEN /\ ping' = [ping EXCEPT ![s] = 0]
            /\ behind' = [behind EXCEPT ![s] = \E i, j \in Ahead(s) : i # j]
       ELSE UNCHANGED pingVars
    /\ UNCHANGED <<runVars, sends, at, violations, asrVars>>

-----------------------------------------------------------------------------
(* The receive loop.                                                       *)

Receive(s, frame) ==
    /\ at[s] = "reading"
    /\ inbox[s] # <<>>
    /\ Head(inbox[s]) = frame

(* The end of the connection, and of what it has not received: after too   *)
(* many violations, and when a send raises, for a session that a broadcast *)
(* has detached or an answer that cannot be encoded.                       *)
HangUp(s) ==
    /\ at' = [at EXCEPT ![s] = "closed"]
    /\ inbox' = [inbox EXCEPT ![s] = <<>>]
    /\ ping' = [ping EXCEPT ![s] = NoPing]
    /\ behind' = [behind EXCEPT ![s] = FALSE]

Pong(s) ==
    /\ Receive(s, "ping")
    /\ \/ /\ inbox' = [inbox EXCEPT ![s] = Tail(@)]
          /\ ping' = [ping EXCEPT ![s] = NoPing]
          /\ behind' = [behind EXCEPT ![s] = FALSE]
          /\ UNCHANGED at
       \/ HangUp(s)
    /\ UNCHANGED <<runVars, sends, frames, violations, asrVars>>

(* A slip: one too many.                                                   *)
ToleratedOneMore(n) == n <= MaxViolations

Tolerated(n) == n < MaxViolations

(* What cannot be decoded, or is no client's message: the connection is    *)
(* closed when there were too many of them.                                *)
Violation(s) ==
    /\ Receive(s, "bad")
    /\ violations' = [violations EXCEPT ![s] = @ + 1]
    /\ \/ /\ Tolerated(violations'[s])
          /\ inbox' = [inbox EXCEPT ![s] = Tail(@)]
          /\ UNCHANGED <<at, pingVars>>
       \/ HangUp(s)
    /\ UNCHANGED <<runVars, sends, frames, asrVars>>

(* A command that is answered at once: skill.list, and every one whose     *)
(* arguments, name or id are refused.                                      *)
Quick(s) ==
    /\ Receive(s, "quick")
    /\ \/ inbox' = [inbox EXCEPT ![s] = Tail(@)] /\ UNCHANGED <<at, pingVars>>
       \/ HangUp(s)
    /\ UNCHANGED <<runVars, sends, frames, violations, asrVars>>

Await(s, what) ==
    /\ inbox' = [inbox EXCEPT ![s] = Tail(@)]
    /\ at' = [at EXCEPT ![s] = what]

(* The ack or the error goes out, and the loop goes on, or the send raises.*)
Answer(s) ==
    \/ at' = [at EXCEPT ![s] = "reading"] /\ UNCHANGED <<inbox, pingVars>>
    \/ HangUp(s)

(* asr.transcribe: the lock first.                                         *)
Transcribe(s) ==
    /\ Receive(s, "asr")
    /\ Await(s, "asr")
    /\ line' = Append(line, s)
    /\ IF line = <<>> THEN due' = AsrTimeout /\ ops' = 1 ELSE UNCHANGED <<due, ops>>
    /\ UNCHANGED <<runVars, sends, frames, violations, pingVars>>

Requesting(s) == line # <<>> /\ Head(line) = s

(* A slip: the request that fails keeps the lock.                          *)
UnlockNever == UNCHANGED asrVars

(* The lock goes to the next one in line, whose request begins.            *)
Unlock ==
    /\ line' = Tail(line)
    /\ IF Len(line) > 1
       THEN due' = AsrTimeout /\ ops' = 1
       ELSE due' = 0 /\ ops' = 0

(* The server takes or sends a part of the request, which has its time-out *)
(* for every such operation, however many there are.                       *)
AsrProgress(s) ==
    /\ Requesting(s)
    /\ ops' = 2
    /\ due' = AsrTimeout
    /\ UNCHANGED <<runVars, sends, inbox, frames, at, violations, line, pingVars>>

(* A response, good or bad, or a broken connection.                        *)
AsrEnds(s) ==
    /\ Requesting(s)
    /\ Unlock
    /\ Answer(s)
    /\ UNCHANGED <<runVars, sends, frames, violations>>

AsrExpires(s) ==
    /\ Requesting(s)
    /\ due = 0
    /\ Unlock
    /\ Answer(s)
    /\ UNCHANGED <<runVars, sends, frames, violations>>

RunSkill(s) ==
    /\ Receive(s, "skill")
    /\ Await(s, "skill")
    /\ \E m \in library : Begin(m)
    /\ UNCHANGED <<sends, frames, violations, asrVars, pingVars>>

(* A result, or the error that stands for the exception.                   *)
SkillAnswered(s) ==
    /\ at[s] = "skill"
    /\ phase = "over"
    /\ Answer(s)
    /\ UNCHANGED <<runVars, sends, frames, violations, asrVars>>

-----------------------------------------------------------------------------

LoopStep(s) ==
    \/ Pong(s) \/ Violation(s) \/ Quick(s)
    \/ Transcribe(s) \/ AsrExpires(s)
    \/ RunSkill(s) \/ SkillAnswered(s)

Run ==
    /\ Caller \/ Feeder \/ \E p \in Pipe : Reader(p)
    /\ UNCHANGED cmdVars

Process == ProcStep /\ UNCHANGED cmdVars

(* The receive loop has a step to take: LoopStep is enabled.               *)
LoopReady(s) ==
    \/ at[s] = "reading" /\ inbox[s] # <<>>
    \/ Requesting(s) /\ due = 0
    \/ at[s] = "skill" /\ phase = "over"

(* The event loop has something to do that takes no time: that excludes to *)
(* read from a process that goes on writing.                               *)
Busy ==
    \/ CallerReady \/ FeederReady
    \/ proc \in {"mute", "dead"} /\ \E p \in Pipe : ReaderReady(p)
    \/ \E s \in Session : LoopReady(s)

(* A pong is behind the lock, or behind a request of several operations.   *)
HeldUp(s) == at[s] = "asr" /\ (~Requesting(s) \/ ops > 1)

Tick ==
    /\ served = "up"
    /\ ~Busy
    /\ RunTick
    /\ due' = IF line = <<>> THEN due ELSE due - 1
    /\ ping' = [s \in Session |-> IF ping[s] < Heartbeat THEN ping[s] + 1 ELSE ping[s]]
    /\ behind' = [s \in Session |-> behind[s] \/ (ping[s] # NoPing /\ HeldUp(s))]
    /\ UNCHANGED <<sends, inbox, frames, at, violations, line, ops>>

Startup == (Load \/ Rewrite) /\ UNCHANGED cmdVars

Next ==
    \/ Startup \/ Run \/ Process \/ Tick
    \/ \E s \in Session : \/ \E frame \in sends[s] : Send(s, frame)
                          \/ LoopStep(s)
                          \/ AsrProgress(s) \/ AsrEnds(s)

Spec == Init /\ [][Next]_vars

(* The event loop runs every ready task, and time passes, whatever the     *)
(* processes and the servers do.                                           *)
Fairness ==
    /\ WF_vars(Caller /\ UNCHANGED cmdVars)
    /\ WF_vars(Feeder /\ UNCHANGED cmdVars)
    /\ \A p \in Pipe : WF_vars(Reader(p) /\ UNCHANGED cmdVars)
    /\ \A s \in Session : WF_vars(LoopStep(s))
    /\ SF_vars(Tick)

FairSpec == Spec /\ Fairness

-----------------------------------------------------------------------------
(* What the commands promise.                                              *)

(* "Never returns partial results": a result is the object that a skill    *)
(* wrote to its end, all of it, before it ended by itself.                 *)
NoPartialResult ==
    outcome = "result" =>
        /\ proc = "dead"
        /\ exit = "object"
        /\ got = wrote
        /\ \A p \in Pipe : unread[p] = 0

(* A run that is over has killed its process or seen it end, and nobody    *)
(* reads its pipes; what fails has ended.  The exception is the run whose  *)
(* arguments could not be encoded, which leaves its process and readers.   *)
NoOrphan ==
    phase = "over" /\ outcome # "crashed" =>
        /\ proc \in {"alive", "mute"} => Killed
        /\ \A p \in Pipe : reader[p] # "reading" /\ drain[p] # "reading"
        /\ outcome = "failed" => proc = "dead"

(* "two readers on one StreamReader is illegal"                            *)
OneReader == \A p \in Pipe : ~(reader[p] = "reading" /\ drain[p] = "reading")

(* A dead process is collected at once: no time passes in _reap then.      *)
DeadIsReaped == [][phase = "reaping" /\ left' < left => proc # "dead"]_vars

(* "a skill can waste at most its own timeout window": whatever the        *)
(* process does with its pipes, no command leaves a process that was not   *)
(* killed, or a reader, behind, but the one whose arguments could not be   *)
(* encoded; a pipe never has two readers, and no time is lost on a process *)
(* that is dead.                                                           *)
SandboxContained == []NoOrphan /\ []OneReader /\ DeadIsReaped

(* "must fail before the client's heartbeat gives up on the link": among   *)
(* asr.transcribe and skill.run, a ping waits that long only behind        *)
(* several commands, or behind the lock, or behind a request whose server  *)
(* goes on now and then.                                                   *)
PingsInTime == \A s \in Session : ping[s] = Heartbeat => behind[s]

(* Every frame is received and every command answered while its connection *)
(* lasts, or the loop waits for the ASR client for ever, whose server goes *)
(* on for ever.                                                            *)
EveryFrameAnswered ==
    \A s \in Session :
        \/ <>[](at[s] = "asr") /\ []<><<\E t \in Session : AsrProgress(t)>>_vars
        \/ inbox[s] # <<>> \/ at[s] \in Slow ~> inbox[s] = <<>> /\ at[s] \notin Slow

-----------------------------------------------------------------------------
(* The inductive invariant of the commands.                                *)

(* Who waits for the lock of the ASR client is in line once, and who has   *)
(* it has a request.                                                       *)
InLineOnce ==
    /\ line # <<>> => ops > 0
    /\ \A i \in DOMAIN line : at[line[i]] = "asr"
    /\ \A i, j \in DOMAIN line : line[i] = line[j] => i = j

(* A connection that is open has not had too many violations.              *)
OpenOrClosed ==
    \A s \in Session : IF at[s] = "closed" THEN inbox[s] = <<>> ELSE violations[s] < MaxViolations

(* The core that serves has accepted every skill, and a run has no more    *)
(* time than its manifest says.                                            *)
TimeLeft ==
    /\ served = "up" => \A m \in library : Valid(m)
    /\ phase \in {"spawning", "gathering", "waiting"} => left <= MaxTimeout
    /\ phase = "reaping" => left <= ReapTimeout
    /\ \A s \in Session : at[s] = "skill" => phase # "none"

(* _reap has a reader for either pipe, and one that is done found its end. *)
Drained ==
    \A p \in Pipe :
        /\ phase = "reaping" => drain[p] \in {"reading", "eof"}
        /\ drain[p] = "eof" => AtEof(p)

(* How long the ping of s can have waited, no other command before it.     *)
SkillInTime(s) ==
    /\ phase \in {"spawning", "gathering", "waiting"} => ping[s] + left <= MaxTimeout
    /\ phase = "settling" => ping[s] <= MaxTimeout
    /\ phase = "reaping" => ping[s] + left <= MaxTimeout + ReapTimeout
    /\ phase = "over" => ping[s] <= MaxTimeout + ReapTimeout

AsrInTime(s) ==
    /\ ping[s] <= AsrTimeout
    /\ ~Requesting(s) => ping[s] = 0
    /\ ops <= 1 => ping[s] + due <= AsrTimeout

InTime(s) ==
    /\ ping[s] < Heartbeat
    /\ at[s] = "skill" => SkillInTime(s)
    /\ at[s] = "asr" => AsrInTime(s)

(* The i-th frame in the inbox of s is its ping, alone of its kind, and    *)
(* at most one command is in front of it.                                  *)
PingAt(s, i) ==
    /\ i \in DOMAIN inbox[s] /\ inbox[s][i] = "ping"
    /\ \A j \in DOMAIN inbox[s] : inbox[s][j] = "ping" => j = i

CommandsBefore(s, i) == {j \in 1..(i - 1) : inbox[s][j] \in Slow}

Waits(s, i) ==
    \/ CommandsBefore(s, i) = {} /\ InTime(s)
    \/ at[s] = "reading" /\ ping[s] = 0 /\ \A j, k \in CommandsBefore(s, i) : j = k

PingPlaced(s) ==
    IF ping[s] = NoPing
    THEN \A i \in DOMAIN inbox[s] : inbox[s][i] # "ping"
    ELSE \E i \in DOMAIN inbox[s] : PingAt(s, i) /\ (behind[s] \/ Waits(s, i))

PingInv == \A s \in Session : PingPlaced(s)

CmdInv ==
    /\ RunInv
    /\ TypeOK
    /\ InLineOnce
    /\ OpenOrClosed
    /\ TimeLeft
    /\ Drained
    /\ PingInv
=============================================================================
