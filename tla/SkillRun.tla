------------------------------- MODULE SkillRun -------------------------------
(***************************************************************************)
(* A run of a skill: SkillLibrary (skills/library.py) and run_skill, with  *)
(* _drain and _reap (skills/sandbox.py).                                   *)
(*                                                                         *)
(* The tasks are the command that awaits the run, feed_stdin and a reader  *)
(* per pipe; the process in the sandbox does as it likes.  Output counts   *)
(* in units of a full kernel pipe, time in ticks.                          *)
(***************************************************************************)
EXTENDS Naturals

CONSTANTS
    Libraries,      \* the libraries that may be on disk at startup
    Args,           \* kinds of arguments: "small", "large", "odd"
    MaxTimeout,     \* MAX_TIMEOUT_S
    ReapTimeout,    \* _REAP_TIMEOUT_S
    OutCap,         \* MAX_RESULT_BYTES
    Kernel,         \* what the kernel holds of a pipe
    Buffer,         \* what a StreamReader holds before it stops reading
    MaxOutput       \* bound on what a skill writes to stdout

ASSUME RunAssumption ==
    /\ Args \subseteq {"small", "large", "odd"}
    /\ {MaxTimeout, ReapTimeout, OutCap, Kernel, Buffer, MaxOutput} \subseteq Nat

Pipe == {"out", "err"}

VARIABLES
    library,    \* the skill directories
    served,     \* startup: loading, up, or refused
    disk,       \* the skill's code: as loaded, or rewritten
    \* The command.
    phase,      \* what run_skill awaits
    args,       \* the kind of its arguments
    why,        \* the exception that it handles
    left,       \* ticks until its time-out
    outcome,    \* what it returned or raised
    feeder,     \* feed_stdin
    reader,     \* reader[p]: the task that drains p
    drain,      \* drain[p]: the one that _reap has for it
    got,        \* stdout that was kept
    \* The sandbox.
    proc,       \* the process; mute: it has closed its pipes
    code,       \* whether Python has read its code
    unread,     \* unread[p]: written and not read
    wrote,      \* stdout so far
    exit        \* how it ended

taskVars == <<feeder, reader, drain>>
procVars == <<proc, code, unread, wrote, exit>>
runVars  == <<library, served, disk, phase, args, why, left, outcome, feeder, reader, drain,
              got, proc, code, unread, wrote, exit>>

RunTypeOK ==
    /\ served \in {"loading", "up", "refused"}
    /\ disk \in {"loaded", "rewritten"}
    /\ phase \in {"none", "spawning", "gathering", "waiting", "settling", "reaping", "over"}
    /\ args \in Args \cup {"none"}
    /\ why \in {"none", "timeout", "overflow"}
    /\ left \in 0..(MaxTimeout + ReapTimeout)
    /\ outcome \in {"none", "result", "failed", "refused", "crashed"}
    /\ feeder \in {"none", "writing", "done", "failed", "cancelled"}
    /\ reader \in [Pipe -> {"none", "reading", "eof", "overflow", "cancelled"}]
    /\ drain \in [Pipe -> {"none", "reading", "eof", "cancelled"}]
    /\ got \in 0..OutCap
    /\ proc \in {"none", "alive", "mute", "dead"}
    /\ code \in {"none", "read"}
    /\ unread \in [Pipe -> 0..(Kernel + Buffer)]
    /\ wrote \in 0..MaxOutput
    /\ exit \in {"none", "object", "junk", "fail", "bwrap", "killed"}

RunInit ==
    /\ library \in Libraries
    /\ served = "loading"
    /\ disk = "loaded"
    /\ phase = "none"
    /\ args = "none"
    /\ why = "none"
    /\ left = 0
    /\ outcome = "none"
    /\ feeder = "none"
    /\ reader = [p \in Pipe |-> "none"]
    /\ drain = [p \in Pipe |-> "none"]
    /\ got = 0
    /\ proc = "none"
    /\ code = "none"
    /\ unread = [p \in Pipe |-> 0]
    /\ wrote = 0
    /\ exit = "none"

-----------------------------------------------------------------------------
(* The library.                                                            *)

(* A slip: a time-out has only to be positive.                             *)
ValidEver(m) == m.complete /\ m.named /\ m.hash = "current" /\ m.timeout > 0

(* _load_manifest accepts the directory.                                   *)
Valid(m) ==
    /\ m.complete               \* every key, no other, and of the right type
    /\ m.timeout \in 1..MaxTimeout
    /\ m.named                  \* as its directory
    /\ m.hash = "current"       \* skill.py is there, with the hash it declares

(* load(): one bad directory, and the core does not start.                 *)
Load ==
    /\ served = "loading"
    /\ served' = IF \A m \in library : Valid(m) THEN "up" ELSE "refused"
    /\ UNCHANGED <<library, disk, phase, args, why, left, outcome, taskVars, got, procVars>>

(* Somebody writes to the skill's file.  After verify_hash it makes no      *)
(* difference here, for a process does as it likes, whatever its code.     *)
Rewrite ==
    /\ served = "up"
    /\ phase = "none"
    /\ disk = "loaded"
    /\ disk' = "rewritten"
    /\ UNCHANGED <<library, served, phase, args, why, left, outcome, taskVars, got, procVars>>

-----------------------------------------------------------------------------
(* run_skill.                                                              *)

Over(how) == phase' = "over" /\ outcome' = how

(* verify_hash, then the call that starts the process.                     *)
Begin(m) ==
    /\ served = "up"
    /\ phase = "none"
    /\ args' \in Args
    /\ left' = m.timeout
    /\ IF disk = "rewritten"
       THEN Over("refused")
       ELSE phase' = "spawning" /\ UNCHANGED outcome
    /\ UNCHANGED <<library, served, disk, why, taskVars, got, procVars>>

Spawned ==
    /\ phase = "spawning"
    /\ phase' = "gathering"
    /\ proc' = "alive"
    /\ feeder' = "writing"
    /\ reader' = [p \in Pipe |-> "reading"]
    /\ UNCHANGED <<library, served, disk, args, why, left, outcome, drain, got, code, unread,
                   wrote, exit>>

SpawnFails ==
    /\ phase = "spawning"
    /\ Over("refused")
    /\ UNCHANGED <<library, served, disk, args, why, left, taskVars, got, procVars>>

(* feed_stdin: large arguments wait for a reader, the death of the process *)
(* is not its business, and what cannot be encoded raises.                 *)
Fed ==
    /\ phase = "gathering"
    /\ feeder = "writing"
    /\ args # "odd"
    /\ args = "large" => proc = "dead"
    /\ feeder' = "done"
    /\ UNCHANGED <<library, served, disk, phase, args, why, left, outcome, reader, drain, got,
                   procVars>>

(* The exception leaves run_skill, past its handlers.                      *)
FeedFails ==
    /\ phase = "gathering"
    /\ feeder = "writing"
    /\ args = "odd"
    /\ feeder' = "failed"
    /\ Over("crashed")
    /\ UNCHANGED <<library, served, disk, args, why, left, reader, drain, got, procVars>>

(* A slip: of stdout, too, what is too much is cut off.                    *)
KeepCut(p) ==
    /\ got' = IF p = "out" /\ got < OutCap THEN got + 1 ELSE got
    /\ UNCHANGED reader

(* A chunk was read: of stderr the excess is discarded, of stdout it ends  *)
(* the run.                                                                *)
Keep(p) ==
    IF p = "err" THEN UNCHANGED <<got, reader>>
    ELSE IF got < OutCap THEN got' = got + 1 /\ UNCHANGED reader
    ELSE reader' = [reader EXCEPT ![p] = "overflow"] /\ UNCHANGED got

(* _drain goes on.                                                         *)
Read(p) ==
    /\ reader[p] = "reading"
    /\ unread[p] > 0
    /\ unread' = [unread EXCEPT ![p] = @ - 1]
    /\ Keep(p)
    /\ UNCHANGED <<library, served, disk, phase, args, why, left, outcome, feeder, drain, proc,
                   code, wrote, exit>>

AtEof(p) == unread[p] = 0 /\ proc \in {"mute", "dead"}

ReadEof(p) ==
    /\ reader[p] = "reading"
    /\ AtEof(p)
    /\ reader' = [reader EXCEPT ![p] = "eof"]
    /\ UNCHANGED <<library, served, disk, phase, args, why, left, outcome, feeder, drain, got,
                   procVars>>

Gathered ==
    /\ phase = "gathering"
    /\ feeder = "done"
    /\ \A p \in Pipe : reader[p] = "eof"
    /\ phase' = "waiting"
    /\ UNCHANGED <<library, served, disk, args, why, left, outcome, taskVars, got, procVars>>

(* Process.wait() returns once the pipes are at their end as well, and a   *)
(* StreamReader that holds too much does not get there.                    *)
Reapable == proc = "dead" /\ \A p \in Pipe : unread[p] <= Buffer

(* The exit status, then the output.                                       *)
Verdict ==
    CASE exit = "object" -> "result"
      [] exit = "bwrap"  -> "refused"
      [] OTHER           -> "failed"

Returns ==
    /\ phase = "waiting"
    /\ Reapable
    /\ Over(Verdict)
    /\ UNCHANGED <<library, served, disk, args, why, left, taskVars, got, procVars>>

Handle(exc) ==
    /\ phase' = "settling"
    /\ why' = exc
    /\ UNCHANGED <<library, served, disk, args, left, outcome, taskVars, got, procVars>>

Expires == phase \in {"gathering", "waiting"} /\ left = 0 /\ Handle("timeout")

Overflows == phase = "gathering" /\ reader["out"] = "overflow" /\ Handle("overflow")

Settle ==
    /\ feeder' = IF feeder = "writing" THEN "cancelled" ELSE feeder
    /\ reader' = [p \in Pipe |-> IF reader[p] = "reading" THEN "cancelled" ELSE reader[p]]

(* A slip: _reap kills and waits.                                          *)
DiscardNone == drain' = [p \in Pipe |-> "eof"]

Discard == drain' = [p \in Pipe |-> "reading"]

(* The tasks have settled.  _reap: kill, then drain what is left.          *)
Settled ==
    /\ phase = "settling"
    /\ Settle
    /\ phase' = "reaping"
    /\ left' = ReapTimeout
    /\ Discard
    /\ UNCHANGED <<library, served, disk, args, why, outcome, got, procVars>>

Killed == phase = "reaping" \/ (phase = "over" /\ why # "none")

Drain(p) ==
    /\ phase = "reaping"
    /\ drain[p] = "reading"
    /\ \/ unread[p] > 0 /\ unread' = [unread EXCEPT ![p] = @ - 1] /\ UNCHANGED drain
       \/ AtEof(p) /\ drain' = [drain EXCEPT ![p] = "eof"] /\ UNCHANGED unread
    /\ UNCHANGED <<library, served, disk, phase, args, why, left, outcome, feeder, reader, got,
                   proc, code, wrote, exit>>

Reaped ==
    /\ phase = "reaping"
    /\ \A p \in Pipe : drain[p] = "eof"
    /\ Reapable
    /\ Over("failed")
    /\ UNCHANGED <<library, served, disk, args, why, left, taskVars, got, procVars>>

ReapExpires ==
    /\ phase = "reaping"
    /\ left = 0
    /\ drain' = [p \in Pipe |-> IF drain[p] = "reading" THEN "cancelled" ELSE drain[p]]
    /\ Over("refused")
    /\ UNCHANGED <<library, served, disk, args, why, left, feeder, reader, got, procVars>>

-----------------------------------------------------------------------------
(* The process.                                                            *)

(* Python opens the file that bwrap mounted.                               *)
ProcLoads ==
    /\ proc = "alive"
    /\ code = "none"
    /\ code' = "read"
    /\ UNCHANGED <<library, served, disk, phase, args, why, left, outcome, taskVars, got, proc,
                   unread, wrote, exit>>

ProcReads ==
    /\ proc = "alive"
    /\ code # "none"
    /\ feeder = "writing"
    /\ args = "large"
    /\ feeder' = "done"
    /\ UNCHANGED <<library, served, disk, phase, args, why, left, outcome, reader, drain, got,
                   procVars>>

ProcWrites(p) ==
    /\ proc = "alive"
    /\ code # "none"
    /\ unread[p] < Kernel + Buffer
    /\ unread' = [unread EXCEPT ![p] = @ + 1]
    /\ p = "out" => wrote < MaxOutput
    /\ wrote' = IF p = "out" THEN wrote + 1 ELSE wrote
    /\ UNCHANGED <<library, served, disk, phase, args, why, left, outcome, taskVars, got, proc,
                   code, exit>>

(* It goes on without its output pipes.                                    *)
ProcMutes ==
    /\ proc = "alive"
    /\ code # "none"
    /\ proc' = "mute"
    /\ UNCHANGED <<library, served, disk, phase, args, why, left, outcome, taskVars, got, code,
                   unread, wrote, exit>>

(* It ends by itself, with a JSON object on stdout, something else, or a   *)
(* status; or bwrap could not set the sandbox up.                          *)
ProcExits ==
    /\ proc \in {"alive", "mute"}
    /\ proc' = "dead"
    /\ exit' \in IF code = "none" THEN {"bwrap"} ELSE {"object", "junk", "fail"}
    /\ exit' = "object" => wrote > 0
    /\ UNCHANGED <<library, served, disk, phase, args, why, left, outcome, taskVars, got, code,
                   unread, wrote>>

(* SIGKILL takes effect.                                                   *)
ProcDies ==
    /\ Killed
    /\ proc \in {"alive", "mute"}
    /\ proc' = "dead"
    /\ exit' = "killed"
    /\ UNCHANGED <<library, served, disk, phase, args, why, left, outcome, taskVars, got, code,
                   unread, wrote>>

-----------------------------------------------------------------------------

Feeder == Fed \/ FeedFails

Reader(p) == Read(p) \/ ReadEof(p) \/ Drain(p)

(* The command that awaits run_skill.                                      *)
Caller ==
    \/ Spawned \/ SpawnFails
    \/ Gathered \/ Returns
    \/ Expires \/ Overflows \/ Settled
    \/ Reaped \/ ReapExpires

(* A task has a step to take: these say when Caller, Feeder, and Reader at *)
(* a pipe that is closed, are enabled.                                     *)
CallerReady ==
    \/ phase \in {"spawning", "settling"}
    \/ phase \in {"gathering", "waiting", "reaping"} /\ left = 0
    \/ /\ phase = "gathering"
       /\ reader["out"] = "overflow" \/ (feeder = "done" /\ \A p \in Pipe : reader[p] = "eof")
    \/ phase = "waiting" /\ Reapable
    \/ phase = "reaping" /\ Reapable /\ \A p \in Pipe : drain[p] = "eof"

FeederReady == phase = "gathering" /\ feeder = "writing" /\ (args = "large" => proc = "dead")

ReaderReady(p) == reader[p] = "reading" \/ (phase = "reaping" /\ drain[p] = "reading")

ProcStep ==
    \/ ProcLoads \/ ProcReads \/ ProcMutes \/ ProcExits \/ ProcDies
    \/ \E p \in Pipe : ProcWrites(p)

(* Time passes for the run.                                                *)
RunTick ==
    /\ left' = IF phase \in {"gathering", "waiting", "reaping"} THEN left - 1 ELSE left
    /\ UNCHANGED <<library, served, disk, phase, args, why, outcome, taskVars, got, procVars>>

-----------------------------------------------------------------------------
(* The inductive invariant of a run.                                       *)

RunTypes ==
    /\ reader \in [Pipe -> {"none", "reading", "eof", "overflow", "cancelled"}]
    /\ drain \in [Pipe -> {"none", "reading", "eof", "cancelled"}]
    /\ unread \in [Pipe -> Nat]
    /\ got \in Nat
    /\ wrote \in Nat

(* No process and no tasks yet.                                            *)
Unspawned ==
    phase \in {"none", "spawning"} =>
        /\ proc = "none" /\ feeder = "none" /\ got = 0 /\ wrote = 0
        /\ \A p \in Pipe : reader[p] = "none" /\ drain[p] = "none" /\ unread[p] = 0

(* Only a run that handles an exception kills and reaps.                   *)
ReapsOnException ==
    /\ phase \in {"none", "spawning", "gathering", "waiting"} => why = "none" /\ outcome = "none"
    /\ phase \in {"settling", "reaping"} => why # "none" /\ outcome = "none"

(* Nothing of stdout is lost before the run handles an exception.          *)
AllKept == why = "none" /\ reader["out"] # "overflow" => got + unread["out"] = wrote

EofIsLast == \A p \in Pipe : reader[p] = "eof" => AtEof(p)

(* A reader is gone before _reap has one of its own.                       *)
ReaderFirst ==
    \A p \in Pipe :
        /\ drain[p] # "none" => phase \in {"reaping", "over"}
        /\ phase \in {"waiting", "reaping"} => reader[p] # "reading"
        /\ drain[p] # "none" => reader[p] # "reading"
        /\ drain[p] = "reading" => phase = "reaping"
        /\ phase = "waiting" => reader[p] = "eof"

(* How a run can have ended.                                               *)
OverInTime ==
    /\ phase = "over" => outcome # "none"
    /\ phase = "over" /\ outcome # "crashed" =>
          /\ proc \in {"alive", "mute"} => why # "none"
          /\ \A p \in Pipe : reader[p] # "reading"
    /\ outcome = "failed" => proc = "dead"
    /\ outcome = "result" =>
          /\ why = "none" /\ proc = "dead" /\ exit = "object"
          /\ \A p \in Pipe : reader[p] = "eof"

RunInv ==
    /\ RunTypes
    /\ Unspawned
    /\ ReapsOnException
    /\ AllKept
    /\ EofIsLast
    /\ ReaderFirst
    /\ OverInTime
=============================================================================
