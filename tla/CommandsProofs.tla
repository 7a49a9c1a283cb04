----------------------------- MODULE CommandsProofs -----------------------------
(***************************************************************************)
(* Proofs about Commands, for any libraries, arguments, sessions, traffic, *)
(* caps and time-outs: a result is never partial; no process and no reader *)
(* is left behind but by a run whose arguments could not be encoded, and   *)
(* no time is lost on a process that is dead; a pipe never has two         *)
(* readers; and a ping is answered within the heartbeat unless several     *)
(* commands, the lock of the ASR client or a request that goes on and on   *)
(* hold it up.                                                             *)
(***************************************************************************)
EXTENDS Commands, TLAPS

LEMMA InitEstablishes == Init => RunInv
BY DEF Init, RunInit, RunInv, RunTypes, Unspawned, ReapsOnException, AllKept, EofIsLast,
       ReaderFirst, OverInTime, Pipe

(* Nothing happens to the run.                                             *)
LEMMA IdleKeeps == RunInv /\ UNCHANGED runVars => RunInv'
BY DEF runVars, RunInv, RunTypes, Unspawned, ReapsOnException, AllKept, EofIsLast, AtEof,
       ReaderFirst, OverInTime

(* The library, its files and time are no business of the invariant.       *)
LEMMA AsideKeeps == RunInv /\ (Load \/ Rewrite \/ RunTick) => RunInv'
BY DEF Load, Rewrite, RunTick, taskVars, procVars, RunInv, RunTypes, Unspawned,
       ReapsOnException, AllKept, EofIsLast, AtEof, ReaderFirst, OverInTime

(* A run begins, and its process.                                          *)
LEMMA BeginKeeps == ASSUME RunInv, NEW m, Begin(m) PROVE RunInv'
BY DEF Begin, Over, taskVars, procVars, RunInv, RunTypes, Unspawned, ReapsOnException, AllKept,
       EofIsLast, AtEof, ReaderFirst, OverInTime

LEMMA SpawnKeeps == RunInv /\ (Spawned \/ SpawnFails) => RunInv'
<1> SUFFICES ASSUME RunInv, Spawned \/ SpawnFails PROVE RunInv'
  OBVIOUS
<1> USE DEF RunInv, taskVars, procVars
<1>1. CASE Spawned
  BY <1>1 DEF Spawned, RunTypes, Unspawned, ReapsOnException, AllKept, EofIsLast, AtEof,
              ReaderFirst, OverInTime, Pipe
<1>2. CASE SpawnFails
  BY <1>2 DEF SpawnFails, Over, RunTypes, Unspawned, ReapsOnException, AllKept, EofIsLast,
              AtEof, ReaderFirst, OverInTime
<1> QED BY <1>1, <1>2

LEMMA FeederKeeps == RunInv /\ Feeder => RunInv'
BY DEF Feeder, Fed, FeedFails, Over, procVars, RunInv, RunTypes, Unspawned, ReapsOnException,
       AllKept, EofIsLast, AtEof, ReaderFirst, OverInTime

(* What a reader takes from stdout it keeps, or it ends the run.           *)
LEMMA ReadKeeps == ASSUME RunInv, NEW p \in Pipe, Read(p) PROVE RunInv'
<1> USE DEF RunInv
<1>1. /\ reader[p] = "reading" /\ unread[p] \in Nat /\ unread[p] > 0
      /\ unread' = [unread EXCEPT ![p] = @ - 1]
      /\ UNCHANGED <<phase, why, outcome, feeder, drain, proc, wrote, exit>>
  BY DEF Read, RunTypes
<1>2. \/ p = "err" /\ UNCHANGED <<got, reader>>
      \/ p = "out" /\ got' = got + 1 /\ reader' = reader
      \/ p = "out" /\ got' = got /\ reader' = [reader EXCEPT !["out"] = "overflow"]
  BY DEF Read, Keep, Pipe
<1>3. RunTypes'
  BY <1>1, <1>2 DEF RunTypes
<1>4. Unspawned'
  BY <1>1 DEF Unspawned
<1>5. ReapsOnException'
  BY <1>1 DEF ReapsOnException
<1>6. AllKept'
  BY <1>1, <1>2 DEF AllKept, RunTypes, Pipe
<1>7. EofIsLast'
  BY <1>1, <1>2 DEF EofIsLast, AtEof, RunTypes
<1>8. ReaderFirst'
  BY <1>1, <1>2 DEF ReaderFirst, RunTypes
<1>9. OverInTime'
  BY <1>1, <1>2 DEF OverInTime, RunTypes
<1> QED BY <1>3, <1>4, <1>5, <1>6, <1>7, <1>8, <1>9

LEMMA ReaderKeeps == ASSUME RunInv, NEW p \in Pipe, Reader(p) PROVE RunInv'
<1> USE DEF RunInv
<1>1. CASE ReadEof(p)
  BY <1>1 DEF ReadEof, procVars, RunTypes, Unspawned, ReapsOnException, AllKept, EofIsLast,
              AtEof, ReaderFirst, OverInTime, Pipe
<1>2. CASE Drain(p)
  <2>1. /\ phase = "reaping" /\ why # "none" /\ drain[p] = "reading"
        /\ UNCHANGED <<phase, why, outcome, feeder, reader, got, proc, wrote, exit>>
        /\ \/ unread[p] > 0 /\ unread' = [unread EXCEPT ![p] = @ - 1] /\ UNCHANGED drain
           \/ drain' = [drain EXCEPT ![p] = "eof"] /\ UNCHANGED unread
    BY <1>2 DEF Drain, ReapsOnException
  <2>2. RunTypes'
    BY <2>1 DEF RunTypes
  <2>3. Unspawned' /\ ReapsOnException' /\ AllKept' /\ ReaderFirst' /\ OverInTime'
    BY <2>1 DEF Unspawned, ReapsOnException, AllKept, ReaderFirst, OverInTime, RunTypes
  <2>4. EofIsLast'
    BY <2>1 DEF EofIsLast, AtEof, RunTypes
  <2> QED BY <2>2, <2>3, <2>4
<1> QED BY <1>1, <1>2, ReadKeeps DEF Reader

(* The command comes to its verdict, or handles the exception and reaps.   *)
LEMMA CallerKeeps == RunInv /\ Caller => RunInv'
<1> SUFFICES ASSUME RunInv, Caller PROVE RunInv'
  OBVIOUS
<1> USE DEF RunInv, taskVars, procVars
<1>1. CASE Gathered
  BY <1>1 DEF Gathered, RunTypes, Unspawned, ReapsOnException, AllKept, EofIsLast, AtEof,
              ReaderFirst, OverInTime
<1>2. CASE Returns
  <2>1. Verdict \in {"result", "refused", "failed"} /\ (Verdict = "result" => exit = "object")
    BY DEF Verdict
  <2> QED BY <1>2, <2>1 DEF Returns, Reapable, Over, RunTypes, Unspawned, ReapsOnException,
                            AllKept, EofIsLast, AtEof, ReaderFirst, OverInTime
<1>3. CASE Expires \/ Overflows
  BY <1>3 DEF Expires, Overflows, Handle, RunTypes, Unspawned, ReapsOnException, AllKept,
              EofIsLast, AtEof, ReaderFirst, OverInTime
<1>4. CASE Settled
  <2>1. /\ \A p \in Pipe : reader'[p] = IF reader[p] = "reading" THEN "cancelled" ELSE reader[p]
        /\ \A p \in Pipe : drain'[p] = "reading"
        /\ reader' \in [Pipe -> {"none", "reading", "eof", "overflow", "cancelled"}]
        /\ drain' \in [Pipe -> {"none", "reading", "eof", "cancelled"}]
        /\ phase = "settling" /\ phase' = "reaping" /\ why # "none"
        /\ UNCHANGED <<why, outcome, got, proc, unread, wrote, exit>>
    BY <1>4 DEF Settled, Settle, Discard, RunTypes, ReapsOnException
  <2>2. RunTypes' /\ Unspawned' /\ ReapsOnException' /\ AllKept' /\ OverInTime'
    BY <2>1 DEF RunTypes, Unspawned, ReapsOnException, AllKept, OverInTime
  <2>3. EofIsLast' /\ ReaderFirst'
    BY <2>1 DEF EofIsLast, AtEof, ReaderFirst
  <2> QED BY <2>2, <2>3
<1>5. CASE Reaped
  BY <1>5 DEF Reaped, Reapable, Over, RunTypes, Unspawned, ReapsOnException, AllKept, EofIsLast,
              AtEof, ReaderFirst, OverInTime
<1>6. CASE ReapExpires
  <2>1. /\ \A p \in Pipe : drain'[p] = IF drain[p] = "reading" THEN "cancelled" ELSE drain[p]
        /\ drain' \in [Pipe -> {"none", "reading", "eof", "cancelled"}]
        /\ phase = "reaping" /\ phase' = "over" /\ outcome' = "refused" /\ why # "none"
        /\ UNCHANGED <<why, feeder, reader, got, proc, unread, wrote, exit>>
    BY <1>6 DEF ReapExpires, Over, RunTypes, ReapsOnException
  <2> QED BY <2>1 DEF RunTypes, Unspawned, ReapsOnException, AllKept, EofIsLast, AtEof,
                      ReaderFirst, OverInTime
<1> QED BY <1>1, <1>2, <1>3, <1>4, <1>5, <1>6, SpawnKeeps DEF Caller

(* The process does as it likes, while it lives and has its pipes.         *)
LEMMA ProcKeeps == RunInv /\ ProcStep => RunInv'
<1> SUFFICES ASSUME RunInv, ProcStep PROVE RunInv'
  OBVIOUS
<1> USE DEF RunInv, taskVars, procVars
<1>1. CASE ProcLoads \/ ProcReads
  BY <1>1 DEF ProcLoads, ProcReads, RunTypes, Unspawned, ReapsOnException, AllKept, EofIsLast,
              AtEof, ReaderFirst, OverInTime
<1>2. CASE ProcMutes \/ ProcExits \/ ProcDies
  BY <1>2 DEF ProcMutes, ProcExits, ProcDies, RunTypes, Unspawned, ReapsOnException, AllKept,
              EofIsLast, AtEof, ReaderFirst, OverInTime
<1>3. ASSUME NEW p \in Pipe, ProcWrites(p) PROVE RunInv'
  <2>1. /\ proc = "alive" /\ phase \notin {"none", "spawning"}
        /\ unread' = [unread EXCEPT ![p] = @ + 1]
        /\ wrote' = IF p = "out" THEN wrote + 1 ELSE wrote
        /\ UNCHANGED <<phase, why, outcome, feeder, reader, drain, got, proc, exit>>
    BY <1>3 DEF ProcWrites, Unspawned
  <2>2. RunTypes'
    BY <2>1 DEF RunTypes
  <2>3. Unspawned' /\ ReapsOnException' /\ ReaderFirst' /\ OverInTime'
    BY <2>1 DEF Unspawned, ReapsOnException, ReaderFirst, OverInTime
  <2>4. AllKept'
    BY <2>1 DEF AllKept, RunTypes, Pipe
  <2>5. EofIsLast'
    BY <2>1 DEF EofIsLast, AtEof
  <2> QED BY <2>2, <2>3, <2>4, <2>5
<1> QED BY <1>1, <1>2, <1>3 DEF ProcStep

LEMMA StepKeeps == RunInv /\ [Next]_vars => RunInv'
<1> SUFFICES ASSUME RunInv, [Next]_vars PROVE RunInv'
  OBVIOUS
<1>1. CASE Startup \/ Run \/ Process \/ Tick
  BY <1>1, AsideKeeps, CallerKeeps, FeederKeeps, ReaderKeeps, ProcKeeps
     DEF Startup, Run, Process, Tick
<1>2. ASSUME NEW s \in Session, NEW frame, Send(s, frame) PROVE RunInv'
  BY <1>2, IdleKeeps DEF Send
<1>3. ASSUME NEW s \in Session, LoopStep(s) PROVE RunInv'
  BY <1>3, IdleKeeps, BeginKeeps
     DEF LoopStep, Pong, Violation, Quick, Transcribe, AsrExpires, RunSkill, SkillAnswered
<1>4. ASSUME NEW s \in Session, AsrProgress(s) \/ AsrEnds(s) PROVE RunInv'
  BY <1>4, IdleKeeps DEF AsrProgress, AsrEnds
<1>5. CASE UNCHANGED vars
  BY <1>5, IdleKeeps DEF vars, runVars
<1> QED BY <1>1, <1>2, <1>3, <1>4, <1>5 DEF Next

(* What a run has read, and who reads it, agrees with how far it has come. *)
THEOREM InvariantHolds == Spec => []RunInv
<1> QED BY InitEstablishes, StepKeeps, PTL DEF Spec

(* "Never returns partial results": what counts as a result is all that a  *)
(* skill wrote which ended by itself.                                      *)
THEOREM NoPartialResultHolds == Spec => []NoPartialResult
<1>1. RunInv => NoPartialResult
  BY DEF RunInv, RunTypes, AllKept, EofIsLast, AtEof, OverInTime, NoPartialResult, Pipe
<1> QED BY <1>1, InvariantHolds, PTL

(* A run that is over has killed its process or seen it end, and nobody    *)
(* reads its pipes, unless its arguments could not be encoded.             *)
THEOREM NoOrphanHolds == Spec => []NoOrphan
<1>1. RunInv => NoOrphan
  BY DEF RunInv, ReaderFirst, OverInTime, NoOrphan, Killed
<1> QED BY <1>1, InvariantHolds, PTL

(* _reap reads a pipe only after the reader of the run has left it.        *)
THEOREM OneReaderHolds == Spec => []OneReader
<1>1. RunInv => OneReader
  BY DEF RunInv, ReaderFirst, OneReader
<1> QED BY <1>1, InvariantHolds, PTL

-----------------------------------------------------------------------------
(* Time.                                                                   *)

LEMMA Bounds ==
    /\ AsrTimeout \in Nat /\ Heartbeat \in Nat
    /\ MaxViolations \in Nat \ {0}
    /\ MaxTimeout \in Nat /\ ReapTimeout \in Nat /\ OutCap \in Nat /\ Kernel \in Nat
    /\ Buffer \in Nat /\ MaxOutput \in Nat
    /\ NoPing \in Nat /\ NoPing = Heartbeat + 1
BY CommandAssumption, RunAssumption DEF NoPing

LEMMA CmdInit == Init => CmdInv
<1> SUFFICES ASSUME Init PROVE CmdInv
  OBVIOUS
<1>1. RunInv
  BY InitEstablishes
<1>2. RunTypeOK
  BY Bounds DEF Init, RunInit, RunTypeOK
<1>3. TypeOK
  BY <1>2, Bounds DEF Init, TypeOK
<1>4. InLineOnce /\ OpenOrClosed /\ PingInv
  BY Bounds DEF Init, InLineOnce, OpenOrClosed, PingInv, PingPlaced
<1>5. TimeLeft /\ Drained
  BY DEF Init, RunInit, TimeLeft, Drained
<1> QED BY <1>1, <1>3, <1>4, <1>5 DEF CmdInv

(* The types of the run.                                                   *)
LEMMA BeginTypes == ASSUME RunTypeOK, TimeLeft, NEW m \in library, Begin(m) PROVE RunTypeOK'
<1>1. m.timeout \in 1..MaxTimeout
  BY DEF TimeLeft, Begin, Valid
<1> QED BY <1>1, Bounds DEF Begin, Over, RunTypeOK, taskVars, procVars

LEMMA CallerTypes == RunTypeOK /\ Caller => RunTypeOK'
<1> SUFFICES ASSUME RunTypeOK, Caller PROVE RunTypeOK'
  OBVIOUS
<1> USE Bounds DEF RunTypeOK, taskVars, procVars
<1>1. CASE Spawned \/ SpawnFails \/ Gathered
  BY <1>1 DEF Spawned, SpawnFails, Gathered, Over
<1>2. CASE Returns \/ Reaped \/ ReapExpires
  BY <1>2 DEF Returns, Reaped, ReapExpires, Over, Verdict
<1>3. CASE Expires \/ Overflows
  BY <1>3 DEF Expires, Overflows, Handle
<1>4. CASE Settled
  BY <1>4 DEF Settled, Settle, Discard
<1> QED BY <1>1, <1>2, <1>3, <1>4 DEF Caller

LEMMA ReaderTypes == ASSUME RunTypeOK, NEW p \in Pipe, Reader(p) PROVE RunTypeOK'
<1> USE Bounds DEF RunTypeOK, taskVars, procVars
<1>1. CASE Read(p)
  BY <1>1 DEF Read, Keep
<1>2. CASE ReadEof(p)
  BY <1>2 DEF ReadEof
<1>3. CASE Drain(p)
  BY <1>3 DEF Drain
<1> QED BY <1>1, <1>2, <1>3 DEF Reader

LEMMA ProcTypes == RunTypeOK /\ ProcStep => RunTypeOK'
<1> SUFFICES ASSUME RunTypeOK, ProcStep PROVE RunTypeOK'
  OBVIOUS
<1> USE Bounds DEF RunTypeOK, taskVars, procVars
<1>1. CASE ProcLoads \/ ProcReads \/ ProcMutes
  BY <1>1 DEF ProcLoads, ProcReads, ProcMutes
<1>2. CASE ProcExits \/ ProcDies
  BY <1>2 DEF ProcExits, ProcDies
<1>3. ASSUME NEW p \in Pipe, ProcWrites(p) PROVE RunTypeOK'
  BY <1>3 DEF ProcWrites
<1> QED BY <1>1, <1>2, <1>3 DEF ProcStep

LEMMA RestTypes == RunTypeOK /\ (Load \/ Rewrite \/ Feeder) => RunTypeOK'
BY DEF RunTypeOK, Load, Rewrite, Feeder, Fed, FeedFails, Over, taskVars, procVars

(* How the tasks and the process move the run on: its time is set when it  *)
(* begins to reap, and otherwise left alone.                               *)
RunMoves ==
    \/ UNCHANGED <<phase, left>>
    \/ phase = "spawning" /\ phase' \in {"gathering", "over"} /\ left' = left
    \/ phase = "gathering" /\ phase' \in {"waiting", "settling", "over"} /\ left' = left
    \/ phase = "waiting" /\ phase' \in {"settling", "over"} /\ left' = left
    \/ phase = "settling" /\ phase' = "reaping" /\ left' = ReapTimeout
    \/ phase = "reaping" /\ phase' = "over" /\ left' = left

LEMMA RunStepMoves ==
    ASSUME RunInv, RunTypeOK, TimeLeft, Drained, Run \/ Process
    PROVE  RunMoves /\ RunTypeOK' /\ TimeLeft' /\ Drained' /\ UNCHANGED cmdVars
<1> USE DEF taskVars, procVars, RunMoves
<1>1. UNCHANGED cmdVars /\ UNCHANGED <<library, served>>
  BY DEF Run, Process, Caller, Spawned, SpawnFails, Gathered, Returns, Expires, Overflows, Handle,
         Settled, Reaped, ReapExpires, Feeder, Fed, FeedFails, Reader, Read, ReadEof, Drain,
         ProcStep, ProcLoads, ProcReads, ProcMutes, ProcExits, ProcDies, ProcWrites
<1>2. RunMoves
  <2>1. Caller => RunMoves
    BY DEF Caller, Spawned, SpawnFails, Gathered, Returns, Expires, Overflows, Handle, Settled,
           Reaped, ReapExpires, Over
  <2>2. Feeder \/ (\E p \in Pipe : Reader(p)) => RunMoves
    BY DEF Feeder, Fed, FeedFails, Over, Reader, Read, ReadEof, Drain
  <2>3. ProcStep => RunMoves
    BY DEF ProcStep, ProcLoads, ProcReads, ProcMutes, ProcExits, ProcDies, ProcWrites
  <2> QED BY <2>1, <2>2, <2>3 DEF Run, Process
<1>3. RunTypeOK'
  BY CallerTypes, ReaderTypes, ProcTypes, RestTypes DEF Run, Process
<1>4. TimeLeft'
  <2>1. \A m \in library : Valid(m)' <=> Valid(m)
    BY DEF Valid
  <2>2. UNCHANGED at
    BY <1>1 DEF cmdVars
  <2> QED BY <1>1, <1>2, <2>1, <2>2, Bounds DEF TimeLeft, RunTypeOK
<1>5. Drained'
  <2>1. CASE Caller
    <3>1. CASE Spawned
      BY <3>1 DEF Spawned, RunInv, Unspawned, Drained
    <3>2. CASE Settled
      BY <3>2 DEF Settled, Discard, Drained
    <3> QED BY <2>1, <3>1, <3>2 DEF Caller, SpawnFails, Gathered, Returns, Expires, Overflows,
                   Handle, Reaped, ReapExpires, Over, Drained, AtEof
  <2>2. CASE Feeder
    BY <2>2 DEF Feeder, Fed, FeedFails, Over, Drained, AtEof
  <2>3. ASSUME NEW p \in Pipe, Reader(p) PROVE Drained'
    <3>1. CASE Read(p) \/ ReadEof(p)
      BY <3>1 DEF Read, ReadEof, Drained, AtEof, RunTypeOK
    <3>2. CASE Drain(p)
      BY <3>2 DEF Drain, Drained, AtEof, RunTypeOK
    <3> QED BY <2>3, <3>1, <3>2 DEF Reader
  <2>4. CASE ProcStep
    <3>1. ASSUME NEW p \in Pipe, ProcWrites(p) PROVE Drained'
      BY <3>1 DEF ProcWrites, Drained, AtEof, RunTypeOK
    <3> QED BY <2>4, <3>1 DEF ProcStep, ProcLoads, ProcReads, ProcMutes, ProcExits, ProcDies, Drained, AtEof
  <2> QED BY <2>1, <2>2, <2>3, <2>4 DEF Run, Process
<1> QED BY <1>1, <1>2, <1>3, <1>4, <1>5

-----------------------------------------------------------------------------
(* The ping.                                                               *)

(* A ping that has just been sent has waited for nothing.                  *)
LEMMA FreshInTime ==
    ASSUME TypeOK', TimeLeft', NEW s \in Session, ping'[s] = 0
    PROVE  InTime(s)'
<1>1. PICK n \in Nat, d \in 0..AsrTimeout : left' = n /\ due' = d
  BY Bounds DEF TypeOK, RunTypeOK
<1>2. /\ phase' \in {"spawning", "gathering", "waiting"} => n <= MaxTimeout
      /\ phase' = "reaping" => n <= ReapTimeout
  BY <1>1 DEF TimeLeft
<1>3. SkillInTime(s)'
  BY <1>1, <1>2, Bounds DEF SkillInTime
<1>4. AsrInTime(s)'
  BY <1>1, Bounds DEF AsrInTime
<1> QED BY <1>3, <1>4, Bounds, PatienceAssumption DEF InTime

(* A ping whose place has not changed waits on.                            *)
LEMMA PingStays ==
    ASSUME NEW s \in Session, PingPlaced(s),
           UNCHANGED <<inbox[s], at[s]>>,
           ping'[s] = NoPing <=> ping[s] = NoPing,
           behind[s] => behind'[s],
           at[s] = "reading" /\ inbox[s] # <<>> => ping'[s] = ping[s],
           ~behind'[s] /\ ping[s] # NoPing /\ inbox[s] # <<>> /\ InTime(s) => InTime(s)'
    PROVE  PingPlaced(s)'
<1>1. CASE ping[s] = NoPing
  BY <1>1 DEF PingPlaced
<1>2. CASE ping[s] # NoPing
  <2>1. PICK i \in DOMAIN inbox[s] : PingAt(s, i) /\ (behind[s] \/ Waits(s, i))
    BY <1>2 DEF PingPlaced
  <2>2. PingAt(s, i)'
    BY <2>1 DEF PingAt
  <2>3. behind'[s] \/ Waits(s, i)'
    BY <1>2, <2>1 DEF Waits, CommandsBefore, PingAt
  <2> QED BY <1>2, <2>1, <2>2, <2>3 DEF PingPlaced
<1> QED BY <1>1, <1>2

LEMMA TailIsRest ==
    ASSUME NEW F, NEW q \in Seq(F), q # <<>>
    PROVE  /\ Tail(q) \in Seq(F) /\ Head(q) = q[1] /\ 1 \in DOMAIN q
           /\ DOMAIN q = 1..Len(q) /\ Len(q) \in Nat
           /\ DOMAIN Tail(q) = 1..(Len(q) - 1)
           /\ \A j \in 1..(Len(q) - 1) : Tail(q)[j] = q[j + 1]
OBVIOUS

(* The frame before the ping was received: the ping moves up, and what it  *)
(* waits for is the command that has just begun, or none.                  *)
LEMMA PingMovesUp ==
    ASSUME TypeOK, NEW s \in Session, PingPlaced(s),
           at[s] = "reading", inbox[s] # <<>>, Head(inbox[s]) # "ping",
           inbox'[s] = Tail(inbox[s]), UNCHANGED <<ping[s], behind[s]>>,
           IF Head(inbox[s]) \in Slow
           THEN ping'[s] = 0 => InTime(s)'
           ELSE at'[s] = "reading"
    PROVE  PingPlaced(s)'
<1> DEFINE q == inbox[s]
<1>1. /\ Head(q) = q[1] /\ DOMAIN q = 1..Len(q) /\ Len(q) \in Nat /\ Len(q) > 0
      /\ DOMAIN inbox'[s] = 1..(Len(q) - 1)
      /\ \A j \in 1..(Len(q) - 1) : inbox'[s][j] = q[j + 1]
  <2>1. q \in Seq(FrameKind)
    BY DEF TypeOK
  <2> QED BY <2>1, TailIsRest
<1>2. CASE ping[s] = NoPing
  <2>1. \A j \in DOMAIN q : q[j] # "ping"
    BY <1>2 DEF PingPlaced
  <2>2. \A j \in DOMAIN inbox'[s] : inbox'[s][j] # "ping"
    BY <1>1, <2>1
  <2>3. NoPing' = NoPing
    BY DEF NoPing
  <2> QED BY <1>2, <2>2, <2>3 DEF PingPlaced
<1>3. CASE ping[s] # NoPing
  <2>1. PICK i \in DOMAIN q : PingAt(s, i) /\ (behind[s] \/ Waits(s, i))
    BY <1>3 DEF PingPlaced
  <2>2. i \in 2..Len(q)
    BY <1>1, <2>1 DEF PingAt
  <2>3. PingAt(s, i - 1)'
    <3>1. /\ i - 1 \in 1..(Len(q) - 1) /\ q[(i - 1) + 1] = "ping"
          /\ \A j \in 1..(Len(q) - 1) : q[j + 1] = "ping" => j = i - 1
      BY <1>1, <2>1, <2>2 DEF PingAt
    <3> QED BY <1>1, <3>1 DEF PingAt
  <2>4. ASSUME NEW j \in CommandsBefore(s, i - 1)'
        PROVE  j + 1 \in CommandsBefore(s, i) /\ 1 # j + 1 /\ j \in Nat
    BY <1>1, <2>2, <2>4 DEF CommandsBefore
  <2>5. q[1] \in Slow => 1 \in CommandsBefore(s, i)
    BY <2>2 DEF CommandsBefore
  <2>6. ASSUME Waits(s, i) PROVE Waits(s, i - 1)'
    <3>1. CASE q[1] \in Slow
      <4>1. ping[s] = 0 /\ \A j, k \in CommandsBefore(s, i) : j = k
        BY <2>5, <2>6, <3>1 DEF Waits
      <4>2. CommandsBefore(s, i - 1)' = {}
        BY <2>4, <2>5, <3>1, <4>1
      <4> QED BY <1>1, <3>1, <4>1, <4>2 DEF Waits
    <3>2. CASE q[1] \notin Slow
      <4>1. at'[s] = "reading"
        BY <1>1, <3>2
      <4>2. InTime(s) => InTime(s)'
        BY <4>1 DEF InTime
      <4>3. CommandsBefore(s, i) = {} => CommandsBefore(s, i - 1)' = {}
        BY <2>4
      <4>4. (\A j, k \in CommandsBefore(s, i) : j = k)
                => \A j, k \in CommandsBefore(s, i - 1)' : j = k
        BY <2>4
      <4> QED BY <2>6, <4>1, <4>2, <4>3, <4>4 DEF Waits
    <3> QED BY <3>1, <3>2
  <2>7. NoPing' = NoPing
    BY DEF NoPing
  <2>8. i - 1 \in DOMAIN inbox'[s]
    BY <1>1, <2>2
  <2> QED BY <1>3, <2>1, <2>3, <2>6, <2>7, <2>8 DEF PingPlaced
<1> QED BY <1>2, <1>3

LEMMA OneMore ==
    ASSUME NEW F, NEW q \in Seq(F), NEW f
    PROVE  /\ DOMAIN q = 1..Len(q) /\ Len(q) \in Nat
           /\ DOMAIN Append(q, f) = 1..(Len(q) + 1)
           /\ \A j \in 1..Len(q) : Append(q, f)[j] = q[j]
           /\ Append(q, f)[Len(q) + 1] = f
OBVIOUS

(* A frame that comes after the ping is none of its business, and a ping   *)
(* that is sent knows how many commands it is behind.                      *)
LEMMA SendPlaced ==
    ASSUME TypeOK, TypeOK', TimeLeft', PingInv, NEW s \in Session, NEW frame \in FrameKind,
           Send(s, frame)
    PROVE  PingInv'
<1> DEFINE q == inbox[s]
<1>1. UNCHANGED <<phase, left, at, line, due, ops>>
  BY DEF Send, runVars, asrVars
<1>2. /\ inbox' = [inbox EXCEPT ![s] = Append(q, frame)]
      /\ \A t \in Session : t # s => UNCHANGED <<inbox[t], ping[t], behind[t]>>
      /\ inbox'[s] = Append(q, frame)
  BY DEF Send, pingVars, TypeOK
<1>3. /\ DOMAIN q = 1..Len(q) /\ Len(q) \in Nat
      /\ DOMAIN inbox'[s] = 1..(Len(q) + 1)
      /\ \A j \in 1..Len(q) : inbox'[s][j] = q[j]
      /\ inbox'[s][Len(q) + 1] = frame
  <2>1. q \in Seq(FrameKind)
    BY DEF TypeOK
  <2> QED BY <1>2, <2>1, OneMore
<1>4. \A t \in Session : InTime(t) /\ UNCHANGED ping[t] => InTime(t)'
  BY <1>1 DEF InTime, SkillInTime, AsrInTime, Requesting
<1>5. NoPing' = NoPing
  BY DEF NoPing
<1>6. ASSUME NEW t \in Session, t # s PROVE PingPlaced(t)'
  BY <1>1, <1>2, <1>4, <1>5, <1>6, PingStays DEF PingInv
<1>7. CASE frame # "ping"
  <2>1. UNCHANGED <<ping, behind>>
    BY <1>7 DEF Send, pingVars
  <2>2. ASSUME ping[s] = NoPing PROVE PingPlaced(s)'
    BY <1>3, <1>5, <1>7, <2>1, <2>2 DEF PingInv, PingPlaced
  <2>3. ASSUME ping[s] # NoPing PROVE PingPlaced(s)'
    <3>1. PICK i \in DOMAIN q : PingAt(s, i) /\ (behind[s] \/ Waits(s, i))
      BY <2>3 DEF PingInv, PingPlaced
    <3>2. PingAt(s, i)'
      BY <1>3, <1>7, <3>1 DEF PingAt
    <3>3. CommandsBefore(s, i)' = CommandsBefore(s, i)
      BY <1>3, <3>1 DEF CommandsBefore
    <3>4. Waits(s, i) => Waits(s, i)'
      BY <1>1, <1>4, <2>1, <3>3 DEF Waits
    <3>5. i \in DOMAIN inbox'[s]
      BY <1>3, <3>1
    <3> QED BY <1>5, <2>1, <2>3, <3>1, <3>2, <3>4, <3>5 DEF PingPlaced
  <2>4. PingPlaced(s)'
    BY <2>2, <2>3
  <2> QED BY <1>6, <2>4 DEF PingInv
<1>8. CASE frame = "ping"
  <2> PICK i \in Nat : i = Len(q) + 1
    BY <1>3
  <2>1. /\ ping[s] = NoPing /\ ping'[s] = 0
        /\ ~behind'[s] => \A j, k \in Ahead(s) : j = k
    BY <1>8 DEF Send, TypeOK
  <2>2. \A j \in DOMAIN q : q[j] # "ping"
    BY <2>1 DEF PingInv, PingPlaced
  <2>3. PingAt(s, i)'
    BY <1>3, <1>8, <2>2 DEF PingAt
  <2>4. /\ CommandsBefore(s, i)' \subseteq Ahead(s)
        /\ at[s] \in Slow => 0 \in Ahead(s) /\ 0 \notin CommandsBefore(s, i)'
    BY <1>3 DEF CommandsBefore, Ahead
  <2>5. InTime(s)'
    BY <2>1, FreshInTime
  <2>6. behind'[s] \/ Waits(s, i)'
    <3>1. CASE at[s] \in Slow
      BY <2>1, <2>4, <2>5, <3>1 DEF Waits
    <3>2. CASE at[s] = "reading"
      BY <1>1, <2>1, <2>4, <2>5, <3>2 DEF Waits
    <3> QED BY <3>1, <3>2 DEF Send, TypeOK
  <2>7. PingPlaced(s)'
    BY <1>3, <2>1, <2>3, <2>6, Bounds DEF PingPlaced, NoPing
  <2> QED BY <1>6, <2>7 DEF PingInv
<1> QED BY <1>7, <1>8

(* A tick: no loop has anything to do, so that every ping which waits      *)
(* waits for a command.                                                    *)
LEMMA IdleWhenTicking ==
    ASSUME TypeOK, NEW s \in Session, Tick
    PROVE  /\ at[s] = "reading" => inbox[s] = <<>>
           /\ Requesting(s) => due # 0
           /\ at[s] = "skill" => phase \in {"none", "gathering", "waiting", "reaping"}
           /\ phase \in {"gathering", "waiting", "reaping"} => left # 0
BY DEF Tick, Busy, LoopReady, CallerReady, TypeOK, RunTypeOK

LEMMA TickPlaced ==
    ASSUME TypeOK, TimeLeft, OpenOrClosed, PingInv, Tick
    PROVE  PingInv'
<1> SUFFICES ASSUME NEW s \in Session PROVE PingPlaced(s)'
  BY DEF PingInv
<1>1. UNCHANGED <<inbox, at, line, ops, phase>>
  BY DEF Tick, RunTick
<1>2. /\ ping'[s] = IF ping[s] < Heartbeat THEN ping[s] + 1 ELSE ping[s]
      /\ behind'[s] = (behind[s] \/ (ping[s] # NoPing /\ HeldUp(s)))
      /\ ping[s] \in 0..NoPing
  BY DEF Tick, TypeOK
<1>3. ping'[s] = NoPing <=> ping[s] = NoPing
  BY <1>2, Bounds
<1>4. ASSUME ~behind'[s], ping[s] # NoPing, inbox[s] # <<>>, InTime(s) PROVE InTime(s)'
  <2>1. ping'[s] = ping[s] + 1 /\ ~HeldUp(s)
    BY <1>2, <1>4 DEF InTime
  <2>2. left \in Nat /\ due \in Nat /\ ping[s] \in Nat
    BY <1>2, Bounds DEF TypeOK, RunTypeOK
  <2>3. CASE at[s] = "skill"
    <3>1. phase \in {"gathering", "waiting", "reaping"} /\ left' = left - 1 /\ left # 0
      BY <2>3, IdleWhenTicking DEF TimeLeft, Tick, RunTick
    <3>2. SkillInTime(s)'
      BY <1>1, <1>4, <2>1, <2>2, <2>3, <3>1, Bounds DEF SkillInTime, InTime
    <3>3. ping[s] + 1 < Heartbeat
      BY <1>4, <2>2, <2>3, <3>1, Bounds, PatienceAssumption DEF InTime, SkillInTime
    <3> QED BY <1>1, <2>1, <2>3, <3>2, <3>3 DEF InTime
  <2>4. CASE at[s] = "asr"
    <3>1. Requesting(s) /\ ops <= 1 /\ due # 0
      BY <2>1, <2>4, IdleWhenTicking, Bounds DEF HeldUp, TypeOK
    <3>2. line # <<>> /\ due' = due - 1
      BY <3>1 DEF Requesting, Tick
    <3>3. ping[s] + due <= AsrTimeout
      BY <3>1, <1>4, <2>4 DEF InTime, AsrInTime
    <3>4. AsrInTime(s)'
      BY <1>1, <1>4, <2>1, <2>2, <2>4, <3>1, <3>2, <3>3, Bounds DEF InTime, AsrInTime, Requesting
    <3>5. ping[s] + 1 < Heartbeat
      BY <2>2, <3>1, <3>3, Bounds, PatienceAssumption
    <3> QED BY <1>1, <2>1, <2>4, <3>4, <3>5 DEF InTime
  <2>5. at[s] \in {"skill", "asr"}
    BY <1>4, IdleWhenTicking DEF OpenOrClosed, TypeOK, Slow
  <2> QED BY <2>3, <2>4, <2>5
<1> QED BY <1>1, <1>2, <1>3, <1>4, PingStays, IdleWhenTicking DEF PingInv

-----------------------------------------------------------------------------
(* The steps.                                                              *)

LEMMA RunUntouched ==
    ASSUME RunTypeOK, TimeLeft, Drained, UNCHANGED runVars,
           \A s \in Session : at'[s] = "skill" => at[s] = "skill"
    PROVE  RunTypeOK' /\ TimeLeft' /\ Drained'
<1>1. \A m \in library : Valid(m)' <=> Valid(m)
  BY DEF Valid
<1> QED BY <1>1 DEF RunTypeOK, TimeLeft, Drained, AtEof, runVars

(* A step of the run alone.                                                *)
LEMMA RunKeepsTime ==
    ASSUME CmdInv, RunInv', Startup \/ Run \/ Process
    PROVE  CmdInv'
<1> USE DEF CmdInv
<1>1. UNCHANGED cmdVars /\ RunMoves /\ RunTypeOK' /\ TimeLeft' /\ Drained'
  <2>1. CASE Startup
    <3>1. RunTypeOK' /\ UNCHANGED cmdVars
      BY <2>1, RestTypes DEF Startup, TypeOK
    <3>2. UNCHANGED <<phase, left, drain, unread, proc, at, library>>
      BY <2>1 DEF Startup, Load, Rewrite, taskVars, procVars, cmdVars
    <3>3. \A m \in library : Valid(m)' <=> Valid(m)
      BY DEF Valid
    <3>4. served' = "up" => \A m \in library : Valid(m)
      BY <2>1 DEF Startup, Load, Rewrite, TimeLeft
    <3> QED BY <3>1, <3>2, <3>3, <3>4 DEF RunMoves, TimeLeft, Drained, AtEof
  <2>2. CASE Run \/ Process
    BY <2>2, RunStepMoves DEF TypeOK
  <2> QED BY <2>1, <2>2
<1>2. TypeOK' /\ InLineOnce' /\ OpenOrClosed'
  BY <1>1 DEF cmdVars, TypeOK, InLineOnce, OpenOrClosed, NoPing
<1>3. PingInv'
  <2> SUFFICES ASSUME NEW s \in Session PROVE PingPlaced(s)'
    BY DEF PingInv
  <2>1. UNCHANGED <<inbox, at, ping, behind, line, ops, due>>
    BY <1>1 DEF cmdVars
  <2>2. ASSUME at[s] = "skill", SkillInTime(s) PROVE SkillInTime(s)'
    <3>1. ping[s] \in Nat /\ left \in Nat
      BY Bounds DEF TypeOK, RunTypeOK
    <3>2. phase # "none"
      BY <2>2 DEF TimeLeft
    <3>3. CASE phase = "settling"
      BY <1>1, <2>1, <2>2, <3>1, <3>3, Bounds DEF RunMoves, SkillInTime
    <3>4. CASE phase = "reaping"
      BY <1>1, <2>1, <2>2, <3>1, <3>4, Bounds DEF RunMoves, SkillInTime
    <3>5. CASE phase \in {"spawning", "gathering", "waiting", "over"}
      BY <1>1, <2>1, <2>2, <3>1, <3>5, Bounds DEF RunMoves, SkillInTime
    <3> QED BY <3>2, <3>3, <3>4, <3>5 DEF TypeOK, RunTypeOK
  <2>3. InTime(s) => InTime(s)'
    BY <2>1, <2>2 DEF InTime, AsrInTime, Requesting
  <2> QED BY <2>1, <2>3, PingStays DEF PingInv
<1> QED BY <1>1, <1>2, <1>3

LEMMA TickKeepsTime == ASSUME CmdInv, RunInv', Tick PROVE CmdInv'
<1> USE DEF CmdInv
<1>1. /\ UNCHANGED <<sends, inbox, frames, at, violations, line, ops>>
      /\ UNCHANGED <<library, served, disk, phase, args, why, outcome, taskVars, got, procVars>>
  BY DEF Tick, RunTick
<1>2. RunTypeOK' /\ TimeLeft'
  <2>1. \A m \in library : Valid(m)' <=> Valid(m)
    BY <1>1 DEF Valid
  <2>2. left' \in 0..(MaxTimeout + ReapTimeout) /\ left' <= left
    BY Bounds DEF Tick, RunTick, Busy, CallerReady, TypeOK, RunTypeOK
  <2>3. RunTypeOK'
    BY <1>1, <2>2 DEF TypeOK, RunTypeOK, taskVars, procVars
  <2>4. TimeLeft'
    BY <1>1, <2>1, <2>2, Bounds DEF TypeOK, RunTypeOK, TimeLeft
  <2> QED BY <2>3, <2>4
<1>3. TypeOK'
  <2>1. due' \in 0..AsrTimeout
    <3>1. CASE line = <<>>
      BY <3>1 DEF Tick, TypeOK
    <3>2. CASE line # <<>>
      <4>1. Head(line) \in Session
        BY <3>2 DEF TypeOK
      <4>2. due # 0
        BY <3>2, <4>1, IdleWhenTicking DEF Requesting
      <4> QED BY <3>2, <4>2, Bounds DEF Tick, TypeOK
    <3> QED BY <3>1, <3>2
  <2>2. ping' \in [Session -> 0..NoPing]
    BY Bounds DEF Tick, TypeOK
  <2>3. behind' \in [Session -> BOOLEAN]
    BY DEF Tick
  <2> QED BY <1>1, <1>2, <2>1, <2>2, <2>3 DEF TypeOK, NoPing
<1>4. InLineOnce' /\ OpenOrClosed' /\ Drained'
  BY <1>1 DEF InLineOnce, OpenOrClosed, Drained, AtEof, taskVars, procVars
<1>5. PingInv'
  BY TickPlaced
<1> QED BY <1>2, <1>3, <1>4, <1>5

(* Neither the run nor the lock changes: a ping that is left alone is as   *)
(* much in time as before.                                                 *)
LEMMA InTimeStays ==
    ASSUME UNCHANGED <<phase, left, asrVars>>, NEW s \in Session, UNCHANGED <<at[s], ping[s]>>,
           InTime(s)
    PROVE  InTime(s)'
BY DEF InTime, SkillInTime, AsrInTime, Requesting, asrVars

LEMMA SendKeepsTime ==
    ASSUME CmdInv, RunInv', NEW s \in Session, NEW frame \in FrameKind, Send(s, frame)
    PROVE  CmdInv'
<1> USE DEF CmdInv
<1>1. RunTypeOK' /\ TimeLeft' /\ Drained'
  BY RunUntouched DEF Send, TypeOK
<1>2. TypeOK'
  <2>1. inbox' \in [Session -> Seq(FrameKind)] /\ frames' \in [Session -> Nat]
    BY Bounds DEF Send, TypeOK
  <2>2. ping' \in [Session -> 0..NoPing] /\ behind' \in [Session -> BOOLEAN]
    <3> DEFINE many == \E i, j \in Ahead(s) : i # j
    <3>1. CASE frame = "ping"
      <4>1. ping' = [ping EXCEPT ![s] = 0] /\ behind' = [behind EXCEPT ![s] = many]
        BY <3>1 DEF Send
      <4>2. many \in BOOLEAN
        OBVIOUS
      <4> HIDE DEF many
      <4> QED BY <4>1, <4>2, Bounds DEF TypeOK
    <3>2. CASE frame # "ping"
      BY <3>2 DEF Send, TypeOK, pingVars
    <3> QED BY <3>1, <3>2
  <2> QED BY <1>1, <2>1, <2>2 DEF Send, TypeOK, asrVars, NoPing
<1>3. InLineOnce'
  BY DEF Send, asrVars, InLineOnce
<1>4. OpenOrClosed'
  BY DEF Send, OpenOrClosed, TypeOK
<1>5. PingInv'
  BY <1>1, <1>2, SendPlaced
<1> QED BY <1>1, <1>2, <1>3, <1>4, <1>5

(* What a step of one loop owes to the others.                             *)
LEMMA OthersWait ==
    ASSUME PingInv, UNCHANGED <<phase, left, asrVars>>, NEW s \in Session,
           \A t \in Session \ {s} : UNCHANGED <<inbox[t], at[t], ping[t], behind[t]>>,
           PingPlaced(s)'
    PROVE  PingInv'
<1> SUFFICES ASSUME NEW t \in Session \ {s} PROVE PingPlaced(t)'
  BY DEF PingInv
<1>1. InTime(t) => InTime(t)'
  BY InTimeStays
<1> QED BY <1>1, PingStays DEF PingInv

(* A connection ends while its loop is not at the lock.                    *)
LEMMA HangUpKeepsTime ==
    ASSUME CmdInv, RunInv', NEW s \in Session, HangUp(s), at[s] \in {"reading", "skill"},
           UNCHANGED <<runVars, sends, frames, asrVars>>,
           violations' \in [Session -> 0..MaxViolations],
           \A t \in Session \ {s} : violations'[t] = violations[t]
    PROVE  CmdInv'
<1> USE DEF CmdInv
<1>1. /\ at' \in [Session -> {"reading", "closed"} \cup Slow] /\ at'[s] = "closed"
      /\ inbox' \in [Session -> Seq(FrameKind)] /\ inbox'[s] = <<>>
      /\ ping' \in [Session -> 0..NoPing] /\ ping'[s] = NoPing
      /\ behind' \in [Session -> BOOLEAN]
      /\ \A t \in Session \ {s} : UNCHANGED <<inbox[t], at[t], ping[t], behind[t]>>
  BY Bounds DEF HangUp, TypeOK
<1>2. RunTypeOK' /\ TimeLeft' /\ Drained'
  BY <1>1, RunUntouched DEF TypeOK
<1>3. TypeOK'
  BY <1>1, <1>2 DEF TypeOK, asrVars, NoPing
<1>4. InLineOnce'
  <2>1. line \in Seq(Session) /\ UNCHANGED <<line, ops>>
    BY DEF TypeOK, asrVars
  <2>2. \A i \in DOMAIN line : line[i] \in Session
    BY <2>1
  <2>3. \A i \in DOMAIN line : line[i] # s
    BY DEF InLineOnce
  <2> QED BY <1>1, <2>1, <2>2, <2>3 DEF InLineOnce
<1>5. OpenOrClosed'
  BY <1>1 DEF OpenOrClosed
<1>6. PingPlaced(s)'
  BY <1>1 DEF PingPlaced, NoPing
<1>7. PingInv'
  BY <1>1, <1>6, OthersWait DEF runVars
<1> QED BY <1>2, <1>3, <1>4, <1>5, <1>7

LEMMA PongKeepsTime == ASSUME CmdInv, RunInv', NEW s \in Session, Pong(s) PROVE CmdInv'
<1> USE DEF CmdInv
<1>0. CASE HangUp(s)
  BY <1>0, HangUpKeepsTime DEF Pong, Receive, TypeOK
<1> SUFFICES ASSUME ~HangUp(s) PROVE CmdInv'
  BY <1>0
<1>1. RunTypeOK' /\ TimeLeft' /\ Drained'
  BY RunUntouched DEF Pong, TypeOK
<1> DEFINE q == inbox[s]
<1>2. /\ Tail(q) \in Seq(FrameKind) /\ q[1] = "ping" /\ 1 \in DOMAIN q /\ Len(q) \in Nat
      /\ DOMAIN q = 1..Len(q)
      /\ DOMAIN Tail(q) = 1..(Len(q) - 1)
      /\ \A j \in 1..(Len(q) - 1) : Tail(q)[j] = q[j + 1]
  <2>1. q \in Seq(FrameKind) /\ q # <<>> /\ Head(q) = "ping"
    BY DEF Pong, Receive, TypeOK
  <2> QED BY <2>1, TailIsRest
<1>3. /\ inbox' \in [Session -> Seq(FrameKind)]
      /\ inbox'[s] = Tail(q)
      /\ ping' \in [Session -> 0..NoPing] /\ ping'[s] = NoPing
      /\ behind' \in [Session -> BOOLEAN]
      /\ \A t \in Session \ {s} : UNCHANGED <<inbox[t], ping[t], behind[t]>>
      /\ UNCHANGED <<at, violations>>
  <2>1. /\ inbox' = [inbox EXCEPT ![s] = Tail(q)]
        /\ ping' = [ping EXCEPT ![s] = NoPing]
        /\ behind' = [behind EXCEPT ![s] = FALSE]
        /\ UNCHANGED <<at, violations>>
    BY DEF Pong
  <2> QED BY <1>2, <2>1, Bounds DEF TypeOK
<1>4. TypeOK'
  BY <1>1, <1>3 DEF Pong, TypeOK, asrVars, NoPing
<1>5. InLineOnce'
  BY DEF Pong, InLineOnce, asrVars
<1>6. OpenOrClosed'
  BY <1>3 DEF Pong, Receive, OpenOrClosed
<1>7. PingInv'
  <2>1. PingPlaced(s)'
    <3>1. \A j \in DOMAIN q : q[j] = "ping" => j = 1
      <4>1. PICK i \in DOMAIN q : PingAt(s, i)
        BY <1>2 DEF PingInv, PingPlaced
      <4> QED BY <1>2, <4>1 DEF PingAt
    <3>2. ASSUME NEW j \in DOMAIN inbox'[s] PROVE inbox'[s][j] # "ping"
      <4>1. j \in 1..(Len(q) - 1) /\ inbox'[s][j] = q[j + 1]
        BY <1>2, <1>3
      <4>2. j + 1 \in DOMAIN q /\ j + 1 # 1
        BY <1>2, <4>1
      <4> QED BY <3>1, <4>1, <4>2
    <3> QED BY <1>3, <3>2 DEF PingPlaced, NoPing
  <2>2. UNCHANGED <<phase, left, asrVars>>
    BY DEF Pong, runVars
  <2> QED BY <1>3, <2>1, <2>2, OthersWait
<1> QED BY <1>1, <1>4, <1>5, <1>6, <1>7

LEMMA QuickKeepsTime ==
    ASSUME CmdInv, RunInv', NEW s \in Session, Quick(s) \/ Violation(s)
    PROVE  CmdInv'
<1> USE DEF CmdInv
<1>1. /\ UNCHANGED <<runVars, sends, frames, asrVars>>
      /\ at[s] = "reading" /\ inbox[s] # <<>> /\ Head(inbox[s]) \in {"quick", "bad"}
  BY DEF Quick, Violation, Receive
<1>2. /\ violations' \in [Session -> 0..MaxViolations]
      /\ \A t \in Session \ {s} : violations'[t] = violations[t]
  <2>1. violations[s] < MaxViolations
    BY <1>1 DEF OpenOrClosed
  <2> QED BY <2>1, Bounds DEF Quick, Violation, TypeOK
<1>3. CASE HangUp(s)
  BY <1>1, <1>2, <1>3, HangUpKeepsTime
<1>4. CASE /\ inbox' = [inbox EXCEPT ![s] = Tail(@)]
           /\ UNCHANGED <<at, pingVars>>
           /\ violations'[s] < MaxViolations
  <2>1. RunTypeOK' /\ TimeLeft' /\ Drained'
    BY <1>1, <1>4, RunUntouched DEF TypeOK
  <2>2. inbox[s] \in Seq(FrameKind) /\ Tail(inbox[s]) \in Seq(FrameKind)
    BY <1>1, TailIsRest DEF TypeOK
  <2>3. TypeOK'
    BY <1>1, <1>2, <1>4, <2>1, <2>2 DEF TypeOK, asrVars, pingVars, NoPing
  <2>4. InLineOnce'
    BY <1>1, <1>4 DEF InLineOnce, asrVars
  <2>5. OpenOrClosed'
    BY <1>1, <1>2, <1>4 DEF OpenOrClosed, TypeOK
  <2>6. PingPlaced(s)'
    BY <1>1, <1>4, PingMovesUp DEF PingInv, pingVars, TypeOK, Slow
  <2>7. UNCHANGED <<phase, left, asrVars>>
    BY <1>1 DEF runVars
  <2> QED BY <1>4, <2>1, <2>3, <2>4, <2>5, <2>6, <2>7, OthersWait DEF pingVars, TypeOK
<1> QED
  <2>1. Quick(s) => violations'[s] < MaxViolations
    BY <1>1 DEF Quick, OpenOrClosed
  <2> QED BY <1>3, <1>4, <2>1 DEF Quick, Violation, Tolerated

(* The lock: who gets it has not waited, or is behind more than a command. *)
LEMMA TranscribeKeepsTime == ASSUME CmdInv, RunInv', NEW s \in Session, Transcribe(s) PROVE CmdInv'
<1> USE DEF CmdInv
<1>1. /\ at[s] = "reading" /\ inbox[s] # <<>> /\ Head(inbox[s]) = "asr"
      /\ at' = [at EXCEPT ![s] = "asr"]
      /\ inbox' = [inbox EXCEPT ![s] = Tail(@)]
      /\ line' = Append(line, s)
      /\ IF line = <<>> THEN due' = AsrTimeout /\ ops' = 1 ELSE UNCHANGED <<due, ops>>
      /\ UNCHANGED <<runVars, sends, frames, violations, pingVars>>
  BY DEF Transcribe, Receive, Await
<1>2. RunTypeOK' /\ TimeLeft' /\ Drained'
  BY <1>1, RunUntouched DEF TypeOK
<1>3. line \in Seq(Session) /\ inbox[s] \in Seq(FrameKind) /\ Tail(inbox[s]) \in Seq(FrameKind)
  BY <1>1, TailIsRest DEF TypeOK
<1>4. /\ DOMAIN line = 1..Len(line) /\ Len(line) \in Nat
      /\ line' \in Seq(Session)
      /\ DOMAIN line' = 1..(Len(line) + 1)
      /\ \A j \in 1..Len(line) : line'[j] = line[j]
      /\ line'[Len(line) + 1] = s
      /\ line' # <<>>
  BY <1>1, <1>3, OneMore
<1>5. TypeOK'
  <2>1. due' \in 0..AsrTimeout /\ ops' \in 0..2
    <3>1. due \in 0..AsrTimeout /\ ops \in 0..2 /\ AsrTimeout \in 0..AsrTimeout
      BY Bounds DEF TypeOK
    <3> QED BY <1>1, <3>1
  <2>2. at' \in [Session -> {"reading", "closed"} \cup Slow]
    BY <1>1 DEF TypeOK, Slow
  <2> QED BY <1>1, <1>2, <1>3, <1>4, <2>1, <2>2 DEF TypeOK, pingVars, NoPing
<1>6. InLineOnce'
  <2>1. \A i \in DOMAIN line : line[i] # s
    BY <1>1 DEF InLineOnce
  <2>2. ASSUME NEW i \in DOMAIN line' PROVE at'[line'[i]] = "asr"
    <3>1. CASE i \in 1..Len(line)
      <4>1. PICK t \in Session : t = line[i] /\ line'[i] = t
        BY <1>3, <1>4, <3>1
      <4>2. t # s /\ at[t] = "asr"
        BY <1>4, <2>1, <3>1, <4>1 DEF InLineOnce
      <4>3. at'[t] = at[t]
        BY <1>1, <4>2 DEF TypeOK
      <4> QED BY <4>1, <4>2, <4>3
    <3>2. CASE i = Len(line) + 1
      BY <1>1, <1>4, <3>2 DEF TypeOK
    <3> QED BY <1>4, <3>1, <3>2
  <2>3. \A i, j \in DOMAIN line' : line'[i] = line'[j] => i = j
    BY <1>4, <2>1 DEF InLineOnce
  <2>4. ops' > 0
    BY <1>1 DEF InLineOnce
  <2> QED BY <2>2, <2>3, <2>4 DEF InLineOnce
<1>7. OpenOrClosed'
  BY <1>1 DEF OpenOrClosed, TypeOK
<1>8. PingInv'
  <2>1. PingPlaced(s)'
    <3>1. ping'[s] = 0 => InTime(s)'
      BY <1>2, <1>5, FreshInTime
    <3>2. inbox'[s] = Tail(inbox[s]) /\ UNCHANGED <<ping[s], behind[s]>>
      BY <1>1 DEF TypeOK, pingVars
    <3> QED BY <1>1, <3>1, <3>2, PingMovesUp DEF PingInv, Slow
  <2>2. ASSUME NEW t \in Session \ {s} PROVE PingPlaced(t)'
    <3>1. UNCHANGED <<phase, left, inbox[t], at[t], ping[t], behind[t]>>
      BY <1>1 DEF runVars, pingVars, TypeOK
    <3>2. ASSUME InTime(t), at[t] = "asr" PROVE AsrInTime(t)'
      <4>1. CASE line = <<>>
        <5>1. ping[t] = 0
          BY <3>2, <4>1 DEF InTime, AsrInTime, Requesting
        <5> QED BY <1>2, <1>5, <3>1, <3>2, <5>1, FreshInTime DEF InTime
      <4>2. CASE line # <<>>
        <5>1. Head(line') = Head(line)
          BY <1>3, <1>4, <4>2
        <5> QED BY <1>1, <1>4, <3>1, <3>2, <4>2, <5>1 DEF InTime, AsrInTime, Requesting
      <4> QED BY <4>1, <4>2
    <3>3. InTime(t) => InTime(t)'
      BY <3>1, <3>2 DEF InTime, SkillInTime
    <3> QED BY <3>1, <3>3, PingStays DEF PingInv
  <2> QED BY <2>1, <2>2 DEF PingInv
<1> QED BY <1>2, <1>5, <1>6, <1>7, <1>8

LEMMA ProgressKeepsTime == ASSUME CmdInv, RunInv', NEW s \in Session, AsrProgress(s) PROVE CmdInv'
<1> USE DEF CmdInv
<1>1. /\ line # <<>> /\ ops > 0 /\ ops' = 2 /\ due' = AsrTimeout
      /\ UNCHANGED <<runVars, sends, inbox, frames, at, violations, line, pingVars>>
  BY DEF AsrProgress, Requesting, InLineOnce
<1>2. RunTypeOK' /\ TimeLeft' /\ Drained'
  BY <1>1, RunUntouched DEF TypeOK
<1>3. ops' \in 0..2 /\ ~(ops' <= 1)
  BY <1>1
<1>4. TypeOK'
  <2>1. due' \in 0..AsrTimeout
    BY <1>1, Bounds
  <2>2. UNCHANGED <<sends, inbox, frames, at, violations, line, ping, behind, NoPing>>
    BY <1>1 DEF pingVars, NoPing
  <2> QED BY <1>2, <1>3, <2>1, <2>2 DEF TypeOK
<1>5. InLineOnce' /\ OpenOrClosed'
  BY <1>1, <1>3 DEF InLineOnce, OpenOrClosed
<1>6. PingInv'
  <2> SUFFICES ASSUME NEW t \in Session PROVE PingPlaced(t)'
    BY DEF PingInv
  <2>1. InTime(t) => InTime(t)'
    BY <1>1, <1>3 DEF InTime, SkillInTime, AsrInTime, Requesting, runVars, pingVars
  <2> QED BY <1>1, <2>1, PingStays DEF PingInv, pingVars
<1> QED BY <1>2, <1>4, <1>5, <1>6

(* The loop has answered a command, or its connection has ended: its ping  *)
(* waits for no command that is awaited.                                   *)
LEMMA AnsweredPlaced ==
    ASSUME NEW s \in Session, PingPlaced(s), at[s] \in Slow,
           \/ at'[s] = "reading" /\ UNCHANGED <<inbox, ping, behind>>
           \/ at'[s] = "closed" /\ inbox'[s] = <<>> /\ ping'[s] = NoPing
    PROVE  PingPlaced(s)'
<1>1. CASE at'[s] = "reading" /\ UNCHANGED <<inbox, ping, behind>>
  <2>1. InTime(s) => InTime(s)'
    BY <1>1 DEF InTime
  <2>2. ASSUME NEW i PROVE PingAt(s, i)' <=> PingAt(s, i)
    BY <1>1 DEF PingAt
  <2>3. ASSUME NEW i, Waits(s, i) PROVE Waits(s, i)'
    BY <1>1, <2>1, <2>3 DEF Waits, CommandsBefore, Slow
  <2> QED BY <1>1, <2>2, <2>3 DEF PingPlaced, NoPing
<1>2. CASE inbox'[s] = <<>> /\ ping'[s] = NoPing
  BY <1>2 DEF PingPlaced, NoPing
<1> QED BY <1>1, <1>2

LEMMA AsrEndKeepsTime ==
    ASSUME CmdInv, RunInv', NEW s \in Session, AsrEnds(s) \/ AsrExpires(s)
    PROVE  CmdInv'
<1> USE DEF CmdInv
<1>1. /\ line # <<>> /\ Head(line) = s
      /\ line' = Tail(line)
      /\ IF Len(line) > 1
         THEN due' = AsrTimeout /\ ops' = 1
         ELSE due' = 0 /\ ops' = 0
      /\ Answer(s)
      /\ UNCHANGED <<runVars, sends, frames, violations>>
  BY DEF AsrEnds, AsrExpires, Requesting, Unlock
<1>0. /\ at' \in [Session -> {"reading", "closed"} \cup Slow]
      /\ inbox' \in [Session -> Seq(FrameKind)]
      /\ ping' \in [Session -> 0..NoPing] /\ behind' \in [Session -> BOOLEAN]
      /\ \A t \in Session \ {s} : UNCHANGED <<inbox[t], at[t], ping[t], behind[t]>>
      /\ \/ at'[s] = "reading" /\ UNCHANGED <<inbox, ping, behind>>
         \/ at'[s] = "closed" /\ inbox'[s] = <<>> /\ ping'[s] = NoPing
  <2>1. CASE at' = [at EXCEPT ![s] = "reading"] /\ UNCHANGED <<inbox, pingVars>>
    BY <2>1 DEF pingVars, TypeOK
  <2>2. CASE HangUp(s)
    BY <2>2, Bounds DEF HangUp, TypeOK
  <2> QED BY <1>1, <2>1, <2>2 DEF Answer
<1>2. RunTypeOK' /\ TimeLeft' /\ Drained'
  BY <1>0, <1>1, RunUntouched DEF TypeOK
<1>3. /\ line[1] = s /\ DOMAIN line = 1..Len(line) /\ Len(line) \in Nat /\ Len(line) > 0
      /\ line' \in Seq(Session)
      /\ DOMAIN line' = 1..(Len(line) - 1)
      /\ \A j \in 1..(Len(line) - 1) : line'[j] = line[j + 1]
  <2>1. line \in Seq(Session)
    BY DEF TypeOK
  <2> QED BY <1>1, <2>1, TailIsRest
<1>4. at[s] = "asr"
  BY <1>3 DEF InLineOnce
<1>5. TypeOK'
  <2>1. due' \in 0..AsrTimeout /\ ops' \in 0..2
    <3>1. {0, AsrTimeout} \subseteq 0..AsrTimeout
      BY Bounds
    <3> QED BY <1>1, <3>1
  <2> QED BY <1>0, <1>1, <1>2, <1>3, <2>1 DEF TypeOK, NoPing
<1>6. InLineOnce'
  <2>1. ASSUME NEW i \in DOMAIN line' PROVE line'[i] # s /\ at[line'[i]] = "asr"
    <3>1. i + 1 \in DOMAIN line /\ i + 1 # 1 /\ line'[i] = line[i + 1]
      BY <1>3
    <3> QED BY <1>3, <3>1 DEF InLineOnce
  <2>2. ASSUME NEW i \in DOMAIN line' PROVE at'[line'[i]] = "asr"
    <3>1. PICK t \in Session : t = line'[i]
      BY <1>3
    <3>2. t # s /\ at[t] = "asr"
      BY <2>1, <3>1
    <3>3. at'[t] = at[t]
      BY <1>0, <3>2
    <3> QED BY <3>1, <3>2, <3>3
  <2>3. ASSUME NEW i \in DOMAIN line', NEW j \in DOMAIN line', line'[i] = line'[j] PROVE i = j
    <3>1. i + 1 \in DOMAIN line /\ j + 1 \in DOMAIN line /\ line[i + 1] = line[j + 1]
      BY <1>3, <2>3
    <3>2. i + 1 = j + 1
      BY <3>1 DEF InLineOnce
    <3> QED BY <1>3, <3>2
  <2>4. line' # <<>> => ops' > 0
    BY <1>1, <1>3
  <2> QED BY <2>2, <2>3, <2>4 DEF InLineOnce
<1>7. OpenOrClosed'
  <2>1. /\ violations[s] < MaxViolations /\ UNCHANGED violations
        /\ \A t \in Session \ {s} : UNCHANGED <<inbox[t], at[t]>>
        /\ at'[s] = "reading" \/ (at'[s] = "closed" /\ inbox'[s] = <<>>)
    BY <1>0, <1>1, <1>4 DEF OpenOrClosed
  <2> QED BY <2>1 DEF OpenOrClosed
<1>8. PingInv'
  <2>1. PingPlaced(s)'
    BY <1>0, <1>4, AnsweredPlaced DEF PingInv, Slow
  <2>2. ASSUME NEW t \in Session \ {s} PROVE PingPlaced(t)'
    <3>1. UNCHANGED <<phase, left, inbox[t], at[t], ping[t], behind[t]>>
      BY <1>0, <1>1 DEF runVars
    <3>2. ASSUME InTime(t), at[t] = "asr" PROVE InTime(t)'
      <4>1. ping[t] = 0
        BY <1>1, <3>2 DEF InTime, AsrInTime, Requesting
      <4> QED BY <1>2, <1>5, <3>1, <4>1, FreshInTime
    <3>3. InTime(t) => InTime(t)'
      BY <3>1, <3>2 DEF InTime, SkillInTime
    <3> QED BY <3>1, <3>3, PingStays DEF PingInv
  <2> QED BY <2>1, <2>2 DEF PingInv
<1> QED BY <1>2, <1>5, <1>6, <1>7, <1>8

(* A run of a skill: it has all its time when it begins.                   *)
LEMMA RunSkillKeepsTime == ASSUME CmdInv, RunInv', NEW s \in Session, RunSkill(s) PROVE CmdInv'
<1> USE DEF CmdInv
<1>1. /\ at[s] = "reading" /\ inbox[s] # <<>> /\ Head(inbox[s]) = "skill"
      /\ at' = [at EXCEPT ![s] = "skill"]
      /\ inbox' = [inbox EXCEPT ![s] = Tail(@)]
      /\ UNCHANGED <<sends, frames, violations, asrVars, pingVars>>
  BY DEF RunSkill, Receive, Await
<1>2. PICK m \in library : Begin(m)
  BY DEF RunSkill
<1>3. /\ phase = "none" /\ phase' \in {"over", "spawning"} /\ left' = m.timeout
      /\ m.timeout \in 1..MaxTimeout
      /\ UNCHANGED <<library, served, drain, unread, proc>>
  BY <1>2 DEF Begin, Over, TimeLeft, Valid, taskVars, procVars
<1>4. RunTypeOK'
  BY <1>2, BeginTypes DEF TypeOK
<1>5. TimeLeft' /\ Drained'
  <2>1. \A n \in library : Valid(n)' <=> Valid(n)
    BY DEF Valid
  <2>2. left' <= MaxTimeout
    BY <1>3, Bounds
  <2>3. TimeLeft'
    BY <1>3, <2>1, <2>2 DEF TimeLeft
  <2>4. Drained'
    BY <1>3 DEF Drained, AtEof
  <2> QED BY <2>3, <2>4
<1>6. TypeOK'
  <2>1. Tail(inbox[s]) \in Seq(FrameKind)
    BY <1>1, TailIsRest DEF TypeOK
  <2>2. inbox' \in [Session -> Seq(FrameKind)]
    BY <1>1, <2>1 DEF TypeOK
  <2>3. at' \in [Session -> {"reading", "closed"} \cup Slow]
    BY <1>1 DEF TypeOK, Slow
  <2> QED BY <1>1, <1>4, <2>2, <2>3 DEF TypeOK, asrVars, pingVars, NoPing
<1>7. InLineOnce'
  BY <1>1 DEF InLineOnce, asrVars, TypeOK
<1>8. OpenOrClosed'
  BY <1>1 DEF OpenOrClosed, TypeOK
<1>9. PingInv'
  <2>1. PingPlaced(s)'
    <3>1. ping'[s] = 0 => InTime(s)'
      BY <1>5, <1>6, FreshInTime
    <3>2. inbox'[s] = Tail(inbox[s]) /\ UNCHANGED <<ping[s], behind[s]>>
      BY <1>1 DEF TypeOK, pingVars
    <3> QED BY <1>1, <3>1, <3>2, PingMovesUp DEF PingInv, Slow
  <2>2. ASSUME NEW t \in Session \ {s} PROVE PingPlaced(t)'
    <3>1. UNCHANGED <<asrVars, inbox[t], at[t], ping[t], behind[t]>>
      BY <1>1 DEF pingVars, TypeOK
    <3>2. at[t] # "skill"
      BY <1>3 DEF TimeLeft
    <3>3. InTime(t) => InTime(t)'
      BY <3>1, <3>2 DEF InTime, AsrInTime, Requesting, asrVars
    <3> QED BY <3>1, <3>3, PingStays DEF PingInv
  <2> QED BY <2>1, <2>2 DEF PingInv
<1> QED BY <1>4, <1>5, <1>6, <1>7, <1>8, <1>9

LEMMA SkillAnsweredKeepsTime ==
    ASSUME CmdInv, RunInv', NEW s \in Session, SkillAnswered(s)
    PROVE  CmdInv'
<1> USE DEF CmdInv
<1>0. CASE HangUp(s)
  BY <1>0, HangUpKeepsTime DEF SkillAnswered, TypeOK
<1> SUFFICES ASSUME ~HangUp(s) PROVE CmdInv'
  BY <1>0
<1>1. /\ at[s] = "skill" /\ at' = [at EXCEPT ![s] = "reading"]
      /\ UNCHANGED <<runVars, sends, inbox, frames, violations, asrVars, pingVars>>
  BY DEF SkillAnswered, Answer
<1>2. RunTypeOK' /\ TimeLeft' /\ Drained'
  <2>1. \A t \in Session : at'[t] = "skill" => at[t] = "skill"
    BY <1>1 DEF TypeOK
  <2>2. RunTypeOK
    BY DEF TypeOK
  <2> QED BY <1>1, <2>1, <2>2, RunUntouched
<1>3. TypeOK'
  BY <1>1, <1>2 DEF TypeOK, asrVars, pingVars, NoPing
<1>4. InLineOnce' /\ OpenOrClosed'
  <2>1. at' \in [Session -> {"reading", "closed"} \cup Slow] /\ at'[s] = "reading"
    BY <1>1, <1>3 DEF TypeOK
  <2>2. \A t \in Session \ {s} : at'[t] = at[t]
    BY <1>1 DEF TypeOK
  <2>3. line \in Seq(Session) /\ UNCHANGED <<line, ops>>
    BY <1>1 DEF TypeOK, asrVars
  <2>4. \A i \in DOMAIN line : line[i] \in Session /\ line[i] # s
    <3>1. \A i \in DOMAIN line : line[i] \in Session
      BY <2>3
    <3> QED BY <1>1, <3>1 DEF InLineOnce
  <2>5. InLineOnce'
    BY <2>2, <2>3, <2>4 DEF InLineOnce
  <2>6. OpenOrClosed'
    BY <1>1, <2>1, <2>2 DEF OpenOrClosed
  <2> QED BY <2>5, <2>6
<1>5. PingPlaced(s)'
  <2>1. at'[s] = "reading" /\ UNCHANGED <<inbox, ping, behind>>
    BY <1>1 DEF pingVars, TypeOK
  <2> QED BY <1>1, <2>1, AnsweredPlaced DEF PingInv, Slow
<1>6. PingInv'
  BY <1>1, <1>5, OthersWait DEF TypeOK, runVars, pingVars
<1> QED BY <1>2, <1>3, <1>4, <1>6

LEMMA StepKeepsTime == CmdInv /\ [Next]_vars => CmdInv'
<1> SUFFICES ASSUME CmdInv, [Next]_vars PROVE CmdInv'
  OBVIOUS
<1>1. RunInv'
  BY StepKeeps DEF CmdInv
<1>2. CASE Startup \/ Run \/ Process \/ Tick
  BY <1>1, <1>2, RunKeepsTime, TickKeepsTime
<1>3. ASSUME NEW s \in Session, NEW frame \in sends[s], Send(s, frame) PROVE CmdInv'
  <2>1. frame \in FrameKind
    BY CommandAssumption DEF CmdInv, TypeOK
  <2> QED BY <1>1, <1>3, <2>1, SendKeepsTime
<1>4. ASSUME NEW s \in Session, LoopStep(s) PROVE CmdInv'
  BY <1>1, <1>4, PongKeepsTime, QuickKeepsTime, TranscribeKeepsTime, AsrEndKeepsTime,
     RunSkillKeepsTime, SkillAnsweredKeepsTime DEF LoopStep
<1>5. ASSUME NEW s \in Session, AsrProgress(s) \/ AsrEnds(s) PROVE CmdInv'
  BY <1>1, <1>5, ProgressKeepsTime, AsrEndKeepsTime
<1>6. CASE UNCHANGED vars
  <2>1. RunTypeOK' /\ TimeLeft' /\ Drained'
    BY <1>6, RunUntouched DEF vars, runVars, CmdInv, TypeOK
  <2>2. TypeOK' /\ InLineOnce' /\ OpenOrClosed'
    BY <1>6, <2>1 DEF vars, CmdInv, TypeOK, InLineOnce, OpenOrClosed, NoPing
  <2>3. PingInv'
    <3> SUFFICES ASSUME NEW s \in Session PROVE PingPlaced(s)'
      BY DEF PingInv
    <3>1. UNCHANGED <<phase, left, asrVars, inbox, at, ping, behind>>
      BY <1>6 DEF vars, asrVars
    <3>2. InTime(s) => InTime(s)'
      BY <3>1, InTimeStays
    <3> QED BY <3>1, <3>2, PingStays DEF CmdInv, PingInv
  <2> QED BY <1>1, <2>1, <2>2, <2>3 DEF CmdInv
<1> QED BY <1>2, <1>3, <1>4, <1>5, <1>6 DEF Next

(* The tasks of the run, the loops of the connections, the line at the     *)
(* lock and the age of every ping agree with one another.                  *)
THEOREM CmdInvariantHolds == Spec => []CmdInv
<1> QED BY CmdInit, StepKeepsTime, PTL DEF Spec

(* "must fail before the client's heartbeat gives up on the link"          *)
(* (library.py, asr/client.py): with the time-outs below the heartbeat, a  *)
(* ping is as old as that only behind several commands, behind the lock of *)
(* the ASR client, or behind a request whose server goes on now and then.  *)
THEOREM PingsInTimeHolds == Spec => []PingsInTime
<1>1. CmdInv => PingsInTime
  <2> SUFFICES ASSUME CmdInv, NEW s \in Session, ping[s] = Heartbeat PROVE behind[s]
    BY DEF PingsInTime
  <2>1. ping[s] # NoPing
    BY Bounds
  <2>2. \E i \in DOMAIN inbox[s] : behind[s] \/ Waits(s, i)
    BY <2>1 DEF CmdInv, PingInv, PingPlaced
  <2>3. \A i \in DOMAIN inbox[s] : ~Waits(s, i)
    BY Bounds, PatienceAssumption DEF Waits, InTime
  <2> QED BY <2>2, <2>3
<1> QED BY <1>1, CmdInvariantHolds, PTL

(* No time passes in _reap once the process is dead: its readers find the  *)
(* end of the pipes, and the process is collected.                         *)
LEMMA ReapedAtOnce ==
    ASSUME CmdInv, [Next]_vars, phase = "reaping", left' < left
    PROVE  proc # "dead"
<1> SUFFICES ASSUME proc = "dead" PROVE FALSE
  OBVIOUS
<1>1. left \in Nat
  BY Bounds DEF CmdInv, TypeOK, RunTypeOK
<1>2. Tick
  <2>1. Startup \/ Run \/ Process => left' = left
    BY RunStepMoves DEF CmdInv, TypeOK, Startup, Load, Rewrite, RunMoves
  <2>2. ASSUME NEW s \in Session,
               (\E frame \in sends[s] : Send(s, frame)) \/ LoopStep(s) \/ AsrProgress(s) \/ AsrEnds(s)
        PROVE  left' = left
    BY <2>2 DEF Send, LoopStep, Pong, Violation, Quick, Transcribe, AsrExpires, RunSkill, Begin,
                SkillAnswered, AsrProgress, AsrEnds, runVars
  <2> QED BY <1>1, <2>1, <2>2 DEF Next, vars
<1>3. ~CallerReady /\ \A p \in Pipe : drain[p] # "reading"
  BY <1>2 DEF Tick, Busy, ReaderReady
<1>4. \A p \in Pipe : drain[p] = "eof" /\ unread[p] = 0
  BY <1>3 DEF CmdInv, Drained, AtEof, TypeOK, RunTypeOK
<1> QED BY <1>3, <1>4, Bounds DEF CallerReady, Reapable

(* "a skill can waste at most its own timeout window" (sandbox.py): no run *)
(* leaves a process that was not killed, or a reader, behind, but the one  *)
(* whose arguments could not be encoded; a pipe never has two readers, and *)
(* a process that is dead is collected at once.                            *)
THEOREM SandboxContainedHolds == Spec => SandboxContained
<1>1. CmdInv /\ [Next]_vars => [phase = "reaping" /\ left' < left => proc # "dead"]_vars
  BY ReapedAtOnce
<1>2. Spec => DeadIsReaped
  BY <1>1, CmdInvariantHolds, PTL DEF Spec, DeadIsReaped
<1> QED BY <1>2, NoOrphanHolds, OneReaderHolds, PTL DEF SandboxContained
=============================================================================
