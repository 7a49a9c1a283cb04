---------------------------- MODULE LlmScheduler ----------------------------
(***************************************************************************)
(* The priority scheduler in front of llama-server                         *)
(* (src/ghost_runner_core/llm/scheduler.py).                               *)
(*                                                                         *)
(* The scheduler runs on one asyncio loop, so an action is what one task   *)
(* does between two awaits: a submitter's call, the worker's wake-up, the  *)
(* first step, the last step or the cancellation of a job's task.  The     *)
(* synchronous `_dispatch` loop is one such step; it is spelled out as     *)
(* several actions, during which (worker = "dispatching") nobody else      *)
(* moves.                                                                  *)
(*                                                                         *)
(* A value of the constant Job names a submitter, and with it the Job      *)
(* object of its latest submission: Submit(j) makes a fresh object.        *)
(***************************************************************************)
EXTENDS Naturals, FiniteSets

CONSTANTS
    Job,        \* the submitters
    Slots,      \* slots of llama-server
    Reserved,   \* slots only chat may take
    Prio,       \* Prio[j]: 0 chat, 1 perception, 2 embeddings, 3 consolidation
    Pure,       \* the jobs submitted with pure=True
    TurnOf,     \* TurnOf[j]: the turn a job is submitted for
    NoTurn,     \* turn_id=None
    MaxAge,     \* levels a waiting job may gain; 0 stands for a huge aging_s
    Impatient,  \* the submitters whose own task may be cancelled
    MayStop,    \* TRUE iff stop() may be called
    MayFail     \* TRUE iff an exception may escape the worker loop

(* __init__ refuses a reservation that leaves no shared slot.              *)
ASSUME SlotsAssumption ==
    /\ Slots \in Nat
    /\ Reserved \in Nat
    /\ Reserved < Slots

ASSUME JobAssumption ==
    /\ IsFiniteSet(Job)
    /\ Prio \in [Job -> 0..3]
    /\ Pure \subseteq Job
    /\ Impatient \subseteq Job
    /\ MaxAge \in Nat
    /\ MayStop \in BOOLEAN
    /\ MayFail \in BOOLEAN

VARIABLES
    queue,      \* _queue: the jobs waiting for a slot
    age,        \* age[j]: levels a queued job has gained since enqueued_at
    ahead,      \* ahead[j]: the queued jobs with an enqueued_at before j's
    older,      \* older[j]: the jobs with a smaller seq than j's
    running,    \* _running: jobs whose task the worker has not yet collected
    preempting, \* _preempting: jobs whose preemption was ordered
    task,       \* task[j]: the asyncio task of the job
    cancelReq,  \* jobs whose task has task.cancel() pending
    future,     \* future[j]: what the submitter awaits
    caller,     \* caller[j]: the submitter's own task
    wake,       \* _wake
    worker,     \* the worker task
    asked,      \* history: jobs some caller, turn or stop() asked to cancel
    unstarted   \* history: jobs whose last task was cancelled before it ran

queueVars == <<queue, age, ahead>>
taskVars  == <<running, preempting, task, cancelReq>>
userVars  == <<future, caller, asked>>
vars == <<queue, age, ahead, older, running, preempting, task, cancelReq,
          future, caller, wake, worker, asked, unstarted>>

TypeOK ==
    /\ queue \in SUBSET Job
    /\ age \in [Job -> 0..MaxAge]
    /\ ahead \in [Job -> SUBSET Job]
    /\ older \in [Job -> SUBSET Job]
    /\ running \in SUBSET Job
    /\ preempting \in SUBSET Job
    /\ task \in [Job -> {"none", "created", "running", "done"}]
    /\ cancelReq \in SUBSET Job
    /\ future \in [Job -> {"none", "pending", "settled", "cancelled"}]
    /\ caller \in [Job -> {"idle", "awaiting", "cancelling"}]
    /\ wake \in BOOLEAN
    /\ worker \in {"starting", "waiting", "dispatching", "stopping",
                   "stopped", "failed", "dead"}
    /\ asked \in SUBSET Job
    /\ unstarted \in SUBSET Job

(* main.py builds the scheduler and starts it before it serves anybody.    *)
Init ==
    /\ queue = {}
    /\ age = [j \in Job |-> 0]
    /\ ahead = [j \in Job |-> {}]
    /\ older = [j \in Job |-> {}]
    /\ running = {}
    /\ preempting = {}
    /\ task = [j \in Job |-> "none"]
    /\ cancelReq = {}
    /\ future = [j \in Job |-> "none"]
    /\ caller = [j \in Job |-> "idle"]
    /\ wake = FALSE
    /\ worker = "starting"
    /\ asked = {}
    /\ unstarted = {}

-----------------------------------------------------------------------------
(* Helpers.                                                                *)

IsChat(j) == Prio[j] = 0

(* A task that asyncio has created and that has not ended.                 *)
Live(j) == task[j] \in {"created", "running"}

Free == Slots - Cardinality(running)

EffectivePrio(j) == IF age[j] > Prio[j] THEN 0 ELSE Prio[j] - age[j]

(* The dispatch order: effective priority, then seq.                       *)
Before(j, k) ==
    \/ EffectivePrio(j) < EffectivePrio(k)
    \/ EffectivePrio(j) = EffectivePrio(k) /\ j \in older[k]

(* Slips: one reserved slot too few; a job that aged to the priority of    *)
(* chat is admitted as chat.                                               *)
AdmissibleUnreserved(j) == j \in queue /\ Free >= 1 /\ (IsChat(j) \/ Free >= Reserved)
AdmissibleAged(j) ==
    j \in queue /\ Free >= 1 /\ (EffectivePrio(j) = 0 \/ Free > Reserved)

(* What admission lets start now.                                          *)
Admissible(j) ==
    /\ j \in queue
    /\ Free >= 1
    /\ IsChat(j) \/ Free > Reserved

(* A slip: purity is forgotten.                                            *)
VictimsImpure == {j \in running : Prio[j] >= 2 /\ j \notin preempting}

(* The jobs a waiting chat may preempt.                                    *)
Victims == {j \in running : j \in Pure /\ Prio[j] >= 2 /\ j \notin preempting}

MustPreempt ==
    /\ Free < 1
    /\ \E c \in queue : IsChat(c)
    /\ Victims # {}

(* The jobs of S leave the queue.                                          *)
Unqueue(S) ==
    /\ queue' = queue \ S
    /\ age' = [k \in Job |-> IF k \in S THEN 0 ELSE age[k]]
    /\ ahead' = [k \in Job |-> IF k \in S THEN {} ELSE ahead[k] \ S]

(* queue.append(job), with enqueued_at = now.                              *)
Enqueue(j) ==
    /\ queue' = queue \cup {j}
    /\ age' = [age EXCEPT ![j] = 0]
    /\ ahead' = [ahead EXCEPT ![j] = queue]

(* task.cancel(): no effect on a task that has ended.                      *)
CancelTasks(S) == cancelReq' = cancelReq \cup {j \in S : Live(j)}

(* future.cancel() where the future is not done.                           *)
CancelFutures(S) ==
    future' = [k \in Job |-> IF k \in S /\ future[k] = "pending"
                             THEN "cancelled" ELSE future[k]]

(* A slip: an exception swallowed.                                         *)
SettleSwallowed(S) == UNCHANGED future

(* The future of a job gets its result or an exception.                    *)
Settle(S) ==
    future' = [k \in Job |-> IF k \in S /\ future[k] = "pending"
                             THEN "settled" ELSE future[k]]

(* A slip: the event is not set.                                           *)
RingLost == UNCHANGED wake

(* _wake.set()                                                             *)
Ring == wake' = TRUE

(* Slips: nobody is sent back to the queue; everybody is.                  *)
SentBackNever(j) == FALSE
SentBackAlways(j) == TRUE

(* Whether a cancelled job is queued again.                                *)
SentBack(j) == j \in preempting

(* A slip: asyncio.wait's pending tasks are collected with the done ones.  *)
CollectedAll == running

(* The tasks the worker takes out of its book.                             *)
Collected == {j \in running : task[j] = "done"}

(* A slip: the submitters that wait for a slot are forgotten.              *)
OrphansRunning == running

(* The jobs a dead worker leaves behind.                                   *)
Orphans == queue \cup running

(* The synchronous dispatch excludes every other step.                     *)
LoopFree == worker # "dispatching"

-----------------------------------------------------------------------------
(* Submitters.                                                             *)

(* submit() up to its await; a dead scheduler raises instead.              *)
Submit(j) ==
    /\ LoopFree
    /\ worker # "dead"
    /\ caller[j] = "idle"
    /\ j \notin queue \cup running
    /\ task[j] = "none"
    /\ Enqueue(j)
    /\ older' = [k \in Job |-> IF k = j THEN queue \cup running
                               ELSE (older[k] \cap (queue \cup running)) \ {j}]
    /\ preempting' = preempting \ {j}
    /\ future' = [future EXCEPT ![j] = "pending"]
    /\ caller' = [caller EXCEPT ![j] = "awaiting"]
    /\ asked' = asked \ {j}
    /\ unstarted' = unstarted \ {j}
    /\ Ring
    /\ UNCHANGED <<running, task, cancelReq, worker>>

(* The submitter's own task is cancelled at its `await future`.            *)
CallerCancelled(j) ==
    /\ LoopFree
    /\ j \in Impatient
    /\ caller[j] = "awaiting"
    /\ caller' = [caller EXCEPT ![j] = "cancelling"]
    /\ CancelFutures({j})
    /\ asked' = asked \cup {j}
    /\ UNCHANGED <<queueVars, taskVars, older, unstarted, wake, worker>>

(* submit() returns or raises; on CancelledError, from its own task or     *)
(* from the future, it first runs _remove(job).                            *)
CallerResumes(j) ==
    /\ LoopFree
    /\ caller[j] # "idle"
    /\ future[j] # "pending"
    /\ IF caller[j] = "cancelling" \/ future[j] = "cancelled"
       THEN /\ Unqueue({j})
            /\ CancelTasks({j} \cap running)
       ELSE UNCHANGED <<queueVars, cancelReq>>
    /\ caller' = [caller EXCEPT ![j] = "idle"]
    /\ UNCHANGED <<older, unstarted, running, preempting, task, future, wake,
                   worker, asked>>

(* cancel_turn(t): drop the queued jobs of a turn, cancel the running ones.*)
CancelTurn(t) ==
    LET jobs == {j \in queue \cup running : TurnOf[j] = t} IN
    /\ LoopFree
    /\ jobs # {}
    /\ Unqueue(jobs \cap queue)
    /\ CancelFutures(jobs \cap queue)
    /\ CancelTasks(jobs \cap running)
    /\ asked' = asked \cup jobs
    /\ UNCHANGED <<older, unstarted, running, preempting, task, caller, wake,
                   worker>>

(* Time: a queued job gains a level.  enqueued_at orders the queue, so a   *)
(* job never gets ahead of one that has waited longer.                     *)
Age(j) ==
    /\ LoopFree
    /\ j \in queue
    /\ age[j] < MaxAge
    /\ \A k \in ahead[j] : age[k] > age[j] \/ age[k] = MaxAge
    /\ age' = [age EXCEPT ![j] = @ + 1]
    /\ UNCHANGED <<queue, ahead, older, unstarted, taskVars, userVars, wake,
                   worker>>

-----------------------------------------------------------------------------
(* A job's task: `_execute`.                                               *)

JobStarts(j) ==
    /\ LoopFree
    /\ task[j] = "created"
    /\ j \notin cancelReq
    /\ task' = [task EXCEPT ![j] = "running"]
    /\ UNCHANGED <<queueVars, userVars, older, unstarted, running,
                   preempting, cancelReq, wake, worker>>

(* The task ends; the worker collects it later.                            *)
TaskEnds(j) ==
    /\ task' = [task EXCEPT ![j] = "done"]
    /\ cancelReq' = cancelReq \ {j}

(* asyncio throws CancelledError into a coroutine that has not started     *)
(* before its first line: no handler of _execute runs.                     *)
JobCancelledUnstarted(j) ==
    /\ LoopFree
    /\ task[j] = "created"
    /\ j \in cancelReq
    /\ TaskEnds(j)
    /\ unstarted' = unstarted \cup {j}
    /\ UNCHANGED <<queueVars, userVars, older, running, preempting, wake,
                   worker>>

(* The factory returns, or raises an Exception: the submitter hears it.    *)
JobFinishes(j) ==
    /\ LoopFree
    /\ task[j] = "running"
    /\ j \notin cancelReq
    /\ TaskEnds(j)
    /\ Settle({j})
    /\ UNCHANGED <<queueVars, older, unstarted, running, preempting, caller,
                   wake, worker, asked>>

(* CancelledError reaches _execute: a preempted job goes back to the       *)
(* queue, any other one cancels its future.                                *)
JobCancelled(j) ==
    /\ LoopFree
    /\ task[j] = "running"
    /\ j \in cancelReq
    /\ TaskEnds(j)
    /\ IF SentBack(j)
       THEN /\ preempting' = preempting \ {j}
            /\ Enqueue(j)
            /\ Ring
            /\ UNCHANGED future
       ELSE /\ CancelFutures({j})
            /\ UNCHANGED <<queueVars, preempting, wake>>
    /\ UNCHANGED <<older, unstarted, running, caller, worker, asked>>

(* Closing the stream of a cancelled job raises in place of the            *)
(* CancelledError: an answer, and the job stays in _preempting.            *)
JobUnwindFails(j) ==
    /\ LoopFree
    /\ task[j] = "running"
    /\ j \in cancelReq
    /\ TaskEnds(j)
    /\ Settle({j})
    /\ UNCHANGED <<queueVars, older, unstarted, running, preempting, caller,
                   wake, worker, asked>>

-----------------------------------------------------------------------------
(* The worker.                                                             *)

(* asyncio.wait returns: collect the tasks that ended, clear the wake-up,  *)
(* dispatch.  The event loop is FIFO, so every task that _dispatch created *)
(* has had its first step before the worker runs again.                    *)
WorkerWakes ==
    /\ \/ worker = "starting"
       \/ worker = "waiting" /\ (wake \/ \E j \in running : task[j] = "done")
    /\ \A j \in Job : task[j] # "created"
    /\ worker' = "dispatching"
    /\ running' = running \ Collected
    /\ task' = [j \in Job |-> IF j \in Collected /\ task[j] = "done"
                              THEN "none" ELSE task[j]]
    /\ wake' = IF worker = "starting" THEN wake ELSE FALSE
    /\ UNCHANGED <<queueVars, userVars, older, unstarted, preempting,
                   cancelReq>>

(* The first admissible job in dispatch order starts, or is dropped if its *)
(* future was cancelled while it was queued.                               *)
DispatchOne(j) ==
    /\ worker = "dispatching"
    /\ Admissible(j)
    /\ \A k \in queue : Admissible(k) => k = j \/ Before(j, k)
    /\ Unqueue({j})
    /\ IF future[j] = "pending"
       THEN /\ running' = running \cup {j}
            /\ task' = [task EXCEPT ![j] = "created"]
       ELSE UNCHANGED <<running, task>>
    /\ UNCHANGED <<userVars, older, unstarted, preempting, cancelReq, wake,
                   worker>>

(* _try_preempt: the newest victim is cancelled and dispatch returns.      *)
DispatchPreempts(v) ==
    /\ worker = "dispatching"
    /\ MustPreempt
    /\ v \in Victims
    /\ \A w \in Victims : w = v \/ w \in older[v]
    /\ preempting' = preempting \cup {v}
    /\ CancelTasks({v})
    /\ worker' = "waiting"
    /\ UNCHANGED <<queueVars, userVars, older, unstarted, running, task, wake>>

DispatchEnds ==
    /\ worker = "dispatching"
    /\ \A k \in queue : ~Admissible(k)
    /\ ~MustPreempt
    /\ worker' = "waiting"
    /\ UNCHANGED <<queueVars, taskVars, userVars, older, unstarted, wake>>

(* An exception escapes the worker loop; its done callback is scheduled.   *)
WorkerFails ==
    /\ MayFail
    /\ worker = "dispatching"
    /\ worker' = "failed"
    /\ UNCHANGED <<queueVars, taskVars, userVars, older, unstarted, wake>>

(* _on_worker_dead: fail every pending job, drop the queue, cancel the     *)
(* running tasks and forget them.                                          *)
OnWorkerDead ==
    /\ worker = "failed"
    /\ worker' = "dead"
    /\ Settle(Orphans)
    /\ Unqueue(queue)
    /\ CancelTasks(running)
    /\ running' = {}
    /\ UNCHANGED <<older, unstarted, preempting, task, caller, wake, asked>>

(* stop(): cancel the worker and wait for it ...                           *)
Stop ==
    /\ MayStop
    /\ worker \in {"starting", "waiting"}
    /\ worker' = "stopping"
    /\ UNCHANGED <<queueVars, taskVars, userVars, older, unstarted, wake>>

(* ... then cancel the running tasks and the queued jobs.                  *)
StopFinishes ==
    /\ worker = "stopping"
    /\ \A j \in Job : task[j] # "created"
    /\ worker' = "stopped"
    /\ CancelTasks(running)
    /\ CancelFutures(queue)
    /\ Unqueue(queue)
    /\ asked' = asked \cup queue \cup running
    /\ UNCHANGED <<older, unstarted, running, preempting, task, caller, wake>>

-----------------------------------------------------------------------------

Turns == {TurnOf[j] : j \in Job} \ {NoTurn}

SubmitterStep(j) == Submit(j) \/ CallerCancelled(j) \/ CallerResumes(j) \/ Age(j)

JobStep(j) ==
    \/ JobStarts(j)
    \/ JobCancelledUnstarted(j)
    \/ JobFinishes(j)
    \/ JobCancelled(j)
    \/ JobUnwindFails(j)

DispatchStep == (\E j \in Job : DispatchOne(j) \/ DispatchPreempts(j)) \/ DispatchEnds

Next ==
    \/ \E j \in Job : SubmitterStep(j) \/ JobStep(j)
    \/ \E t \in Turns : CancelTurn(t)
    \/ WorkerWakes
    \/ DispatchStep
    \/ WorkerFails
    \/ OnWorkerDead
    \/ Stop
    \/ StopFinishes

Spec == Init /\ [][Next]_vars

-----------------------------------------------------------------------------
(* Safety.                                                                 *)

Loaded == {j \in Job : Live(j)}

(* The tasks that talk to llama-server are never more than it has slots.   *)
(* The tasks themselves are counted, not the scheduler's own book of them. *)
LoadBound == Cardinality(Loaded) <= Slots

(* Background tasks leave the reserved slots to chat, aged or not.         *)
ReservedForChat == Cardinality({j \in Loaded : ~IsChat(j)}) <= Slots - Reserved

(* Whatever was cancelled, preempted, stopped or lost with the worker, the *)
(* capacity of llama-server and the reservation hold (scheduler.py:5-10).  *)
CapacityRespected == LoadBound /\ ReservedForChat

(* A job's book-keeping agrees with its task: a job is queued or has a     *)
(* live task but never both, and the worker's book holds every live task   *)
(* unless the worker died.                                                 *)
Consistent ==
    /\ \A j \in queue : ~Live(j)
    /\ \A j \in running : task[j] # "none"
    /\ worker # "dead" => Loaded \subseteq running
    /\ cancelReq \subseteq Loaded

(* A job with downstream effects is never cancelled to make room: somebody *)
(* asked for it, or the worker is dead (scheduler.py:13-15).               *)
EffectfulNeverPreempted ==
    \A j \in Job \ Pure :
        /\ j \notin preempting
        /\ j \in cancelReq => j \in asked \/ worker = "dead"

(* A job enters the queue by its submission, or by its preemption and then *)
(* only if it is pure: what has downstream effects never runs twice, and a *)
(* job that its turn gave up runs again only if its preemption was already *)
(* under way (scheduler.py:13-15, 208-217).                                *)
RevivedOnlyByPreemption ==
    [][\A j \in queue' \ queue :
            \/ caller[j] = "idle" /\ caller'[j] = "awaiting"
            \/ j \in preempting \cap Pure]_vars

(* Preemption is silent: a submitter whose job nobody asked to cancel      *)
(* never sees a cancellation (scheduler.py:11-12, 209-217).                *)
PreemptionIsSilent == \A j \in Job : future[j] = "cancelled" => j \in asked

(* A submitter whose future nobody will ever complete.                     *)
Stranded(j) == future[j] = "pending" /\ j \notin queue /\ ~Live(j)

(* A submission can be lost, by aging, cancel_turn or stop(), but in one   *)
(* way only: its task was cancelled before its first step, so that no      *)
(* handler of _execute ever ran, and the cancellation was a preemption or  *)
(* asked for.  A job that ran is always answered or queued again           *)
(* (scheduler.py:11-12, 209-220).                                          *)
StrandedOnlyByEarlyCancel ==
    \A j \in Job : Stranded(j) => j \in unstarted /\ j \in preempting \cup asked

(* Once the worker's death was handled nobody waits for ever, queued or    *)
(* running, but the submitters whose job was lost earlier, cancelled       *)
(* before its first step (scheduler.py:76-77).                             *)
DeadWorkerAnswersAll ==
    worker = "dead" => \A j \in Job : future[j] = "pending" => j \in unstarted

Asleep == worker = "waiting" /\ ~wake /\ \A j \in running : task[j] # "done"

Vacating == \E v \in preempting : Live(v)

(* The worker never sleeps on work: when nothing is on its way to wake it, *)
(* no queued job could start, and a chat without a slot is already having  *)
(* one vacated if any job may be preempted.                                *)
NoLostWakeup ==
    Asleep => /\ \A k \in queue : ~Admissible(k)
              /\ MustPreempt => Vacating

-----------------------------------------------------------------------------
(* The inductive invariant.                                                *)

(* The scheduler's book never holds more jobs than there are slots.        *)
BookBound == Cardinality(running) <= Slots

(* A submitter waits for its future for as long as nobody completed it; it *)
(* is cancelled itself only because somebody asked.                        *)
CallerAwaits ==
    \A j \in Job : /\ future[j] = "pending" => caller[j] = "awaiting"
                   /\ caller[j] = "cancelling" => j \in asked

(* Every cancellation of a task has its reason.                            *)
CancelReason ==
    \A j \in cancelReq :
        \/ j \in preempting \cup asked
        \/ worker = "dead" /\ future[j] # "pending"

(* Chat is never preempted.                                                *)
VictimsAreBackground == \A j \in preempting : Prio[j] >= 2

(* The invariant the proofs use: the properties above, with what each step *)
(* needs to know of the others.                                            *)
IInv ==
    /\ TypeOK
    /\ Consistent
    /\ BookBound
    /\ CallerAwaits
    /\ CancelReason
    /\ VictimsAreBackground
    /\ EffectfulNeverPreempted
    /\ PreemptionIsSilent
    /\ StrandedOnlyByEarlyCancel

-----------------------------------------------------------------------------
(* The abstract scheduler.  A job holds a slot for as long as its task     *)
(* lives, whether or not the worker still has it in its book.              *)

Admission == INSTANCE AdmissionControl
             WITH Chat <- {j \in Job : IsChat(j)}, waiting <- queue, holding <- Loaded

(* Whatever the workers, submitters and turns do, the queue and the live   *)
(* tasks move only as the scheduler's contract allows (scheduler.py:1-16). *)
ImplementsAdmission == Admission!Spec

-----------------------------------------------------------------------------
(* Liveness, for a scheduler that is neither stopped nor broken.  The event*)
(* loop runs every ready task, a stream that is cancelled ends, and one    *)
(* that is not returns: llm/client.py gives every read a timeout.  Strong  *)
(* fairness is weak fairness of the program: a ready task of this model is *)
(* disabled only inside the one loop step that "dispatching" spells out.   *)

Fairness ==
    /\ WF_vars(WorkerWakes)
    /\ WF_vars(DispatchStep)
    /\ \A j \in Job : SF_vars(JobStep(j))
    /\ \A j \in Job : SF_vars(CallerResumes(j))

FairSpec == Spec /\ Fairness

Waiting(j) == future[j] = "pending"

(* Every chat is answered, though background jobs hold slots when it       *)
(* arrives and other chats keep arriving.                                  *)
ChatAnswered == \A j \in Job : IsChat(j) => (Waiting(j) ~> ~Waiting(j))

(* Once chat stays away every background job is answered, aged, preempted  *)
(* or not, unless its task was cancelled before its first step.            *)
BackgroundAnsweredWhenQuiet ==
    <>[](\A j \in Job : IsChat(j) => ~Waiting(j))
        => \A j \in Job : Waiting(j) ~> (~Waiting(j) \/ j \in unstarted)

-----------------------------------------------------------------------------
(* What the documentation says and the code does not do.                   *)

(* "silently re-enqueues it" (scheduler.py:11-12): a preempted job whose   *)
(* submitter waits has a task left to put it back.                         *)
PreemptedIsRequeued ==
    \A j \in preempting : future[j] = "pending" => Live(j)
=============================================================================
