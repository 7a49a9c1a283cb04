------------------------- MODULE LlmSchedulerProofs -------------------------
(***************************************************************************)
(* Proofs about LlmScheduler, for every set of jobs, every number of slots *)
(* and every aging.  The inductive invariant IInv comes first, one lemma   *)
(* per action; the refinement of AdmissionControl follows from it step by  *)
(* step, and the capacity theorems of the abstract scheduler carry over.   *)
(***************************************************************************)
EXTENDS LlmScheduler, TLAPS, FiniteSetTheorems

(* The worker's book is a finite set, and so is every part of it.          *)
LEMMA BookIsFinite ==
    ASSUME NEW S \in SUBSET Job
    PROVE  /\ IsFiniteSet(S)
           /\ Cardinality(S) \in Nat
           /\ \A T \in SUBSET S : Cardinality(T) \in Nat /\ Cardinality(T) <= Cardinality(S)
<1>1. IsFiniteSet(S)
  BY JobAssumption, FS_Subset
<1>2. ASSUME NEW T \in SUBSET S
      PROVE  Cardinality(T) \in Nat /\ Cardinality(T) <= Cardinality(S)
  BY <1>1, FS_Subset, FS_CardinalityType
<1> QED BY <1>1, <1>2, FS_CardinalityType

THEOREM InitEstablishes == Init => IInv
<1> SUFFICES ASSUME Init PROVE IInv
  OBVIOUS
<1>1. TypeOK
  <2>1. 0 \in 0..MaxAge
    BY JobAssumption
  <2>2. /\ queue \in SUBSET Job /\ age \in [Job -> 0..MaxAge]
        /\ ahead \in [Job -> SUBSET Job] /\ older \in [Job -> SUBSET Job]
        /\ running \in SUBSET Job /\ preempting \in SUBSET Job
        /\ cancelReq \in SUBSET Job /\ asked \in SUBSET Job
        /\ unstarted \in SUBSET Job
    BY <2>1 DEF Init
  <2>3. /\ task \in [Job -> {"none", "created", "running", "done"}]
        /\ future \in [Job -> {"none", "pending", "settled", "cancelled"}]
        /\ caller \in [Job -> {"idle", "awaiting", "cancelling"}]
    BY DEF Init
  <2> QED BY <2>2, <2>3 DEF Init, TypeOK
<1>2. BookBound
  BY SlotsAssumption, FS_EmptySet DEF Init, BookBound
<1>3. Consistent /\ CallerAwaits /\ CancelReason /\ VictimsAreBackground
  BY DEF Init, Consistent, CallerAwaits, CancelReason, VictimsAreBackground,
         Loaded, Live
<1>4. EffectfulNeverPreempted /\ PreemptionIsSilent /\ StrandedOnlyByEarlyCancel
  BY DEF Init, EffectfulNeverPreempted, PreemptionIsSilent,
         StrandedOnlyByEarlyCancel, Stranded
<1> QED BY <1>1, <1>2, <1>3, <1>4 DEF IInv

-----------------------------------------------------------------------------
(* A fresh job is queued, its submitter awaits it, and its history starts  *)
(* anew.                                                                   *)
LEMMA SubmitKeeps == ASSUME IInv, NEW j \in Job, Submit(j) PROVE IInv'
<1> USE DEF IInv, TypeOK, queueVars, taskVars, userVars
<1>1. TypeOK'
  BY JobAssumption DEF Submit, Enqueue, Ring
<1>2. Consistent'
  BY DEF Consistent, Loaded, Live, Submit, Enqueue, Ring
<1>3. BookBound'
  BY DEF BookBound, Submit
<1>4. CallerAwaits'
  BY DEF CallerAwaits, PreemptionIsSilent, Submit, Enqueue, Ring
<1>5. CancelReason'
  BY DEF CancelReason, CallerAwaits, Consistent, Loaded, Live,
         PreemptionIsSilent, Submit, Enqueue, Ring
<1>6. EffectfulNeverPreempted'
  BY DEF EffectfulNeverPreempted, CallerAwaits, Consistent, Loaded, Live,
         PreemptionIsSilent, Submit, Enqueue, Ring
<1>7. PreemptionIsSilent'
  BY DEF PreemptionIsSilent, CancelReason, CallerAwaits, Consistent,
         Loaded, Live, Submit, Enqueue, Ring
<1>8. StrandedOnlyByEarlyCancel'
  BY DEF StrandedOnlyByEarlyCancel, Stranded, CancelReason, CallerAwaits,
         Consistent, Loaded, Live, Submit, Enqueue, Ring
<1>9. VictimsAreBackground'
  BY DEF VictimsAreBackground, Submit
<1> QED BY <1>1, <1>2, <1>3, <1>4, <1>5, <1>6, <1>7, <1>8, <1>9

(* A submitter's cancellation is on record before its job is touched.      *)
LEMMA CallerCancelledKeeps == ASSUME IInv, NEW j \in Job, CallerCancelled(j) PROVE IInv'
<1> USE DEF IInv, TypeOK, queueVars, taskVars, userVars
<1> QED BY JobAssumption DEF Consistent, Loaded, Live, BookBound, CallerAwaits,
         CancelReason, VictimsAreBackground, EffectfulNeverPreempted,
         PreemptionIsSilent, StrandedOnlyByEarlyCancel, Stranded,
         CallerCancelled, CancelFutures

(* A submitter that gives up asked for it, or its future was cancelled on  *)
(* request.                                                                *)
LEMMA CallerResumesKeeps == ASSUME IInv, NEW j \in Job, CallerResumes(j) PROVE IInv'
<1> USE DEF IInv, TypeOK, queueVars, taskVars, userVars
<1>1. TypeOK'
  BY JobAssumption DEF CallerResumes, Unqueue, CancelTasks
<1>2. Consistent'
  BY DEF Consistent, Loaded, Live, CallerResumes, Unqueue, CancelTasks
<1>3. BookBound'
  BY DEF BookBound, CallerResumes
<1>4. CallerAwaits'
  BY DEF CallerAwaits, PreemptionIsSilent, CallerResumes, Unqueue,
         CancelTasks
<1>5. CancelReason'
  BY DEF CancelReason, CallerAwaits, Consistent, Loaded, Live,
         PreemptionIsSilent, CallerResumes, Unqueue, CancelTasks
<1>6. EffectfulNeverPreempted'
  BY DEF EffectfulNeverPreempted, CallerAwaits, Consistent, Loaded, Live,
         PreemptionIsSilent, CallerResumes, Unqueue, CancelTasks
<1>7. PreemptionIsSilent'
  BY DEF PreemptionIsSilent, CancelReason, CallerAwaits, Consistent,
         Loaded, Live, CallerResumes, Unqueue, CancelTasks
<1>8. StrandedOnlyByEarlyCancel'
  BY DEF StrandedOnlyByEarlyCancel, Stranded, CancelReason, CallerAwaits,
         Consistent, Loaded, Live, CallerResumes, Unqueue, CancelTasks
<1>9. VictimsAreBackground'
  BY DEF VictimsAreBackground, CallerResumes
<1> QED BY <1>1, <1>2, <1>3, <1>4, <1>5, <1>6, <1>7, <1>8, <1>9

(* A turn's queued jobs are answered, its running ones have a reason to    *)
(* end.                                                                    *)
LEMMA CancelTurnKeeps == ASSUME IInv, NEW t, CancelTurn(t) PROVE IInv'
<1> USE DEF IInv, TypeOK, queueVars, taskVars, userVars
<1>1. TypeOK'
  BY JobAssumption DEF CancelTurn, Unqueue, CancelFutures, CancelTasks
<1>2. Consistent'
  BY DEF Consistent, Loaded, Live, CancelTurn, Unqueue, CancelFutures,
         CancelTasks
<1>3. BookBound'
  BY DEF BookBound, CancelTurn
<1>4. CallerAwaits'
  BY DEF CallerAwaits, PreemptionIsSilent, CancelTurn, Unqueue,
         CancelFutures, CancelTasks
<1>5. CancelReason'
  BY DEF CancelReason, CallerAwaits, Consistent, Loaded, Live,
         PreemptionIsSilent, CancelTurn, Unqueue, CancelFutures,
         CancelTasks
<1>6. EffectfulNeverPreempted'
  BY DEF EffectfulNeverPreempted, CallerAwaits, Consistent, Loaded, Live,
         PreemptionIsSilent, CancelTurn, Unqueue, CancelFutures,
         CancelTasks
<1>7. PreemptionIsSilent'
  BY DEF PreemptionIsSilent, CancelReason, CallerAwaits, Consistent,
         Loaded, Live, CancelTurn, Unqueue, CancelFutures, CancelTasks
<1>8. StrandedOnlyByEarlyCancel'
  BY DEF StrandedOnlyByEarlyCancel, Stranded, CancelReason, CallerAwaits,
         Consistent, Loaded, Live, CancelTurn, Unqueue, CancelFutures,
         CancelTasks
<1>9. VictimsAreBackground'
  BY DEF VictimsAreBackground, CancelTurn
<1> QED BY <1>1, <1>2, <1>3, <1>4, <1>5, <1>6, <1>7, <1>8, <1>9

(* Waiting changes nothing but the level.                                  *)
LEMMA AgeKeeps == ASSUME IInv, NEW j \in Job, Age(j) PROVE IInv'
<1> USE DEF IInv, TypeOK, queueVars, taskVars, userVars
<1> QED BY JobAssumption DEF Consistent, Loaded, Live, BookBound, CallerAwaits,
         CancelReason, VictimsAreBackground, EffectfulNeverPreempted,
         PreemptionIsSilent, StrandedOnlyByEarlyCancel, Stranded, Age

(* The first step of a task.                                               *)
LEMMA JobStartsKeeps == ASSUME IInv, NEW j \in Job, JobStarts(j) PROVE IInv'
<1> USE DEF IInv, TypeOK, queueVars, taskVars, userVars
<1> QED BY JobAssumption DEF Consistent, Loaded, Live, BookBound, CallerAwaits,
         CancelReason, VictimsAreBackground, EffectfulNeverPreempted,
         PreemptionIsSilent, StrandedOnlyByEarlyCancel, Stranded,
         JobStarts

(* A task that never ran leaves its submitter stranded, for the reason it  *)
(* was cancelled.                                                          *)
LEMMA JobCancelledUnstartedKeeps == ASSUME IInv, NEW j \in Job, JobCancelledUnstarted(j) PROVE IInv'
<1> USE DEF IInv, TypeOK, queueVars, taskVars, userVars
<1>1. TypeOK'
  BY JobAssumption DEF JobCancelledUnstarted, TaskEnds
<1>2. Consistent'
  BY DEF Consistent, Loaded, Live, JobCancelledUnstarted, TaskEnds
<1>3. BookBound'
  BY DEF BookBound, JobCancelledUnstarted
<1>4. CallerAwaits'
  BY DEF CallerAwaits, PreemptionIsSilent, JobCancelledUnstarted, TaskEnds
<1>5. CancelReason'
  BY DEF CancelReason, CallerAwaits, Consistent, Loaded, Live,
         PreemptionIsSilent, JobCancelledUnstarted, TaskEnds
<1>6. EffectfulNeverPreempted'
  BY DEF EffectfulNeverPreempted, CallerAwaits, Consistent, Loaded, Live,
         PreemptionIsSilent, JobCancelledUnstarted, TaskEnds
<1>7. PreemptionIsSilent'
  BY DEF PreemptionIsSilent, CancelReason, CallerAwaits, Consistent,
         Loaded, Live, JobCancelledUnstarted, TaskEnds
<1>8. StrandedOnlyByEarlyCancel'
  BY DEF StrandedOnlyByEarlyCancel, Stranded, CancelReason, CallerAwaits,
         Consistent, Loaded, Live, JobCancelledUnstarted, TaskEnds
<1>9. VictimsAreBackground'
  BY DEF VictimsAreBackground, JobCancelledUnstarted
<1> QED BY <1>1, <1>2, <1>3, <1>4, <1>5, <1>6, <1>7, <1>8, <1>9

(* A finished job has answered.                                            *)
LEMMA JobFinishesKeeps == ASSUME IInv, NEW j \in Job, JobFinishes(j) PROVE IInv'
<1> USE DEF IInv, TypeOK, queueVars, taskVars, userVars
<1>1. TypeOK'
  BY JobAssumption DEF JobFinishes, TaskEnds, Settle
<1>2. Consistent'
  BY DEF Consistent, Loaded, Live, JobFinishes, TaskEnds, Settle
<1>3. BookBound'
  BY DEF BookBound, JobFinishes
<1>4. CallerAwaits'
  BY DEF CallerAwaits, PreemptionIsSilent, JobFinishes, TaskEnds, Settle
<1>5. CancelReason'
  BY DEF CancelReason, CallerAwaits, Consistent, Loaded, Live,
         PreemptionIsSilent, JobFinishes, TaskEnds, Settle
<1>6. EffectfulNeverPreempted'
  BY DEF EffectfulNeverPreempted, CallerAwaits, Consistent, Loaded, Live,
         PreemptionIsSilent, JobFinishes, TaskEnds, Settle
<1>7. PreemptionIsSilent'
  BY DEF PreemptionIsSilent, CancelReason, CallerAwaits, Consistent,
         Loaded, Live, JobFinishes, TaskEnds, Settle
<1>8. StrandedOnlyByEarlyCancel'
  BY DEF StrandedOnlyByEarlyCancel, Stranded, CancelReason, CallerAwaits,
         Consistent, Loaded, Live, JobFinishes, TaskEnds, Settle
<1>9. VictimsAreBackground'
  BY DEF VictimsAreBackground, JobFinishes
<1> QED BY <1>1, <1>2, <1>3, <1>4, <1>5, <1>6, <1>7, <1>8, <1>9

(* A cancelled job is queued again if it was preempted, else its           *)
(* submitter hears.                                                        *)
LEMMA JobCancelledKeeps == ASSUME IInv, NEW j \in Job, JobCancelled(j) PROVE IInv'
<1> USE DEF IInv, TypeOK, queueVars, taskVars, userVars
<1>1. TypeOK'
  <2>1. CASE j \in preempting
    BY <2>1, JobAssumption DEF JobCancelled, TaskEnds, SentBack, Enqueue, Ring
  <2>2. CASE j \notin preempting
    BY <2>2, JobAssumption DEF JobCancelled, TaskEnds, SentBack, CancelFutures
  <2> QED BY <2>1, <2>2
<1>2. Consistent'
  BY DEF Consistent, Loaded, Live, JobCancelled, TaskEnds, SentBack,
         Enqueue, Ring, CancelFutures
<1>3. BookBound'
  BY DEF BookBound, JobCancelled
<1>4. CallerAwaits'
  BY DEF CallerAwaits, PreemptionIsSilent, JobCancelled, TaskEnds,
         SentBack, Enqueue, Ring, CancelFutures
<1>5. CancelReason'
  BY DEF CancelReason, CallerAwaits, Consistent, Loaded, Live,
         PreemptionIsSilent, JobCancelled, TaskEnds, SentBack, Enqueue,
         Ring, CancelFutures
<1>6. EffectfulNeverPreempted'
  BY DEF EffectfulNeverPreempted, CallerAwaits, Consistent, Loaded, Live,
         PreemptionIsSilent, JobCancelled, TaskEnds, SentBack, Enqueue,
         Ring, CancelFutures
<1>7. PreemptionIsSilent'
  BY DEF PreemptionIsSilent, CancelReason, CallerAwaits, Consistent,
         Loaded, Live, JobCancelled, TaskEnds, SentBack, Enqueue, Ring,
         CancelFutures
<1>8. StrandedOnlyByEarlyCancel'
  BY DEF StrandedOnlyByEarlyCancel, Stranded, CancelReason, CallerAwaits,
         Consistent, Loaded, Live, JobCancelled, TaskEnds, SentBack,
         Enqueue, Ring, CancelFutures
<1>9. VictimsAreBackground'
  BY DEF VictimsAreBackground, JobCancelled, TaskEnds, SentBack, Enqueue,
         Ring, CancelFutures
<1> QED BY <1>1, <1>2, <1>3, <1>4, <1>5, <1>6, <1>7, <1>8, <1>9

(* A job whose clean-up fails has answered.                                *)
LEMMA JobUnwindFailsKeeps == ASSUME IInv, NEW j \in Job, JobUnwindFails(j) PROVE IInv'
<1> USE DEF IInv, TypeOK, queueVars, taskVars, userVars
<1>1. TypeOK'
  BY JobAssumption DEF JobUnwindFails, TaskEnds, Settle
<1>2. Consistent'
  BY DEF Consistent, Loaded, Live, JobUnwindFails, TaskEnds, Settle
<1>3. BookBound'
  BY DEF BookBound, JobUnwindFails
<1>4. CallerAwaits'
  BY DEF CallerAwaits, PreemptionIsSilent, JobUnwindFails, TaskEnds,
         Settle
<1>5. CancelReason'
  BY DEF CancelReason, CallerAwaits, Consistent, Loaded, Live,
         PreemptionIsSilent, JobUnwindFails, TaskEnds, Settle
<1>6. EffectfulNeverPreempted'
  BY DEF EffectfulNeverPreempted, CallerAwaits, Consistent, Loaded, Live,
         PreemptionIsSilent, JobUnwindFails, TaskEnds, Settle
<1>7. PreemptionIsSilent'
  BY DEF PreemptionIsSilent, CancelReason, CallerAwaits, Consistent,
         Loaded, Live, JobUnwindFails, TaskEnds, Settle
<1>8. StrandedOnlyByEarlyCancel'
  BY DEF StrandedOnlyByEarlyCancel, Stranded, CancelReason, CallerAwaits,
         Consistent, Loaded, Live, JobUnwindFails, TaskEnds, Settle
<1>9. VictimsAreBackground'
  BY DEF VictimsAreBackground, JobUnwindFails
<1> QED BY <1>1, <1>2, <1>3, <1>4, <1>5, <1>6, <1>7, <1>8, <1>9

(* Only ended tasks leave the book.                                        *)
LEMMA WorkerWakesKeeps == ASSUME IInv, WorkerWakes PROVE IInv'
<1> USE DEF IInv, TypeOK, queueVars, taskVars, userVars
<1>1. TypeOK'
  BY JobAssumption DEF WorkerWakes, Collected
<1>2. Consistent'
  BY DEF Consistent, Loaded, Live, WorkerWakes, Collected
<1>3. BookBound'
  <2>1. running' \in SUBSET running
    BY DEF WorkerWakes
  <2> QED BY <2>1, BookIsFinite, SlotsAssumption DEF BookBound
<1>4. CallerAwaits'
  BY DEF CallerAwaits, PreemptionIsSilent, WorkerWakes, Collected
<1>5. CancelReason'
  BY DEF CancelReason, CallerAwaits, Consistent, Loaded, Live,
         PreemptionIsSilent, WorkerWakes, Collected
<1>6. EffectfulNeverPreempted'
  BY DEF EffectfulNeverPreempted, CallerAwaits, Consistent, Loaded, Live,
         PreemptionIsSilent, WorkerWakes, Collected
<1>7. PreemptionIsSilent'
  BY DEF PreemptionIsSilent, CancelReason, CallerAwaits, Consistent,
         Loaded, Live, WorkerWakes, Collected
<1>8. StrandedOnlyByEarlyCancel'
  BY DEF StrandedOnlyByEarlyCancel, Stranded, CancelReason, CallerAwaits,
         Consistent, Loaded, Live, WorkerWakes, Collected
<1>9. VictimsAreBackground'
  BY DEF VictimsAreBackground, WorkerWakes
<1> QED BY <1>1, <1>2, <1>3, <1>4, <1>5, <1>6, <1>7, <1>8, <1>9

(* A job that starts leaves the queue; there was a slot for it.            *)
LEMMA DispatchOneKeeps == ASSUME IInv, NEW j \in Job, DispatchOne(j) PROVE IInv'
<1> USE DEF IInv, TypeOK, queueVars, taskVars, userVars
<1>1. TypeOK'
  BY JobAssumption DEF DispatchOne, Admissible, Unqueue, Free
<1>2. Consistent'
  BY DEF Consistent, Loaded, Live, DispatchOne, Admissible, Unqueue, Free
<1>3. BookBound'
  <2>1. CASE running' = running
    BY <2>1 DEF BookBound
  <2>2. CASE running' = running \cup {j}
    <3>1. Cardinality(running') <= Cardinality(running) + 1
      BY <2>2, BookIsFinite, FS_AddElement
    <3>2. Slots - Cardinality(running) >= 1
      BY DEF DispatchOne, Admissible, Free
    <3>3. Cardinality(running) \in Nat /\ Cardinality(running') \in Nat
      BY <2>2, BookIsFinite, running' \in SUBSET Job
    <3> QED BY <3>1, <3>2, <3>3, SlotsAssumption DEF BookBound
  <2> QED BY <2>1, <2>2 DEF DispatchOne
<1>4. CallerAwaits'
  BY DEF CallerAwaits, PreemptionIsSilent, DispatchOne, Admissible,
         Unqueue, Free
<1>5. CancelReason'
  BY DEF CancelReason, CallerAwaits, Consistent, Loaded, Live,
         PreemptionIsSilent, DispatchOne, Admissible, Unqueue, Free
<1>6. EffectfulNeverPreempted'
  BY DEF EffectfulNeverPreempted, CallerAwaits, Consistent, Loaded, Live,
         PreemptionIsSilent, DispatchOne, Admissible, Unqueue, Free
<1>7. PreemptionIsSilent'
  BY DEF PreemptionIsSilent, CancelReason, CallerAwaits, Consistent,
         Loaded, Live, DispatchOne, Admissible, Unqueue, Free
<1>8. StrandedOnlyByEarlyCancel'
  BY DEF StrandedOnlyByEarlyCancel, Stranded, CancelReason, CallerAwaits,
         Consistent, Loaded, Live, DispatchOne, Admissible, Unqueue, Free
<1>9. VictimsAreBackground'
  BY DEF VictimsAreBackground, DispatchOne
<1> QED BY <1>1, <1>2, <1>3, <1>4, <1>5, <1>6, <1>7, <1>8, <1>9

(* The victim is pure, and its cancellation has a reason.                  *)
LEMMA DispatchPreemptsKeeps == ASSUME IInv, NEW v \in Job, DispatchPreempts(v) PROVE IInv'
<1> USE DEF IInv, TypeOK, queueVars, taskVars, userVars
<1>1. TypeOK'
  BY JobAssumption DEF DispatchPreempts, Victims, CancelTasks
<1>2. Consistent'
  BY DEF Consistent, Loaded, Live, DispatchPreempts, Victims, CancelTasks
<1>3. BookBound'
  BY DEF BookBound, DispatchPreempts
<1>4. CallerAwaits'
  BY DEF CallerAwaits, PreemptionIsSilent, DispatchPreempts, Victims,
         CancelTasks
<1>5. CancelReason'
  BY DEF CancelReason, CallerAwaits, Consistent, Loaded, Live,
         PreemptionIsSilent, DispatchPreempts, Victims, CancelTasks
<1>6. EffectfulNeverPreempted'
  BY DEF EffectfulNeverPreempted, CallerAwaits, Consistent, Loaded, Live,
         PreemptionIsSilent, DispatchPreempts, Victims, CancelTasks
<1>7. PreemptionIsSilent'
  BY DEF PreemptionIsSilent, CancelReason, CallerAwaits, Consistent,
         Loaded, Live, DispatchPreempts, Victims, CancelTasks
<1>8. StrandedOnlyByEarlyCancel'
  BY DEF StrandedOnlyByEarlyCancel, Stranded, CancelReason, CallerAwaits,
         Consistent, Loaded, Live, DispatchPreempts, Victims, CancelTasks
<1>9. VictimsAreBackground'
  BY DEF VictimsAreBackground, DispatchPreempts, Victims, CancelTasks
<1> QED BY <1>1, <1>2, <1>3, <1>4, <1>5, <1>6, <1>7, <1>8, <1>9

LEMMA DispatchEndsKeeps == ASSUME IInv, DispatchEnds PROVE IInv'
<1> USE DEF IInv, TypeOK, queueVars, taskVars, userVars
<1> QED BY JobAssumption DEF Consistent, Loaded, Live, BookBound, CallerAwaits,
         CancelReason, VictimsAreBackground, EffectfulNeverPreempted,
         PreemptionIsSilent, StrandedOnlyByEarlyCancel, Stranded,
         DispatchEnds

LEMMA WorkerFailsKeeps == ASSUME IInv, WorkerFails PROVE IInv'
<1> USE DEF IInv, TypeOK, queueVars, taskVars, userVars
<1> QED BY JobAssumption DEF Consistent, Loaded, Live, BookBound, CallerAwaits,
         CancelReason, VictimsAreBackground, EffectfulNeverPreempted,
         PreemptionIsSilent, StrandedOnlyByEarlyCancel, Stranded,
         WorkerFails

(* The queue and the book are answered and emptied.                        *)
LEMMA OnWorkerDeadKeeps == ASSUME IInv, OnWorkerDead PROVE IInv'
<1> USE DEF IInv, TypeOK, queueVars, taskVars, userVars
<1>1. TypeOK'
  BY JobAssumption DEF OnWorkerDead, Orphans, Settle, Unqueue, CancelTasks
<1>2. Consistent'
  BY DEF Consistent, Loaded, Live, OnWorkerDead, Orphans, Settle, Unqueue,
         CancelTasks
<1>3. BookBound'
  BY SlotsAssumption, FS_EmptySet DEF BookBound, OnWorkerDead
<1>4. CallerAwaits'
  BY DEF CallerAwaits, PreemptionIsSilent, OnWorkerDead, Orphans, Settle,
         Unqueue, CancelTasks
<1>5. CancelReason'
  BY DEF CancelReason, CallerAwaits, Consistent, Loaded, Live,
         PreemptionIsSilent, OnWorkerDead, Orphans, Settle, Unqueue,
         CancelTasks
<1>6. EffectfulNeverPreempted'
  BY DEF EffectfulNeverPreempted, CallerAwaits, Consistent, Loaded, Live,
         PreemptionIsSilent, OnWorkerDead, Orphans, Settle, Unqueue,
         CancelTasks
<1>7. PreemptionIsSilent'
  BY DEF PreemptionIsSilent, CancelReason, CallerAwaits, Consistent,
         Loaded, Live, OnWorkerDead, Orphans, Settle, Unqueue, CancelTasks
<1>8. StrandedOnlyByEarlyCancel'
  BY DEF StrandedOnlyByEarlyCancel, Stranded, CancelReason, CallerAwaits,
         Consistent, Loaded, Live, OnWorkerDead, Orphans, Settle, Unqueue,
         CancelTasks
<1>9. VictimsAreBackground'
  BY DEF VictimsAreBackground, OnWorkerDead
<1> QED BY <1>1, <1>2, <1>3, <1>4, <1>5, <1>6, <1>7, <1>8, <1>9

LEMMA StopKeeps == ASSUME IInv, Stop PROVE IInv'
<1> USE DEF IInv, TypeOK, queueVars, taskVars, userVars
<1> QED BY JobAssumption DEF Consistent, Loaded, Live, BookBound, CallerAwaits,
         CancelReason, VictimsAreBackground, EffectfulNeverPreempted,
         PreemptionIsSilent, StrandedOnlyByEarlyCancel, Stranded, Stop

(* The queue is answered and emptied; what runs is cancelled on request.   *)
LEMMA StopFinishesKeeps == ASSUME IInv, StopFinishes PROVE IInv'
<1> USE DEF IInv, TypeOK, queueVars, taskVars, userVars
<1>1. TypeOK'
  BY JobAssumption DEF StopFinishes, Unqueue, CancelFutures, CancelTasks
<1>2. Consistent'
  BY DEF Consistent, Loaded, Live, StopFinishes, Unqueue, CancelFutures,
         CancelTasks
<1>3. BookBound'
  BY DEF BookBound, StopFinishes
<1>4. CallerAwaits'
  BY DEF CallerAwaits, PreemptionIsSilent, StopFinishes, Unqueue,
         CancelFutures, CancelTasks
<1>5. CancelReason'
  BY DEF CancelReason, CallerAwaits, Consistent, Loaded, Live,
         PreemptionIsSilent, StopFinishes, Unqueue, CancelFutures,
         CancelTasks
<1>6. EffectfulNeverPreempted'
  BY DEF EffectfulNeverPreempted, CallerAwaits, Consistent, Loaded, Live,
         PreemptionIsSilent, StopFinishes, Unqueue, CancelFutures,
         CancelTasks
<1>7. PreemptionIsSilent'
  BY DEF PreemptionIsSilent, CancelReason, CallerAwaits, Consistent,
         Loaded, Live, StopFinishes, Unqueue, CancelFutures, CancelTasks
<1>8. StrandedOnlyByEarlyCancel'
  BY DEF StrandedOnlyByEarlyCancel, Stranded, CancelReason, CallerAwaits,
         Consistent, Loaded, Live, StopFinishes, Unqueue, CancelFutures,
         CancelTasks
<1>9. VictimsAreBackground'
  BY DEF VictimsAreBackground, StopFinishes
<1> QED BY <1>1, <1>2, <1>3, <1>4, <1>5, <1>6, <1>7, <1>8, <1>9

-----------------------------------------------------------------------------

LEMMA StepKeeps == IInv /\ [Next]_vars => IInv'
<1> SUFFICES ASSUME IInv, [Next]_vars PROVE IInv'
  OBVIOUS
<1>1. ASSUME NEW j \in Job, SubmitterStep(j) PROVE IInv'
  BY <1>1, SubmitKeeps, CallerCancelledKeeps, CallerResumesKeeps, AgeKeeps
     DEF SubmitterStep
<1>2. ASSUME NEW j \in Job, JobStep(j) PROVE IInv'
  BY <1>2, JobStartsKeeps, JobCancelledUnstartedKeeps, JobFinishesKeeps,
     JobCancelledKeeps, JobUnwindFailsKeeps DEF JobStep
<1>3. ASSUME NEW t \in Turns, CancelTurn(t) PROVE IInv'
  BY <1>3, CancelTurnKeeps
<1>4. ASSUME DispatchStep PROVE IInv'
  BY <1>4, DispatchOneKeeps, DispatchPreemptsKeeps, DispatchEndsKeeps DEF DispatchStep
<1>5. CASE UNCHANGED vars
  <2>1. /\ TypeOK' /\ Consistent' /\ BookBound' /\ CallerAwaits'
        /\ CancelReason' /\ VictimsAreBackground'
    BY <1>5 DEF vars, IInv, TypeOK, Consistent, Loaded, Live, BookBound,
                CallerAwaits, CancelReason, VictimsAreBackground
  <2>2. EffectfulNeverPreempted' /\ PreemptionIsSilent' /\ StrandedOnlyByEarlyCancel'
    BY <1>5 DEF vars, IInv, EffectfulNeverPreempted, PreemptionIsSilent,
                StrandedOnlyByEarlyCancel, Stranded, Live
  <2> QED BY <2>1, <2>2 DEF IInv
<1> QED BY <1>1, <1>2, <1>3, <1>4, <1>5, WorkerWakesKeeps, WorkerFailsKeeps,
           OnWorkerDeadKeeps, StopKeeps, StopFinishesKeeps DEF Next

(* The inductive invariant holds in every reachable state, whatever the    *)
(* jobs, slots, priorities and faults.                                     *)
THEOREM InvariantHolds == Spec => []IInv
<1> QED BY InitEstablishes, StepKeeps, PTL DEF Spec

(* A submission is lost only if its task was cancelled before it ran.      *)
THEOREM StrandedOnlyByEarlyCancelHolds == Spec => []StrandedOnlyByEarlyCancel
<1>1. IInv => StrandedOnlyByEarlyCancel
  BY DEF IInv
<1> QED BY <1>1, InvariantHolds, PTL

(* A submitter sees a cancellation only if somebody asked for one.         *)
THEOREM PreemptionIsSilentHolds == Spec => []PreemptionIsSilent
<1>1. IInv => PreemptionIsSilent
  BY DEF IInv
<1> QED BY <1>1, InvariantHolds, PTL

(* No job with downstream effects is ever cancelled to make room.          *)
THEOREM EffectfulNeverPreemptedHolds == Spec => []EffectfulNeverPreempted
<1>1. IInv => EffectfulNeverPreempted
  BY DEF IInv
<1> QED BY <1>1, InvariantHolds, PTL

-----------------------------------------------------------------------------
(* The refinement.                                                         *)

(* A job whose task goes from running to its end gives its slot back.      *)
LEMMA LoadedAfterEnd ==
    ASSUME IInv, NEW j \in Job, TaskEnds(j)
    PROVE  Loaded' = Loaded \ {j}
BY DEF IInv, TypeOK, TaskEnds, Loaded, Live

(* The contract counts with the same operators.                            *)
LEMMA SameCount ==
    ASSUME NEW S
    PROVE  /\ Admission!Cardinality(S) = Cardinality(S)
           /\ Admission!IsFiniteSet(S) <=> IsFiniteSet(S)
<1>1. Admission!Cardinality(S) = Cardinality(S)
  BY DEF Admission!Cardinality, Cardinality, Admission!IsFiniteSet, IsFiniteSet
<1>2. Admission!IsFiniteSet(S) <=> IsFiniteSet(S)
  BY DEF Admission!IsFiniteSet, IsFiniteSet
<1> QED BY <1>1, <1>2

(* The abstract guard counts live tasks, the code counts its book, which   *)
(* holds at least as many: what the code admits, the contract allows.      *)
LEMMA AdmittedAsPromised ==
    ASSUME IInv, NEW j \in Job, DispatchOne(j), future[j] = "pending"
    PROVE  Admission!Admit(j)
<1> USE DEF IInv, TypeOK
<1>1. Loaded \subseteq running /\ running \subseteq Job
  BY DEF Consistent, DispatchOne
<1>2. /\ Cardinality(Loaded) \in Nat /\ Cardinality(running) \in Nat
      /\ Cardinality(Loaded) <= Cardinality(running)
  BY <1>1, BookIsFinite
<1>3. Cardinality(Loaded) < Slots
  BY <1>2, SlotsAssumption DEF DispatchOne, Admissible, Free
<1>4. IsChat(j) \/ Cardinality(Loaded) + Reserved < Slots
  BY <1>2, SlotsAssumption DEF DispatchOne, Admissible, Free
<1>5. Loaded' = Loaded \cup {j} /\ queue' = queue \ {j} /\ j \in queue
  BY DEF DispatchOne, Admissible, Unqueue, Loaded, Live
<1> QED BY <1>3, <1>4, <1>5, SameCount DEF Admission!Admit

(* Each step of the scheduler is a step of the contract or no step of it.  *)
LEMMA StepRefines == IInv /\ [Next]_vars => [Admission!Next]_(Admission!vars)
<1> SUFFICES ASSUME IInv, [Next]_vars
             PROVE  Admission!Next \/ (queue' = queue /\ Loaded' = Loaded)
  BY DEF Admission!vars
<1> USE DEF queueVars, taskVars, userVars
<1>1. ASSUME NEW j \in Job, SubmitterStep(j)
      PROVE  Admission!Next \/ (queue' = queue /\ Loaded' = Loaded)
  <2>1. CASE Submit(j)
    <3>1. j \notin queue \cup Loaded
      BY <2>1 DEF Submit, Loaded, Live
    <3>2. queue' = queue \cup {j} /\ Loaded' = Loaded
      BY <2>1 DEF Submit, Enqueue, Loaded, Live
    <3> QED BY <3>1, <3>2 DEF Admission!Next, Admission!Arrive
  <2>2. CASE CallerCancelled(j) \/ Age(j)
    BY <2>2 DEF CallerCancelled, Age, Loaded, Live
  <2>3. CASE CallerResumes(j)
    <3>1. Loaded' = Loaded
      BY <2>3 DEF CallerResumes, Loaded, Live
    <3>2. queue' = queue \/ queue' = queue \ (queue \cap {j})
      BY <2>3 DEF CallerResumes, Unqueue
    <3> QED BY <3>1, <3>2 DEF Admission!Next, Admission!Withdraw
  <2> QED BY <1>1, <2>1, <2>2, <2>3 DEF SubmitterStep
<1>2. ASSUME NEW j \in Job, JobStep(j)
      PROVE  Admission!Next \/ (queue' = queue /\ Loaded' = Loaded)
  <2>1. CASE JobStarts(j)
    BY <2>1 DEF JobStarts, IInv, TypeOK, Loaded, Live
  <2>2. CASE JobCancelledUnstarted(j) \/ JobFinishes(j) \/ JobUnwindFails(j)
    <3>1. Loaded' = Loaded \ {j} /\ queue' = queue /\ j \in Loaded
      BY <2>2, LoadedAfterEnd
         DEF JobCancelledUnstarted, JobFinishes, JobUnwindFails, Loaded, Live
    <3> QED BY <3>1 DEF Admission!Next, Admission!Release
  <2>3. CASE JobCancelled(j)
    <3>1. Loaded' = Loaded \ {j} /\ j \in Loaded
      BY <2>3, LoadedAfterEnd DEF JobCancelled, Loaded, Live
    <3>2. CASE j \in preempting
      <4>1. queue' = queue \cup {j}
        BY <2>3, <3>2 DEF JobCancelled, SentBack, Enqueue
      <4>2. j \in Pure /\ ~IsChat(j)
        BY <3>2 DEF IInv, VictimsAreBackground, EffectfulNeverPreempted, IsChat
      <4> QED BY <3>1, <4>1, <4>2 DEF Admission!Next, Admission!Yield
    <3>3. CASE j \notin preempting
      <4>1. queue' = queue
        BY <2>3, <3>3 DEF JobCancelled, SentBack
      <4> QED BY <3>1, <4>1 DEF Admission!Next, Admission!Release
    <3> QED BY <3>2, <3>3
  <2> QED BY <1>2, <2>1, <2>2, <2>3 DEF JobStep
<1>3. ASSUME NEW t \in Turns, CancelTurn(t)
      PROVE  Admission!Next \/ (queue' = queue /\ Loaded' = Loaded)
  <2>1. Loaded' = Loaded
    BY <1>3 DEF CancelTurn, Loaded, Live
  <2>2. PICK S \in SUBSET queue : queue' = queue \ S
    BY <1>3 DEF CancelTurn, Unqueue
  <2> QED BY <2>1, <2>2 DEF Admission!Next, Admission!Withdraw, IInv, TypeOK
<1>4. ASSUME NEW j \in Job, DispatchOne(j)
      PROVE  Admission!Next \/ (queue' = queue /\ Loaded' = Loaded)
  <2>1. CASE future[j] = "pending"
    BY <1>4, <2>1, AdmittedAsPromised DEF Admission!Next
  <2>2. CASE future[j] # "pending"
    <3>1. Loaded' = Loaded /\ queue' = queue \ {j} /\ j \in queue
      BY <1>4, <2>2 DEF DispatchOne, Admissible, Unqueue, Loaded, Live
    <3> QED BY <3>1 DEF Admission!Next, Admission!Withdraw
  <2> QED BY <2>1, <2>2
<1>5. CASE WorkerWakes
  BY <1>5 DEF WorkerWakes, Collected, IInv, TypeOK, Loaded, Live
<1>6. ASSUME NEW v \in Job, DispatchPreempts(v)
      PROVE  queue' = queue /\ Loaded' = Loaded
  BY <1>6 DEF DispatchPreempts, Loaded, Live
<1>7. CASE DispatchEnds \/ WorkerFails \/ Stop
  BY <1>7 DEF DispatchEnds, WorkerFails, Stop, Loaded, Live
<1>8. CASE OnWorkerDead \/ StopFinishes
  <2>1. Loaded' = Loaded /\ queue' = queue \ queue
    BY <1>8 DEF OnWorkerDead, StopFinishes, Unqueue, Loaded, Live
  <2> QED BY <2>1 DEF Admission!Next, Admission!Withdraw, IInv, TypeOK
<1>9. CASE UNCHANGED vars
  BY <1>9 DEF vars, Loaded, Live
<1> QED BY <1>1, <1>2, <1>3, <1>4, <1>5, <1>6, <1>7, <1>8, <1>9
        DEF Next, DispatchStep

(* The scheduler keeps its contract: its queue and its live tasks move as  *)
(* AdmissionControl says.                                                  *)
THEOREM SchedulerImplementsAdmission == Spec => ImplementsAdmission
<1>1. Init => Admission!Init
  BY DEF Init, Admission!Init, Loaded, Live
<1> QED BY <1>1, StepRefines, InvariantHolds, PTL
        DEF Spec, ImplementsAdmission, Admission!Spec

(* So llama-server is never given more streams than it has slots, and      *)
(* background streams never occupy the slots reserved for chat.            *)
THEOREM CapacityIsRespected == Spec => []CapacityRespected
<1>1. Admission!Spec => []Admission!Capacity
  <2>1. Admission!AdmissionAssumption
    BY JobAssumption, SlotsAssumption, SameCount DEF Admission!AdmissionAssumption
  <2> QED BY <2>1, Admission!CapacityHolds
<1>2. Admission!Capacity => CapacityRespected
  <2> SUFFICES ASSUME Admission!Capacity PROVE LoadBound /\ ReservedForChat
    BY DEF CapacityRespected
  <2>1. Loaded \ {j \in Job : IsChat(j)} = {j \in Loaded : ~IsChat(j)}
    BY DEF Loaded
  <2> QED BY <2>1, SameCount DEF Admission!Capacity, LoadBound, ReservedForChat
<1> QED BY <1>1, <1>2, SchedulerImplementsAdmission, PTL DEF ImplementsAdmission

(* A job that is queued is submitted, or was being preempted and is pure.  *)
THEOREM RevivedOnlyByPreemptionHolds == Spec => RevivedOnlyByPreemption
<1>1. IInv /\ [Next]_vars =>
        [\A j \in queue' \ queue :
            \/ caller[j] = "idle" /\ caller'[j] = "awaiting"
            \/ j \in preempting \cap Pure]_vars
  <2> SUFFICES ASSUME IInv, Next, NEW j \in queue' \ queue
               PROVE  \/ caller[j] = "idle" /\ caller'[j] = "awaiting"
                      \/ j \in preempting \cap Pure
    BY DEF vars
  <2> USE DEF queueVars, taskVars, userVars
  <2>1. ASSUME NEW k \in Job, SubmitterStep(k)
        PROVE  caller[j] = "idle" /\ caller'[j] = "awaiting"
    BY <2>1 DEF SubmitterStep, Submit, Enqueue, CallerCancelled, CallerResumes,
                Unqueue, Age, IInv, TypeOK
  <2>2. ASSUME NEW k \in Job, JobStep(k) PROVE j \in preempting \cap Pure
    BY <2>2 DEF JobStep, JobStarts, JobCancelledUnstarted, JobFinishes,
                JobUnwindFails, JobCancelled, SentBack, Enqueue, IInv,
                EffectfulNeverPreempted
  <2>3. ASSUME NEW t \in Turns, CancelTurn(t) PROVE FALSE
    BY <2>3 DEF CancelTurn, Unqueue
  <2>4. ASSUME DispatchStep PROVE FALSE
    BY <2>4 DEF DispatchStep, DispatchOne, DispatchPreempts, DispatchEnds, Unqueue
  <2>5. CASE WorkerWakes \/ WorkerFails \/ OnWorkerDead \/ Stop \/ StopFinishes
    BY <2>5 DEF WorkerWakes, WorkerFails, OnWorkerDead, Stop, StopFinishes, Unqueue
  <2> QED BY <2>1, <2>2, <2>3, <2>4, <2>5 DEF Next
<1> QED BY <1>1, InvariantHolds, PTL DEF Spec, RevivedOnlyByPreemption

-----------------------------------------------------------------------------
(* The worker: its death and its sleep.                                    *)

(* A dead worker left no submitter with a queued or a live job, and nobody *)
(* puts one back: what is still live has no submitter any more.            *)
DeadIsIdle ==
    worker = "dead" => \A j \in Job : future[j] = "pending" => j \notin queue /\ ~Live(j)

LEMMA DeadStepKeeps == IInv /\ DeadIsIdle /\ [Next]_vars => DeadIsIdle'
<1> SUFFICES ASSUME IInv, DeadIsIdle, [Next]_vars, worker' = "dead",
                    NEW j \in Job, future'[j] = "pending"
             PROVE  (j \notin queue /\ ~Live(j))'
  BY DEF DeadIsIdle
<1> USE DEF IInv, TypeOK, queueVars, taskVars, userVars, Live
<1>1. CASE worker = "dead"
  <2>1. future[j] = "pending" => j \notin queue /\ ~Live(j)
    BY <1>1 DEF DeadIsIdle
  <2>2. ASSUME NEW k \in Job, SubmitterStep(k) PROVE (j \notin queue /\ ~Live(j))'
    BY <1>1, <2>1, <2>2 DEF SubmitterStep, Submit, CallerCancelled, CancelFutures, CallerResumes,
                            Unqueue, Age
  <2>3. ASSUME NEW k \in Job, JobStep(k) PROVE (j \notin queue /\ ~Live(j))'
    <3>1. CASE JobStarts(k) \/ JobCancelledUnstarted(k)
      BY <2>1, <3>1 DEF JobStarts, JobCancelledUnstarted, TaskEnds
    <3>2. CASE JobFinishes(k) \/ JobUnwindFails(k)
      BY <2>1, <3>2 DEF JobFinishes, JobUnwindFails, TaskEnds, Settle
    <3>3. CASE JobCancelled(k)
      BY <2>1, <3>3 DEF JobCancelled, TaskEnds, SentBack, Enqueue, CancelFutures
    <3> QED BY <2>3, <3>1, <3>2, <3>3 DEF JobStep
  <2>4. ASSUME NEW t \in Turns, CancelTurn(t) PROVE (j \notin queue /\ ~Live(j))'
    BY <2>1, <2>4 DEF CancelTurn, Unqueue, CancelFutures
  <2>5. CASE UNCHANGED vars
    BY <2>1, <2>5 DEF vars
  <2> QED BY <1>1, <2>2, <2>3, <2>4, <2>5
          DEF Next, DispatchStep, DispatchOne, DispatchPreempts, DispatchEnds, WorkerWakes,
              WorkerFails, OnWorkerDead, Stop, StopFinishes
<1>2. CASE worker # "dead"
  <2>1. OnWorkerDead
    <3>1. ASSUME NEW k \in Job, SubmitterStep(k) \/ JobStep(k) PROVE FALSE
      BY <1>2, <3>1 DEF SubmitterStep, Submit, CallerCancelled, CallerResumes, Age, JobStep,
                        JobStarts, JobCancelledUnstarted, JobFinishes, JobCancelled,
                        JobUnwindFails
    <3>2. ASSUME NEW t \in Turns, CancelTurn(t) PROVE FALSE
      BY <1>2, <3>2 DEF CancelTurn
    <3>3. CASE DispatchStep
      BY <1>2, <3>3 DEF DispatchStep, DispatchOne, DispatchPreempts, DispatchEnds
    <3>4. CASE WorkerWakes \/ WorkerFails \/ Stop \/ StopFinishes \/ UNCHANGED vars
      BY <1>2, <3>4 DEF WorkerWakes, WorkerFails, Stop, StopFinishes, vars
    <3> QED BY <3>1, <3>2, <3>3, <3>4 DEF Next
  <2>2. future[j] = "pending" /\ j \notin Orphans
    BY <2>1 DEF OnWorkerDead, Settle, Orphans
  <2>3. Loaded \subseteq running
    BY <1>2 DEF Consistent
  <2> QED BY <2>1, <2>2, <2>3 DEF OnWorkerDead, Unqueue, Orphans, Loaded
<1> QED BY <1>1, <1>2

(* When the worker's death was handled, every submitter has its answer but *)
(* those whose task was cancelled before it ran.                           *)
THEOREM DeadWorkerAnswersAllHolds == Spec => []DeadWorkerAnswersAll
<1>1. Init => DeadIsIdle
  BY DEF Init, DeadIsIdle
<1>2. IInv /\ DeadIsIdle => DeadWorkerAnswersAll
  BY DEF IInv, StrandedOnlyByEarlyCancel, Stranded, DeadIsIdle, DeadWorkerAnswersAll
<1> QED BY <1>1, <1>2, DeadStepKeeps, InvariantHolds, PTL DEF Spec

(* What NoLostWakeup looks at, with fewer queued jobs.                     *)
LEMMA QuietWithLess ==
    ASSUME NoLostWakeup, queue' \subseteq queue, running' = running, preempting' = preempting,
           worker' = worker, wake' = wake,
           \A j \in Job : task'[j] = task[j] \/ (task[j] = "created" /\ task'[j] = "running"),
           TypeOK
    PROVE  NoLostWakeup'
<1> SUFFICES ASSUME Asleep'
             PROVE  (\A k \in queue : ~Admissible(k))' /\ (MustPreempt => Vacating)'
  BY DEF NoLostWakeup
<1>1. Asleep
  BY DEF Asleep, TypeOK
<1>2. Free' = Free /\ Victims' = Victims
  BY DEF Free, Victims
<1>3. (\A k \in queue : ~Admissible(k))'
  BY <1>1, <1>2 DEF NoLostWakeup, Admissible
<1>4. MustPreempt' => MustPreempt
  BY <1>2 DEF MustPreempt
<1>5. Vacating => Vacating'
  BY DEF Vacating, Live, TypeOK
<1> QED BY <1>1, <1>3, <1>4, <1>5 DEF NoLostWakeup

(* A worker falls asleep after a dispatch only, and whatever gives it work *)
(* afterwards rings, or leaves it a task to collect.                       *)
LEMMA SleepStepKeeps == IInv /\ NoLostWakeup /\ [Next]_vars => NoLostWakeup'
<1> SUFFICES ASSUME IInv, NoLostWakeup, [Next]_vars PROVE NoLostWakeup'
  OBVIOUS
<1> USE DEF IInv, queueVars, taskVars, userVars
<1>1. ASSUME NEW j \in Job, SubmitterStep(j) PROVE NoLostWakeup'
  <2>1. CASE Submit(j)
    BY <2>1 DEF Submit, Ring, NoLostWakeup, Asleep
  <2>2. CASE CallerCancelled(j) \/ CallerResumes(j) \/ Age(j)
    <3>1. /\ queue' \subseteq queue
          /\ UNCHANGED <<running, preempting, worker, wake, task>>
      BY <2>2 DEF CallerCancelled, CallerResumes, Age, Unqueue
    <3> QED BY <3>1, QuietWithLess
  <2> QED BY <1>1, <2>1, <2>2 DEF SubmitterStep
<1>2. ASSUME NEW j \in Job, JobStep(j) PROVE NoLostWakeup'
  <2>1. CASE JobStarts(j)
    <3>1. /\ UNCHANGED <<queue, running, preempting, worker, wake>>
          /\ \A k \in Job : task'[k] = task[k] \/ (task[k] = "created" /\ task'[k] = "running")
      BY <2>1 DEF JobStarts
    <3> QED BY <3>1, QuietWithLess
  <2>2. CASE JobCancelledUnstarted(j) \/ JobFinishes(j) \/ JobCancelled(j) \/ JobUnwindFails(j)
    <3>1. /\ task'[j] = "done" /\ UNCHANGED <<worker, running>>
          /\ j \in Loaded
      BY <2>2 DEF JobCancelledUnstarted, JobFinishes, JobCancelled, JobUnwindFails, TaskEnds,
                  Loaded, Live, TypeOK
    <3>2. worker = "waiting" => j \in running
      BY <3>1 DEF Consistent
    <3> QED BY <3>1, <3>2 DEF NoLostWakeup, Asleep
  <2> QED BY <1>2, <2>1, <2>2 DEF JobStep
<1>3. ASSUME NEW t \in Turns, CancelTurn(t) PROVE NoLostWakeup'
  <2>1. /\ queue' \subseteq queue
        /\ UNCHANGED <<running, preempting, worker, wake, task>>
    BY <1>3 DEF CancelTurn, Unqueue
  <2> QED BY <2>1, QuietWithLess
<1>4. ASSUME NEW v \in Job, DispatchPreempts(v) PROVE NoLostWakeup'
  <2>1. /\ v \in preempting' /\ v \in running
        /\ UNCHANGED <<queue, running, task>>
        /\ Free < 1
    BY <1>4 DEF DispatchPreempts, MustPreempt, Victims
  <2>2. Free' < 1
    BY <2>1 DEF Free
  <2>3. Free \in Int /\ Free' \in Int
    BY <2>1, SlotsAssumption, BookIsFinite DEF Free, TypeOK
  <2>4. (\A k \in queue : ~Admissible(k))'
    BY <2>2, <2>3 DEF Admissible
  <2>5. Asleep' => Live(v)'
    BY <2>1 DEF Asleep, Live, Consistent, TypeOK
  <2> QED BY <2>1, <2>4, <2>5 DEF NoLostWakeup, Vacating
<1>5. CASE DispatchEnds
  <2>1. UNCHANGED <<queue, running, preempting>>
    BY <1>5 DEF DispatchEnds
  <2> QED BY <1>5, <2>1 DEF DispatchEnds, NoLostWakeup, Admissible, MustPreempt, Free, Victims
<1>6. CASE \/ \E j \in Job : DispatchOne(j)
           \/ WorkerWakes \/ WorkerFails \/ OnWorkerDead \/ Stop \/ StopFinishes
  BY <1>6 DEF DispatchOne, WorkerWakes, WorkerFails, OnWorkerDead, Stop, StopFinishes,
              NoLostWakeup, Asleep
<1>7. CASE UNCHANGED vars
  <2>1. /\ UNCHANGED <<queue, running, preempting, worker, wake, task>>
    BY <1>7 DEF vars
  <2> QED BY <2>1, QuietWithLess
<1> QED BY <1>1, <1>2, <1>3, <1>4, <1>5, <1>6, <1>7 DEF Next, DispatchStep

(* The worker never sleeps on work: while nothing is on its way to wake    *)
(* it, no queued job could start, and a chat without a slot already has    *)
(* one vacated if any job may be preempted.                                *)
THEOREM NoLostWakeupHolds == Spec => []NoLostWakeup
<1>1. Init => NoLostWakeup
  BY DEF Init, NoLostWakeup, Asleep
<1> QED BY <1>1, SleepStepKeeps, InvariantHolds, PTL DEF Spec
=============================================================================
