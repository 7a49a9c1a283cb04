---------------------------- MODULE TurnSpeechProofs ----------------------------
(***************************************************************************)
(* Proofs about TurnSpeech, for any replies, responses, chunk sizes, frame *)
(* size and number of speeches: the broadcasts of a speech are those of an *)
(* AudioStream, a cancelled speech is silent, the queue gets the sentences *)
(* of the reply as written, a speech that is done has said all of them and *)
(* sent every byte of them, and the rate served is the one announced.      *)
(***************************************************************************)
EXTENDS TurnSpeech, VoiceProofs

(* Speeches have streams of their own.                                     *)
LEMMA StreamsDiffer ==
    /\ \A t \in Speech : 2 * t \in Stream /\ t \in Nat
    /\ \A t, u \in Speech : 2 * t = 2 * u => t = u
    /\ \A i \in Stream : \E t \in Speech : i = 2 * t
BY SpeechAssumption DEF Stream, Speech

(* An opening meta or a frame does not close a stream.                     *)
LEMMA MessagesDiffer ==
    /\ Wire!Meta(FALSE) \in Message /\ Wire!Meta(TRUE) \in Message
    /\ Wire!Meta(FALSE) # Wire!Meta(TRUE)
    /\ \A n, size \in Nat : Wire!Frame(n, size) \in Message /\ Wire!Frame(n, size) # Wire!Meta(TRUE)
<1>1. Wire!Meta(FALSE) \in Message /\ Wire!Meta(TRUE) \in Message
  BY DEF Wire!Meta, Message
<1>2. Wire!Meta(FALSE).last # Wire!Meta(TRUE).last
  BY DEF Wire!Meta
<1>3. ASSUME NEW n \in Nat, NEW size \in Nat
      PROVE  Wire!Frame(n, size) \in Message /\ Wire!Frame(n, size) # Wire!Meta(TRUE)
  <2>1. Wire!Frame(n, size).kind # Wire!Meta(TRUE).kind
    BY DEF Wire!Frame, Wire!Meta
  <2> QED BY <2>1 DEF Wire!Frame, Message
<1> QED BY <1>1, <1>2, <1>3

(* What the client yields is whole samples, what it keeps is less than one.*)
LEMMA AlignedIsEven ==
    ASSUME NEW n \in Nat
    PROVE  /\ Aligned(n) \in Nat /\ Aligned(n) % 2 = 0
           /\ n - Aligned(n) \in 0..1
BY DEF Aligned

(* A stream on which nothing went out is as closed as before.              *)
LEMMA ClosedStays ==
    ASSUME NEW i, sent'[i] = sent[i]
    PROVE  (Wire!Closed(i))' <=> Wire!Closed(i)
BY DEF Wire!Closed

(* One message more on the stream of a speech.                             *)
LEMMA Sending ==
    ASSUME StreamTypes, NEW t \in Speech, NEW m \in Message,
           sent' = [sent EXCEPT ![2 * t] = Append(@, m)]
    PROVE  /\ sent' \in [Stream -> Seq(Message)]
           /\ Len(sent'[2 * t]) = Len(sent[2 * t]) + 1
           /\ m # Wire!Meta(TRUE) => ~(Wire!Closed(2 * t))'
           /\ \A u \in Speech \ {t} : sent'[2 * u] = sent[2 * u]
<1> DEFINE s == sent[2 * t]
<1>1. s \in Seq(Message) /\ sent'[2 * t] = Append(s, m)
  BY StreamsDiffer DEF StreamTypes
<1>2. /\ Append(s, m) \in Seq(Message)
      /\ Len(Append(s, m)) = Len(s) + 1
      /\ Append(s, m)[Len(s) + 1] = m
  BY <1>1
<1>3. sent' \in [Stream -> Seq(Message)]
  BY <1>1, <1>2 DEF StreamTypes
<1>4. \A u \in Speech \ {t} : sent'[2 * u] = sent[2 * u]
  BY StreamsDiffer DEF StreamTypes
<1> QED BY <1>1, <1>2, <1>3, <1>4 DEF Wire!Closed

(* A slice is a frame that the contract allows.                            *)
LEMMA Slicing ==
    ASSUME StreamTypes, NEW t \in Speech, id[t] = 2 * t,
           NEW n \in Nat, NEW bytes \in Nat, bytes > 0, bytes % 2 = 0,
           Slice(t, n, bytes),
           sent[2 * t] # <<>>, n = Len(sent[2 * t]) - 1, ~Wire!Closed(2 * t)
    PROVE  /\ Wire!Next
           /\ sent' \in [Stream -> Seq(Message)]
           /\ Len(sent'[2 * t]) = n + 2
           /\ ~(Wire!Closed(2 * t))'
           /\ \A u \in Speech \ {t} : sent'[2 * u] = sent[2 * u]
           /\ left' \in [Speech -> Nat]
           /\ left'[t] % 2 = 0
           /\ \A u \in Speech \ {t} : left'[u] = left[u]
<1> DEFINE size == IF bytes <= FrameBytes THEN bytes ELSE FrameBytes
<1>1. size \in 1..FrameBytes /\ size % 2 = 0 /\ bytes - size \in Nat /\ (bytes - size) % 2 = 0
  BY SpeechAssumption
<1>2. sent' = [sent EXCEPT ![2 * t] = Append(@, Wire!Frame(n, size))]
  BY DEF Slice
<1>3. /\ left' = [left EXCEPT ![t] = bytes - size]
      /\ left' \in [Speech -> Nat]
      /\ left'[t] % 2 = 0
      /\ \A u \in Speech \ {t} : left'[u] = left[u]
  BY <1>1 DEF Slice, StreamTypes
<1>4. Wire!Frame(n, size) \in Message /\ Wire!Frame(n, size) # Wire!Meta(TRUE)
  <2>1. size \in Nat
    BY <1>1, SpeechAssumption
  <2> HIDE DEF size
  <2> QED BY <2>1, MessagesDiffer
<1>5. /\ sent' \in [Stream -> Seq(Message)]
      /\ Len(sent'[2 * t]) = Len(sent[2 * t]) + 1
      /\ ~(Wire!Closed(2 * t))'
      /\ \A u \in Speech \ {t} : sent'[2 * u] = sent[2 * u]
  BY <1>2, <1>4, Sending
<1>6. Len(sent[2 * t]) \in Nat
  BY StreamsDiffer DEF StreamTypes
<1>7. Wire!Play(2 * t)
  <2>1. sent' = [sent EXCEPT ![2 * t] = Append(@, Wire!Frame(Len(sent[2 * t]) - 1, size))]
    BY <1>2
  <2> QED BY <2>1, <1>1 DEF Wire!Play, Wire!Put
<1>8. Wire!Next
  BY <1>7, StreamsDiffer DEF Wire!Next
<1> QED BY <1>3, <1>5, <1>6, <1>8

-----------------------------------------------------------------------------

(* Before the startup probe every audio stream is empty.                   *)
LEMMA InitEstablishes == Init => IInv /\ Wire!Init
<1> SUFFICES ASSUME Init PROVE IInv
  BY DEF Init
<1>1. sent = [i \in Stream |-> <<>>]
  BY DEF Init, Wire!Init
<1>2. StreamTypes
  BY <1>1 DEF Init, StreamTypes, Over, Dead, None
<1>3. IdsInOrder
  <2>1. 0 \in 0..MaxSpeeches /\ streams = 2 * 0
    BY SpeechAssumption DEF Init
  <2>2. \A t \in Speech : task[t] # "none" <=> t <= 0
    BY SpeechAssumption DEF Init, Speech
  <2> QED BY <2>1, <2>2 DEF IdsInOrder
<1>4. OwnId /\ OverIsDead /\ WholeSamples /\ SentAsCounted
  BY <1>1, StreamsDiffer DEF Init, OwnId, OverIsDead, WholeSamples, SentAsCounted, Over
<1> QED BY <1>2, <1>3, <1>4 DEF IInv

(* The ids go on evenly: the new speech is the first that had none.        *)
LEMMA StartKeeps == ASSUME IInv, NEW t \in Speech, Start(t) PROVE IInv' /\ sent' = sent
<1> USE DEF IInv
<1>1. PICK n \in 0..MaxSpeeches :
        streams = 2 * n /\ \A u \in Speech : task[u] # "none" <=> u <= n
  BY DEF IdsInOrder
<1>2. t = n + 1 /\ n + 1 \in 0..MaxSpeeches
  <2>1. t > n /\ t \in Nat /\ n \in Nat
    BY <1>1, SpeechAssumption DEF Start, Speech
  <2>2. CASE t > n + 1
    <3>1. n + 1 \in Speech /\ n + 1 < t
      BY <2>1, <2>2, SpeechAssumption DEF Speech
    <3>2. task[n + 1] # "none"
      BY <3>1 DEF Start
    <3> QED BY <1>1, <2>1, <3>1, <3>2
  <2> QED BY <2>1, <2>2, SpeechAssumption DEF Speech
<1>3. streams' = 2 * (n + 1)
  BY <1>1 DEF Start, NextStream
<1>4. /\ task' = [task EXCEPT ![t] = "feeding"]
      /\ worker' = [worker EXCEPT ![t] = "get"]
      /\ id' = [id EXCEPT ![t] = 2 * t]
      /\ UNCHANGED <<left, carry, opened, seq, sent>>
      /\ task[t] = "none"
  BY <1>2, <1>3 DEF Start, audioVars
<1>5. StreamTypes'
  BY <1>4, StreamsDiffer DEF StreamTypes, Dead
<1>6. IdsInOrder'
  <2>1. \A u \in Speech : task'[u] # "none" <=> u <= n + 1
    <3> HIDE DEF IInv
    <3> SUFFICES ASSUME NEW u \in Speech PROVE task'[u] # "none" <=> u <= n + 1
      OBVIOUS
    <3>1. n \in Nat /\ u \in Nat
      BY SpeechAssumption DEF Speech
    <3>2. CASE u = t
      <4>1. task'[u] = "feeding"
        BY <3>2, <1>4 DEF IInv, StreamTypes
      <4> QED BY <4>1, <3>1, <3>2, <1>2
    <3>3. CASE u # t
      <4>1. task'[u] = task[u]
        BY <3>3, <1>4 DEF IInv, StreamTypes
      <4>2. u <= n <=> u <= n + 1
        BY <3>1, <3>3, <1>2
      <4> QED BY <4>1, <4>2, <1>1
    <3> QED BY <3>2, <3>3
  <2> QED BY <1>2, <1>3, <2>1 DEF IdsInOrder
<1>7. OwnId' /\ OverIsDead'
  BY <1>4 DEF OwnId, OverIsDead, Over, StreamTypes
<1>8. WholeSamples' /\ SentAsCounted'
  BY <1>4 DEF OwnId, WholeSamples, SentAsCounted, StreamTypes, Wire!Closed
<1> QED BY <1>4, <1>5, <1>6, <1>7, <1>8

(* The turn feeds, finishes, cancels and returns: it sends nothing.        *)
LEMMA TurnKeeps ==
    ASSUME IInv, NEW t \in Speech,
           FeedDelta(t) \/ Finish(t) \/ Cancel(t) \/ TaskResumes(t)
    PROVE  IInv' /\ sent' = sent
<1> USE DEF IInv
<1>1. /\ UNCHANGED <<worker, left, carry, opened, seq, streams, id, sent>>
      /\ \A u \in Speech \ {t} : task'[u] = task[u]
      /\ task' \in [Speech -> {"none", "feeding", "finishing", "cancelling"} \cup Over]
      /\ task[t] # "none" /\ task'[t] # "none"
      /\ task'[t] \in Over => worker[t] \in Dead
  BY DEF FeedDelta, Finish, Cancel, TaskResumes, Joined, audioVars, streamVars, startVars,
         StreamTypes, Over
<1>2. StreamTypes'
  BY <1>1 DEF StreamTypes
<1>3. IdsInOrder'
  BY <1>1 DEF IdsInOrder
<1>4. OwnId' /\ OverIsDead'
  BY <1>1 DEF OwnId, OverIsDead
<1>5. WholeSamples' /\ SentAsCounted'
  BY <1>1 DEF WholeSamples, SentAsCounted, Wire!Closed
<1> QED BY <1>1, <1>2, <1>3, <1>4, <1>5

-----------------------------------------------------------------------------
(* The worker of t, at work, does not disturb the other speeches.          *)
OnlyOf(t) ==
    /\ UNCHANGED <<task, streams, id>>
    /\ worker' \in [Speech -> {"get", "synth", "opening", "framing", "closing"} \cup Dead]
    /\ left' \in [Speech -> Nat]
    /\ carry' \in [Speech -> 0..1]
    /\ opened' \in [Speech -> BOOLEAN]
    /\ seq' \in [Speech -> Nat]
    /\ sent' \in [Stream -> Seq(Message)]
    /\ \A u \in Speech \ {t} :
        /\ worker'[u] = worker[u] /\ left'[u] = left[u]
        /\ opened'[u] = opened[u] /\ seq'[u] = seq[u]
        /\ sent'[2 * u] = sent[2 * u]

(* The parts of WholeSamples and SentAsCounted that are about t.           *)
Counted(t) ==
    /\ worker[t] \in {"opening", "framing"} => left[t] % 2 = 0
    /\ worker[t] = "opening" => left[t] > 0
    /\ worker[t] \in {"get", "synth"} =>
          IF opened[t]
          THEN seq[t] > 0 /\ Len(sent[2 * t]) = seq[t] + 1 /\ ~Wire!Closed(2 * t)
          ELSE seq[t] = 0 /\ sent[2 * t] = <<>>
    /\ worker[t] = "opening" =>
          ~opened[t] /\ seq[t] = 0 /\ Len(sent[2 * t]) = 1 /\ ~Wire!Closed(2 * t)
    /\ worker[t] = "framing" =>
          opened[t] /\ Len(sent[2 * t]) = seq[t] + 2 /\ ~Wire!Closed(2 * t)

(* A worker that is at work belongs to a turn that waits or feeds.         *)
LEMMA AtWork ==
    ASSUME IInv, NEW t \in Speech, worker[t] \notin Dead
    PROVE  task[t] # "none" /\ task[t] \notin Over /\ id[t] = 2 * t /\ Counted(t)
BY DEF IInv, OwnId, OverIsDead, WholeSamples, SentAsCounted, Counted, Dead

(* It is enough to look at the speech whose worker moved.                  *)
LEMMA OneSpeech ==
    ASSUME IInv, NEW t \in Speech, task[t] \notin Over \cup {"none"},
           OnlyOf(t), (Counted(t))'
    PROVE  /\ IInv'
           /\ \A u \in Speech : task[u] = "cancelled" => sent'[2 * u] = sent[2 * u]
<1> USE DEF IInv, OnlyOf
<1>1. StreamTypes'
  BY DEF StreamTypes
<1>2. IdsInOrder'
  BY DEF IdsInOrder
<1>3. OwnId'
  BY DEF OwnId
<1>4. OverIsDead'
  BY DEF OverIsDead
<1>5. WholeSamples'
  BY DEF WholeSamples, Counted
<1>6. SentAsCounted'
  <2> SUFFICES ASSUME NEW u \in Speech \ {t} PROVE
        /\ worker[u] \in {"get", "synth"} =>
              IF opened[u]
              THEN seq[u] > 0 /\ Len(sent'[2 * u]) = seq[u] + 1 /\ ~(Wire!Closed(2 * u))'
              ELSE seq[u] = 0 /\ sent'[2 * u] = <<>>
        /\ worker[u] = "opening" =>
              ~opened[u] /\ seq[u] = 0 /\ Len(sent'[2 * u]) = 1 /\ ~(Wire!Closed(2 * u))'
        /\ worker[u] = "framing" =>
              opened[u] /\ Len(sent'[2 * u]) = seq[u] + 2 /\ ~(Wire!Closed(2 * u))'
    BY DEF SentAsCounted, Counted
  <2>1. sent'[2 * u] = sent[2 * u] /\ u \in Speech
    OBVIOUS
  <2>2. (Wire!Closed(2 * u))' <=> Wire!Closed(2 * u)
    BY <2>1, ClosedStays
  <2> QED BY <2>1, <2>2 DEF SentAsCounted
<1>7. \A u \in Speech : task[u] = "cancelled" => sent'[2 * u] = sent[2 * u]
  BY DEF Over
<1> QED BY <1>1, <1>2, <1>3, <1>4, <1>5, <1>6, <1>7

(* What a step owes to the invariant and to the abstract stream.           *)
Good ==
    /\ IInv'
    /\ Wire!Next \/ sent' = sent
    /\ \A u \in Speech : task[u] = "cancelled" => sent'[2 * u] = sent[2 * u]

(* Steps of the worker that send nothing and leave the stream as counted.  *)
LEMMA SilentKeeps ==
    ASSUME IInv, NEW t \in Speech,
           Closed(t) \/ HttpFails(t) \/ WorkerKilled(t) \/ Finalized(t) \/ AudioEnds(t)
    PROVE  Good
<1>1. CASE Finalized(t)
  <2>1. UNCHANGED <<task, worker, left, carry, opened, seq, streams, id, sent>>
    BY <1>1 DEF Finalized, turnVars, audioVars, streamVars
  <2> QED BY <2>1 DEF Good, IInv, StreamTypes, IdsInOrder, OwnId, OverIsDead, WholeSamples,
                      SentAsCounted, Wire!Closed
<1>2. CASE Closed(t) \/ HttpFails(t) \/ WorkerKilled(t) \/ AudioEnds(t)
  <2>1. worker[t] \notin Dead
    BY <1>2 DEF Closed, HttpFails, WorkerKilled, AudioEnds, Synthesizing, At, Dead
  <2>2. /\ UNCHANGED <<task, left, opened, seq, streams, id, sent>>
        /\ carry' = carry \/ carry' = [carry EXCEPT ![t] = 0]
        /\ \/ worker' = [worker EXCEPT ![t] = "ended"]
           \/ worker' = [worker EXCEPT ![t] = "failed"]
           \/ worker' = [worker EXCEPT ![t] = "cancelled"]
           \/ worker[t] = "synth" /\ worker' = [worker EXCEPT ![t] = "get"]
    BY <1>2 DEF Closed, HttpFails, WorkerKilled, AudioEnds, Synthesizing, At, Goto,
                turnVars, audioVars, streamVars
  <2>3. OnlyOf(t)
    <3>1. carry' \in [Speech -> 0..1]
      <4>1. carry \in [Speech -> 0..1] /\ 0 \in 0..1
        BY DEF IInv, StreamTypes
      <4> QED BY <2>2, <4>1
    <3>2. /\ worker' \in [Speech -> {"get", "synth", "opening", "framing", "closing"} \cup Dead]
          /\ \A u \in Speech \ {t} : worker'[u] = worker[u]
      BY <2>2 DEF IInv, StreamTypes, Dead
    <3> QED BY <2>2, <3>1, <3>2 DEF OnlyOf, IInv, StreamTypes
  <2>4. (Counted(t))'
    BY <2>1, <2>2, AtWork DEF Counted, Wire!Closed, IInv, StreamTypes
  <2> QED BY <2>1, <2>2, <2>3, <2>4, AtWork, OneSpeech DEF Good
<1> QED BY <1>1, <1>2

(* The end of the queue closes an open stream, which had a frame.          *)
LEMMA GetKeeps == ASSUME IInv, NEW t \in Speech, Get(t) PROVE Good
<1> USE DEF IInv
<1>1. worker[t] = "get" /\ worker[t] \notin Dead
  BY DEF Get, At, Dead
<1>2. task[t] \notin Over \cup {"none"} /\ id[t] = 2 * t /\ Counted(t)
  BY <1>1, AtWork
<1>3. UNCHANGED <<task, left, carry, opened, seq, streams, id>>
  BY DEF Get, turnVars, audioVars, streamVars
<1>4. CASE /\ sent' = sent
           /\ \/ worker' = [worker EXCEPT ![t] = "ended"]
              \/ worker' = [worker EXCEPT ![t] = "synth"]
  <2>1. OnlyOf(t)
    BY <1>3, <1>4 DEF OnlyOf, StreamTypes, Dead
  <2>2. (Counted(t))'
    BY <1>1, <1>2, <1>3, <1>4 DEF Counted, Wire!Closed, StreamTypes
  <2> QED BY <1>2, <1>4, <2>1, <2>2, OneSpeech DEF Good
<1>5. CASE opened[t] /\ SendMeta(t, TRUE) /\ worker' = [worker EXCEPT ![t] = "closing"]
  <2>1. sent' = [sent EXCEPT ![2 * t] = Append(@, Wire!Meta(TRUE))]
    BY <1>2, <1>5 DEF SendMeta
  <2>2. /\ sent' \in [Stream -> Seq(Message)]
        /\ \A u \in Speech \ {t} : sent'[2 * u] = sent[2 * u]
    BY <2>1, Sending, MessagesDiffer
  <2>3. OnlyOf(t)
    BY <1>3, <1>5, <2>2 DEF OnlyOf, StreamTypes
  <2>4. (Counted(t))'
    BY <1>5 DEF Counted, StreamTypes
  <2>5. Len(sent[2 * t]) > 1 /\ ~Wire!Closed(2 * t)
    BY <1>1, <1>2, <1>5 DEF Counted, StreamTypes
  <2>6. Wire!Next
    BY <2>1, <2>5, StreamsDiffer DEF Wire!Next, Wire!Close, Wire!Put
  <2> QED BY <1>2, <2>3, <2>4, <2>6, OneSpeech DEF Good
<1> QED BY <1>4, <1>5 DEF Get, CloseStream, Goto

(* A slice leaves the worker at its frame.                                 *)
LEMMA SliceKeeps ==
    ASSUME IInv, NEW t \in Speech, worker[t] \notin Dead,
           NEW bytes \in Nat, bytes > 0, bytes % 2 = 0,
           seq' \in [Speech -> Nat], \A u \in Speech \ {t} : seq'[u] = seq[u],
           opened' \in [Speech -> BOOLEAN], \A u \in Speech \ {t} : opened'[u] = opened[u],
           opened'[t],
           carry' \in [Speech -> 0..1],
           UNCHANGED <<task, streams, id>>,
           Slice(t, seq'[t], bytes),
           Len(sent[2 * t]) = seq'[t] + 1, ~Wire!Closed(2 * t),
           worker' = [worker EXCEPT ![t] = "framing"]
    PROVE  Good
<1> USE DEF IInv
<1>1. task[t] \notin Over \cup {"none"} /\ id[t] = 2 * t
  BY AtWork
<1>2. seq'[t] \in Nat /\ sent[2 * t] \in Seq(Message)
  BY StreamsDiffer DEF StreamTypes
<1>3. sent[2 * t] # <<>> /\ seq'[t] = Len(sent[2 * t]) - 1
  BY <1>2
<1>4. /\ Wire!Next
      /\ sent' \in [Stream -> Seq(Message)]
      /\ Len(sent'[2 * t]) = seq'[t] + 2
      /\ ~(Wire!Closed(2 * t))'
      /\ \A u \in Speech \ {t} : sent'[2 * u] = sent[2 * u]
      /\ left' \in [Speech -> Nat]
      /\ left'[t] % 2 = 0
      /\ \A u \in Speech \ {t} : left'[u] = left[u]
  BY <1>1, <1>2, <1>3, Slicing
<1>5. OnlyOf(t)
  BY <1>4 DEF OnlyOf, StreamTypes
<1>6. (Counted(t))'
  BY <1>4 DEF Counted, StreamTypes
<1> QED BY <1>1, <1>4, <1>5, <1>6, OneSpeech DEF Good

(* The first chunk with a sample opens the stream, the next ones go on.    *)
LEMMA AudioKeeps == ASSUME IInv, NEW t \in Speech, NEW n \in Chunks, Audio(t, n) PROVE Good
<1> USE DEF IInv
<1> DEFINE pcm == Aligned(carry[t] + n)
<1>1. worker[t] = "synth" /\ worker[t] \notin Dead
  BY DEF Audio, Synthesizing, At, Dead
<1>2. task[t] \notin Over \cup {"none"} /\ id[t] = 2 * t /\ Counted(t)
  BY <1>1, AtWork
<1>3. UNCHANGED <<task, opened, seq, streams, id>>
  BY DEF Audio, turnVars, streamVars
<1>4. pcm \in Nat /\ pcm % 2 = 0 /\ carry[t] + n - pcm \in 0..1
  <2>1. carry[t] \in 0..1
    BY DEF StreamTypes
  <2>2. n \in Nat
    BY SpeechAssumption
  <2>3. carry[t] + n \in Nat
    BY <2>1, <2>2
  <2> DEFINE bytes == carry[t] + n
  <2> HIDE DEF bytes
  <2>4. bytes \in Nat
    BY <2>3 DEF bytes
  <2>5. Aligned(bytes) \in Nat /\ Aligned(bytes) % 2 = 0 /\ bytes - Aligned(bytes) \in 0..1
    BY <2>4, AlignedIsEven
  <2>6. pcm = Aligned(bytes)
    BY DEF bytes
  <2>7. carry[t] + n = bytes
    BY DEF bytes
  <2> HIDE DEF pcm
  <2> QED BY <2>1, <2>2, <2>4, <2>5, <2>6, <2>7
<1>5. carry' \in [Speech -> 0..1]
  BY <1>4 DEF Audio, StreamTypes
<1>6. CASE UNCHANGED <<worker, left, sent>>
  <2>1. OnlyOf(t) /\ (Counted(t))'
    BY <1>2, <1>3, <1>5, <1>6 DEF OnlyOf, Counted, Wire!Closed, StreamTypes
  <2> QED BY <1>2, <1>6, <2>1, OneSpeech DEF Good
<1>7. CASE /\ pcm > 0 /\ ~opened[t]
           /\ SendMeta(t, FALSE)
           /\ left' = [left EXCEPT ![t] = pcm]
           /\ worker' = [worker EXCEPT ![t] = "opening"]
  <2>1. sent' = [sent EXCEPT ![2 * t] = Append(@, Wire!Meta(FALSE))]
    BY <1>2, <1>7 DEF SendMeta
  <2>2. sent[2 * t] = <<>> /\ seq[t] = 0
    BY <1>1, <1>2, <1>7 DEF Counted
  <2>3. /\ sent' \in [Stream -> Seq(Message)]
        /\ Len(sent'[2 * t]) = Len(sent[2 * t]) + 1
        /\ ~(Wire!Closed(2 * t))'
        /\ \A u \in Speech \ {t} : sent'[2 * u] = sent[2 * u]
    <3> DEFINE m == Wire!Meta(FALSE)
    <3>1. m \in Message /\ m # Wire!Meta(TRUE)
      BY MessagesDiffer
    <3> HIDE DEF m
    <3>2. StreamTypes /\ sent' = [sent EXCEPT ![2 * t] = Append(@, m)]
      BY <2>1 DEF m
    <3> QED BY <3>1, <3>2, Sending
  <2>4. OnlyOf(t)
    BY <1>3, <1>4, <1>5, <1>7, <2>3 DEF OnlyOf, StreamTypes
  <2>5. (Counted(t))'
    BY <1>3, <1>4, <1>7, <2>2, <2>3 DEF Counted, StreamTypes
  <2>6. Wire!Next
    BY <2>1, <2>2, StreamsDiffer DEF Wire!Next, Wire!Open, Wire!Put
  <2> QED BY <1>2, <2>4, <2>5, <2>6, OneSpeech DEF Good
<1>8. CASE /\ pcm > 0 /\ opened[t]
           /\ Slice(t, seq[t], pcm)
           /\ worker' = [worker EXCEPT ![t] = "framing"]
  <2>1. Len(sent[2 * t]) = seq[t] + 1 /\ ~Wire!Closed(2 * t)
    BY <1>1, <1>2, <1>8 DEF Counted
  <2> HIDE DEF pcm
  <2>2. seq' = seq /\ opened' = opened /\ seq \in [Speech -> Nat] /\ opened \in [Speech -> BOOLEAN]
    BY <1>3 DEF StreamTypes
  <2> QED BY <1>1, <1>3, <1>4, <1>5, <1>8, <2>1, <2>2, SliceKeeps
<1> QED BY <1>6, <1>7, <1>8 DEF Audio, Goto

(* The announced stream gets its first frame.                              *)
LEMMA OpenedKeeps == ASSUME IInv, NEW t \in Speech, Opened(t) PROVE Good
<1> USE DEF IInv
<1>1. worker[t] = "opening" /\ worker[t] \notin Dead
  BY DEF Opened, At, Dead
<1>2. Counted(t)
  BY <1>1, AtWork
<1>3. /\ UNCHANGED <<task, carry, seq, streams, id>>
      /\ opened' = [opened EXCEPT ![t] = TRUE]
      /\ Slice(t, seq[t], left[t])
      /\ worker' = [worker EXCEPT ![t] = "framing"]
  BY DEF Opened, Goto, turnVars, streamVars
<1>4. /\ seq' \in [Speech -> Nat] /\ \A u \in Speech \ {t} : seq'[u] = seq[u]
      /\ opened' \in [Speech -> BOOLEAN] /\ \A u \in Speech \ {t} : opened'[u] = opened[u]
      /\ opened'[t]
      /\ carry' \in [Speech -> 0..1]
      /\ left[t] \in Nat
  BY <1>3 DEF StreamTypes
<1>5. /\ left[t] > 0 /\ left[t] % 2 = 0
      /\ Len(sent[2 * t]) = seq'[t] + 1 /\ ~Wire!Closed(2 * t)
  <2>1. seq' = seq
    BY <1>3
  <2>2. /\ left[t] > 0 /\ left[t] % 2 = 0
        /\ Len(sent[2 * t]) = 1 /\ seq[t] = 0 /\ ~Wire!Closed(2 * t)
    BY <1>1, <1>2 DEF Counted
  <2>3. seq'[t] = seq[t]
    BY <2>1
  <2>4. Slice(t, seq'[t], left[t])
    BY <1>3, <2>3
  <2> QED BY <2>2, <2>3, <2>4
<1> DEFINE bytes == left[t]
<1> HIDE DEF bytes
<1>6. bytes \in Nat /\ bytes > 0 /\ bytes % 2 = 0 /\ Slice(t, seq'[t], bytes)
  <2>1. seq' = seq
    BY <1>3
  <2> QED BY <1>3, <1>4, <1>5, <2>1 DEF bytes
<1> QED BY <1>1, <1>3, <1>4, <1>5, <1>6, SliceKeeps

(* The frame counts once it went out; the next slice follows.              *)
LEMMA FramedKeeps == ASSUME IInv, NEW t \in Speech, Framed(t) PROVE Good
<1> USE DEF IInv
<1>1. worker[t] = "framing" /\ worker[t] \notin Dead
  BY DEF Framed, At, Dead
<1>2. task[t] \notin Over \cup {"none"} /\ id[t] = 2 * t /\ Counted(t)
  BY <1>1, AtWork
<1>3. UNCHANGED <<task, carry, opened, streams, id>> /\ seq' = [seq EXCEPT ![t] = @ + 1]
  BY DEF Framed, turnVars, streamVars
<1>4. /\ seq' \in [Speech -> Nat] /\ \A u \in Speech \ {t} : seq'[u] = seq[u]
      /\ seq'[t] = seq[t] + 1 /\ seq[t] \in Nat
      /\ left[t] \in Nat
  BY <1>3 DEF StreamTypes
<1>5. Len(sent[2 * t]) = seq'[t] + 1 /\ ~Wire!Closed(2 * t) /\ opened[t] /\ left[t] % 2 = 0
  BY <1>1, <1>2, <1>4 DEF Counted
<1>6. CASE left[t] > 0 /\ Slice(t, seq'[t], left[t]) /\ UNCHANGED worker
  <2>1. worker' = [worker EXCEPT ![t] = "framing"]
    BY <1>1, <1>6 DEF StreamTypes
  <2>2. opened' \in [Speech -> BOOLEAN] /\ \A u \in Speech \ {t} : opened'[u] = opened[u]
    BY <1>3 DEF StreamTypes
  <2>3. opened'[t] /\ carry' \in [Speech -> 0..1]
    BY <1>3, <1>5 DEF StreamTypes
  <2> QED BY <1>1, <1>3, <1>4, <1>5, <1>6, <2>1, <2>2, <2>3, SliceKeeps
<1>7. CASE UNCHANGED <<sent, left>> /\ worker' = [worker EXCEPT ![t] = "synth"]
  <2>1. OnlyOf(t)
    BY <1>3, <1>4, <1>7 DEF OnlyOf, StreamTypes
  <2>2. (Wire!Closed(2 * t))' <=> Wire!Closed(2 * t)
    BY <1>7, ClosedStays
  <2>3. worker'[t] = "synth" /\ opened'[t] /\ sent' = sent /\ seq'[t] > 0
    BY <1>3, <1>4, <1>5, <1>7 DEF StreamTypes
  <2>4. (Counted(t))'
    BY <1>5, <2>2, <2>3 DEF Counted
  <2> QED BY <1>2, <1>7, <2>1, <2>4, OneSpeech DEF Good
<1> QED BY <1>6, <1>7 DEF Framed, Goto

-----------------------------------------------------------------------------

(* Each step of the probe, a turn, a worker or the server keeps the        *)
(* invariant of the streams.                                               *)
LEMMA StepKeeps == IInv /\ [Next]_vars => Good
<1> SUFFICES ASSUME IInv, [Next]_vars PROVE Good
  OBVIOUS
<1>1. CASE Unreachable \/ Probe \/ UNCHANGED vars
  <2>1. UNCHANGED <<task, worker, left, carry, opened, seq, streams, id, sent>>
    BY <1>1 DEF Unreachable, Probe, vars, turnVars, audioVars, streamVars
  <2> QED BY <2>1 DEF Good, IInv, StreamTypes, IdsInOrder, OwnId, OverIsDead, WholeSamples,
                      SentAsCounted, Wire!Closed
<1>2. ASSUME NEW t \in Speech, Start(t) PROVE Good
  BY <1>2, StartKeeps DEF Good
<1>3. ASSUME NEW t \in Speech, FeedDelta(t) \/ Finish(t) \/ Cancel(t) \/ TaskResumes(t) PROVE Good
  BY <1>3, TurnKeeps DEF Good
<1>4. ASSUME NEW t \in Speech, WorkerStep(t) PROVE Good
  BY <1>4, GetKeeps, OpenedKeeps, FramedKeeps, SilentKeeps DEF WorkerStep
<1>5. ASSUME NEW t \in Speech, Server(t) PROVE Good
  BY <1>5, AudioKeeps, SilentKeeps DEF Server
<1> QED BY <1>1, <1>2, <1>3, <1>4, <1>5 DEF Next

(* The speeches keep their streams apart, and what a worker remembers of   *)
(* its stream, opened and seq, is what went out on it.                     *)
THEOREM InvariantHolds == Spec => []IInv
<1>1. Init => IInv
  BY InitEstablishes
<1>2. IInv /\ [Next]_vars => IInv'
  BY StepKeeps DEF Good
<1> QED BY <1>1, <1>2, PTL DEF Spec

(* Every speech's broadcasts are an audio stream: announced before its     *)
(* first frame and never in vain, its frames numbered without a gap and    *)
(* made of whole samples within the limit, closed at most once and then    *)
(* silent; whatever fails or is cancelled.                                 *)
THEOREM StreamsAreAudioStreams == Spec => ImplementsAudioStream
<1>1. Init => Wire!Init
  BY InitEstablishes
<1>2. IInv /\ [Next]_vars => [Wire!Next]_sent
  BY StepKeeps DEF Good
<1> QED BY <1>1, <1>2, InvariantHolds, PTL DEF Spec, ImplementsAudioStream, Wire!Spec

(* When cancel() has returned, nothing goes out on the stream of the       *)
(* speech any more, no frame and no closing meta.                          *)
THEOREM CancelSilencesHolds == Spec => CancelSilences
<1>1. IInv /\ [Next]_vars =>
        [\A t \in Speech : task[t] = "cancelled" => sent'[id[t]] = sent[id[t]]]_vars
  BY StepKeeps DEF Good, IInv, OwnId
<1> QED BY <1>1, InvariantHolds, PTL DEF Spec, CancelSilences

-----------------------------------------------------------------------------
(* What was sent, in bytes.                                                *)

SizeOf(m) == IF m.kind = "frame" THEN m.size ELSE 0

(* A message carries some number of bytes.                                 *)
LEMMA SizesAreNumbers == \A m \in Message : SizeOf(m) \in Nat
BY DEF Message, SizeOf

Running(s, f, n) == IF n = 0 THEN 0 ELSE f[n - 1] + SizeOf(s[n])

(* The recursion of Total has a solution.                                  *)
LEMMA TotalIs ==
    ASSUME NEW s \in Seq(Message)
    PROVE  \E f \in [0..Len(s) -> Nat] :
              (\A n \in 0..Len(s) : f[n] = Running(s, f, n)) /\ Total(s) = f[Len(s)]
<1>0. Len(s) \in Nat /\ \A n \in 1..Len(s) : SizeOf(s[n]) \in Nat
  BY SizesAreNumbers
<1> DEFINE T == {m \in Nat : m <= Len(s) => \E f : f = [n \in 0..m |-> Running(s, f, n)]}
<1>1. 0 \in T
  <2> DEFINE g == [n \in 0..0 |-> 0]
  <2>1. ASSUME NEW n \in 0..0 PROVE g[n] = Running(s, g, n)
    <3>1. n = 0
      OBVIOUS
    <3> QED BY <3>1 DEF Running
  <2>2. g = [n \in 0..0 |-> Running(s, g, n)]
    BY <2>1
  <2> QED BY <2>2
<1>2. ASSUME NEW m \in Nat, m \in T PROVE m + 1 \in T
  <2> SUFFICES ASSUME m + 1 <= Len(s) PROVE \E f : f = [n \in 0..(m + 1) |-> Running(s, f, n)]
    OBVIOUS
  <2>1. PICK f : f = [n \in 0..m |-> Running(s, f, n)]
    BY <1>0, <1>2
  <2> DEFINE g == [n \in 0..(m + 1) |-> IF n \in 0..m THEN f[n] ELSE Running(s, f, n)]
  <2>2. \A n \in 0..m : g[n] = f[n]
    OBVIOUS
  <2>3. ASSUME NEW n \in 0..(m + 1) PROVE g[n] = Running(s, g, n)
    <3>1. g[n] = Running(s, f, n)
      BY <2>1
    <3>2. n = 0 \/ n - 1 \in 0..m
      OBVIOUS
    <3>3. n = 0 \/ g[n - 1] = f[n - 1]
      BY <2>2, <3>2
    <3> HIDE DEF g
    <3> QED BY <3>1, <3>3 DEF Running
  <2>4. g = [n \in 0..(m + 1) |-> Running(s, g, n)]
    BY <2>3
  <2> QED BY <2>4
<1>3. Len(s) \in T
  <2> HIDE DEF T
  <2> QED BY <1>0, <1>1, <1>2, Induct
<1> DEFINE upto == CHOOSE f : f = [n \in 0..Len(s) |-> Running(s, f, n)]
<1>a. \E f : f = [n \in 0..Len(s) |-> Running(s, f, n)]
  BY <1>0, <1>3
<1>4. upto = [n \in 0..Len(s) |-> Running(s, upto, n)]
  BY <1>a
<1>5. Total(s) = upto[Len(s)]
  BY DEF Total, Running, SizeOf
<1> HIDE DEF upto
<1>6. \A n \in 0..Len(s) : upto[n] = Running(s, upto, n)
  BY <1>4
<1> DEFINE U == {n \in Nat : n <= Len(s) => upto[n] \in Nat}
<1>7. 0 \in U
  BY <1>0, <1>6 DEF Running
<1>8. ASSUME NEW n \in Nat, n \in U PROVE n + 1 \in U
  <2> SUFFICES ASSUME n + 1 <= Len(s) PROVE upto[n + 1] \in Nat
    OBVIOUS
  <2>1. n + 1 \in 0..Len(s) /\ n + 1 \in 1..Len(s) /\ n + 1 # 0 /\ (n + 1) - 1 = n /\ upto[n] \in Nat
    BY <1>0, <1>8
  <2>2. upto[n + 1] = upto[n] + SizeOf(s[n + 1])
    BY <1>6, <2>1 DEF Running
  <2> QED BY <1>0, <2>1, <2>2
<1>9. \A n \in Nat : n \in U
  <2> HIDE DEF U
  <2> QED BY <1>7, <1>8, Induct
<1>10. upto \in [0..Len(s) -> Nat]
  <2>1. \A n \in 0..Len(s) : n \in Nat /\ n <= Len(s)
    BY <1>0
  <2>2. \A n \in 0..Len(s) : upto[n] \in Nat
    BY <1>9, <2>1
  <2> QED BY <1>4, <2>2
<1> QED BY <1>5, <1>6, <1>10

(* One more message.                                                       *)
LEMMA TotalGrows ==
    /\ Total(<<>>) = 0
    /\ \A s \in Seq(Message) : Total(s) \in Nat
    /\ \A s \in Seq(Message), m \in Message : Total(Append(s, m)) = Total(s) + SizeOf(m)
<1>1. Total(<<>>) = 0
  <2>1. <<>> \in Seq(Message) /\ Len(<<>>) = 0 /\ 0 \in 0..0
    OBVIOUS
  <2>2. PICK f : (\A n \in 0..0 : f[n] = Running(<<>>, f, n)) /\ Total(<<>>) = f[0]
    BY <2>1, TotalIs
  <2> QED BY <2>1, <2>2 DEF Running
<1>2. ASSUME NEW s \in Seq(Message) PROVE Total(s) \in Nat
  <2>1. PICK f \in [0..Len(s) -> Nat] : Total(s) = f[Len(s)]
    BY TotalIs
  <2> QED BY <2>1
<1>3. ASSUME NEW s \in Seq(Message), NEW m \in Message
      PROVE  Total(Append(s, m)) = Total(s) + SizeOf(m)
  <2> DEFINE l == Append(s, m)
  <2>1. /\ Len(s) \in Nat /\ l \in Seq(Message) /\ Len(l) = Len(s) + 1
        /\ l[Len(s) + 1] = m /\ \A n \in 1..Len(s) : l[n] = s[n]
    OBVIOUS
  <2> HIDE DEF l
  <2>2. PICK f \in [0..Len(s) -> Nat] :
          (\A n \in 0..Len(s) : f[n] = Running(s, f, n)) /\ Total(s) = f[Len(s)]
    BY TotalIs
  <2>3. PICK g \in [0..Len(l) -> Nat] :
          (\A n \in 0..Len(l) : g[n] = Running(l, g, n)) /\ Total(l) = g[Len(l)]
    BY <2>1, TotalIs
  <2> DEFINE T == {n \in Nat : n <= Len(s) => g[n] = f[n]}
  <2>4. 0 \in T
    <3>1. 0 \in 0..Len(s) /\ 0 \in 0..Len(l)
      BY <2>1
    <3> QED BY <2>2, <2>3, <3>1 DEF Running
  <2>5. ASSUME NEW n \in Nat, n \in T PROVE n + 1 \in T
    <3> SUFFICES ASSUME n + 1 <= Len(s) PROVE g[n + 1] = f[n + 1]
      OBVIOUS
    <3>1. /\ n + 1 \in 0..Len(s) /\ n + 1 \in 0..Len(l) /\ n + 1 \in 1..Len(s)
          /\ n + 1 # 0 /\ (n + 1) - 1 = n /\ g[n] = f[n]
      BY <2>1, <2>5
    <3>2. f[n + 1] = f[n] + SizeOf(s[n + 1])
      BY <2>2, <3>1 DEF Running
    <3>3. g[n + 1] = g[n] + SizeOf(l[n + 1])
      BY <2>3, <3>1 DEF Running
    <3> QED BY <2>1, <3>1, <3>2, <3>3
  <2>6. Len(s) \in T
    <3> HIDE DEF T
    <3> QED BY <2>1, <2>4, <2>5, Induct
  <2>7. g[Len(s)] = f[Len(s)]
    BY <2>1, <2>6
  <2>8. Len(s) + 1 \in 0..Len(l) /\ Len(s) + 1 # 0 /\ (Len(s) + 1) - 1 = Len(s)
    BY <2>1
  <2>9. g[Len(s) + 1] = g[Len(s)] + SizeOf(l[Len(s) + 1])
    BY <2>3, <2>8 DEF Running
  <2> QED BY <2>1, <2>2, <2>3, <2>7, <2>9 DEF l
<1> QED BY <1>1, <1>2, <1>3

(* A queue without its end.                                                *)
LEMMA WithoutEnd ==
    /\ End \notin Sentence
    /\ \A w \in Seq(Sentence) : RemoveFirst(w, End) = w /\ RemoveFirst(Append(w, End), End) = w
<1>1. End \notin Sentence
  BY DEF End, Sentence
<1> SUFFICES ASSUME NEW w \in Seq(Sentence)
             PROVE  RemoveFirst(w, End) = w /\ RemoveFirst(Append(w, End), End) = w
  BY <1>1
<1>2. RemoveFirst(w, End) = w
  <2>1. \A i \in 1..Len(w) : w[i] \in Sentence
    BY ElementOfSeq
  <2>2. \A i \in 1..Len(w) : w[i] # End
    BY <1>1, <2>1
  <2> QED BY <2>2, RemovingFirst
<1> DEFINE s == Append(w, End)
           n == Len(w)
<1>3. n \in Nat /\ s \in Seq(Texts) /\ Len(s) = n + 1 /\ s[n + 1] = End
      /\ (\A i \in 1..n : s[i] = w[i] /\ s[i] # End) /\ w \in Seq(Texts)
  <2>1. w \in Seq(Texts)
    BY SeqMonotonic DEF Sentence, Texts
  <2>2. End \in Texts
    BY DEF End, Texts
  <2>3. \A i \in 1..n : w[i] # End
    BY <1>1, ElementOfSeq
  <2> QED BY <2>1, <2>2, <2>3, AppendProperties
<1>4. SubSeq(s, 1, n) = w
  <2>1. \A i \in 1..n : s[i] \in Texts
    BY <1>3, ElementOfSeq
  <2>2. /\ SubSeq(s, 1, n) \in Seq(Texts)
        /\ Len(SubSeq(s, 1, n)) = IF 1 <= n THEN n - 1 + 1 ELSE 0
        /\ \A i \in 1..(n - 1 + 1) : SubSeq(s, 1, n)[i] = s[1 + i - 1]
    BY <1>3, <2>1, SubSeqProperties
  <2>3. Len(SubSeq(s, 1, n)) = n /\ \A i \in 1..n : SubSeq(s, 1, n)[i] = s[i]
    BY <1>3, <2>2
  <2> HIDE DEF s
  <2> QED BY <1>3, <2>2, <2>3, SeqEqual
<1>5. PICK i \in 1..Len(s) :
        s[i] = End /\ RemoveFirst(s, End) = SubSeq(s, 1, i - 1) \o SubSeq(s, i + 1, Len(s))
  <2>1. n + 1 \in 1..Len(s)
    BY <1>3
  <2> HIDE DEF s
  <2> QED BY <1>3, <2>1, RemovingFirst
<1>6. i = n + 1 /\ i - 1 = n /\ i + 1 > Len(s)
  <2> HIDE DEF s
  <2> QED BY <1>3, <1>5
<1>7. SubSeq(s, i + 1, Len(s)) = <<>>
  <2>1. i + 1 \in Int /\ Len(s) \in Int
    BY <1>3, <1>6
  <2> HIDE DEF s
  <2> QED BY <1>6, <2>1, SubSeqEmpty
<1>8. RemoveFirst(s, End) = w
  <2> HIDE DEF s
  <2> QED BY <1>4, <1>5, <1>6, <1>7, ConcatEmptySeq
<1> QED BY <1>2, <1>8

-----------------------------------------------------------------------------
(* What is said, speech by speech.                                         *)

(* The parts of the invariant that are about the sentences of t.           *)
Saying(t) ==
    /\ Waiting(t) \in Seq(Sentence)
    /\ queue[t] \in {Waiting(t), Append(Waiting(t), End)}
    /\ task[t] \in {"none", "feeding"} => queue[t] = Waiting(t)
    /\ task[t] = "none" =>
          fed[t] = 0 /\ chunker[t] = Fresh /\ Queued(t) = <<>> /\ reply[t] = <<>>
    /\ task[t] = "feeding" =>
          fed[t] <= Len(reply[t]) /\ Chunked(reply[t], fed[t], chunker[t], Queued(t))
    /\ IsPrefix(Queued(t), Sentences(reply[t]))
    /\ task[t] \in {"finishing", "done"} => Queued(t) = Sentences(reply[t])

(* Those about what the worker of t has in hand.                           *)
Carrying(t) ==
    /\ worker[t] \in {"closing", "ended"} => task[t] \notin {"none", "feeding"}
    /\ worker[t] = "cancelled" => task[t] \in {"cancelling", "cancelled"}
    /\ worker[t] = "none" => task[t] = "none"
    /\ task[t] = "done" => worker[t] = "ended"
    /\ worker[t] \in {"none", "get", "closing", "ended"} =>
          now[t] = <<>> /\ carry[t] = 0 /\ heard[t] = 0
    /\ worker[t] \in {"closing", "ended"} => queue[t] = <<>>
    /\ worker[t] \in {"none", "get", "synth", "opening", "framing", "closing", "ended"} =>
          Bytes(2 * t) + Unsent(t) + carry[t] = received[t]
    /\ worker[t] = "synth" /\ ~opened[t] => heard[t] = carry[t]
    /\ voiced[t] # <<>> => opened[t]
    /\ worker[t] \in {"closing", "ended"} /\ opened[t] => Wire!Closed(2 * t)

Spoken == EndIsLast /\ ChunkedAsFed /\ SentencesAsWritten /\ InStep /\ InHand /\ BytesCounted

(* The invariant is about one speech at a time.                            *)
LEMMA SpokenSpeechBySpeech == Spoken <=> \A t \in Speech : Saying(t) /\ Carrying(t)
BY DEF Spoken, EndIsLast, ChunkedAsFed, SentencesAsWritten, InStep, InHand, BytesCounted,
       Saying, Carrying

(* A step leaves the text of u alone, or all of u.                         *)
SameText(u) ==
    /\ task'[u] = task[u] /\ reply'[u] = reply[u] /\ fed'[u] = fed[u]
    /\ chunker'[u] = chunker[u] /\ queue'[u] = queue[u]
    /\ now'[u] = now[u] /\ voiced'[u] = voiced[u]

Same(u) ==
    /\ SameText(u)
    /\ worker'[u] = worker[u] /\ left'[u] = left[u] /\ carry'[u] = carry[u]
    /\ heard'[u] = heard[u] /\ opened'[u] = opened[u]
    /\ sent'[2 * u] = sent[2 * u] /\ received'[u] = received[u]

(* Then its parts hold on.                                                 *)
LEMMA SameTextKeeps == ASSUME NEW u, SameText(u), Saying(u) PROVE (Saying(u))'
BY DEF SameText, Saying, Queued, Waiting

(* A step that touches neither the text nor the audio of a speech keeps    *)
(* what is known of both.                                                  *)
LEMMA SameKeeps == ASSUME NEW u, Same(u), Saying(u), Carrying(u) PROVE (Saying(u))' /\ (Carrying(u))'
<1>1. (Saying(u))'
  BY SameTextKeeps DEF Same
<1>2. (Wire!Closed(2 * u))' <=> Wire!Closed(2 * u)
  BY ClosedStays DEF Same
<1>3. (Carrying(u))'
  BY <1>2 DEF Same, SameText, Carrying, Unsent, Bytes
<1> QED BY <1>1, <1>3

(* What a step of t owes to the invariant.                                 *)
Owed(t) ==
    /\ TextTypes'
    /\ \A u \in Speech \ {t} : Same(u)
    /\ (Saying(t))' /\ (Carrying(t))'

(* Then the invariant holds for all.                                       *)
LEMMA OwedIsEnough ==
    ASSUME Spoken, NEW t \in Speech, Owed(t)
    PROVE  Spoken'
<1>1. \A u \in Speech : Saying(u) /\ Carrying(u)
  BY SpokenSpeechBySpeech
<1>2. \A u \in Speech : (Saying(u))' /\ (Carrying(u))'
  BY <1>1, SameKeeps DEF Owed
<1> QED BY <1>2 DEF Spoken, EndIsLast, ChunkedAsFed, SentencesAsWritten, InStep, InHand,
                   BytesCounted, Saying, Carrying

(* What was queued is sentences.                                           *)
LEMMA QueuedIs ==
    ASSUME TextTypes, NEW t \in Speech, Saying(t)
    PROVE  /\ voiced[t] \in Seq(Sentence) /\ now[t] \in Seq(Sentence) /\ Waiting(t) \in Seq(Sentence)
           /\ Queued(t) \in Seq(Sentence)
           /\ \A out \in Seq(Sentence) :
                 /\ Waiting(t) \o out \in Seq(Sentence)
                 /\ Queued(t) \o out \in Seq(Sentence)
                 /\ Queued(t) \o out = voiced[t] \o now[t] \o (Waiting(t) \o out)
<1>1. voiced[t] \in Seq(Sentence) /\ now[t] \in Seq(Sentence) /\ Waiting(t) \in Seq(Sentence)
  BY DEF TextTypes, Saying
<1>2. voiced[t] \o now[t] \in Seq(Sentence)
  BY <1>1, ConcatProperties
<1>3. Queued(t) \in Seq(Sentence)
  BY <1>1, <1>2, ConcatProperties DEF Queued
<1>4. ASSUME NEW out \in Seq(Sentence)
      PROVE  /\ Waiting(t) \o out \in Seq(Sentence)
             /\ Queued(t) \o out \in Seq(Sentence)
             /\ Queued(t) \o out = voiced[t] \o now[t] \o (Waiting(t) \o out)
  <2>1. (voiced[t] \o now[t] \o Waiting(t)) \o out = voiced[t] \o now[t] \o (Waiting(t) \o out)
    BY <1>1, <1>2, Associates
  <2>2. Waiting(t) \o out \in Seq(Sentence) /\ Queued(t) \o out \in Seq(Sentence)
    BY <1>1, <1>3, ConcatProperties
  <2> QED BY <2>1, <2>2 DEF Queued
<1> QED BY <1>1, <1>3, <1>4

-----------------------------------------------------------------------------
(* The turn.                                                               *)

(* A new speech has its reply before it.                                   *)
LEMMA StartOwes ==
    ASSUME IInv, TextTypes, NEW t \in Speech, Saying(t), Carrying(t), Start(t)
    PROVE  Owed(t)
<1>1. /\ task[t] = "none" /\ worker[t] = "none"
      /\ UNCHANGED <<fed, chunker, queue, now, left, carry, heard, opened, seq, sent, voiced,
                     received, up, response>>
      /\ task' = [task EXCEPT ![t] = "feeding"]
      /\ worker' = [worker EXCEPT ![t] = "get"]
  BY DEF Start, startVars, audioVars, IInv, OwnId
<1>2. PICK r \in Replies[t] : reply' = [reply EXCEPT ![t] = r]
  BY DEF Start
<1>3. r \in Texts
  BY SpeechAssumption DEF Speech, Texts
<1>4. task'[t] = "feeding" /\ worker'[t] = "get" /\ reply'[t] = r
  BY <1>1, <1>2 DEF IInv, StreamTypes, TextTypes
<1>5. TextTypes'
  BY <1>1, <1>2, <1>3 DEF TextTypes, Texts
<1>6. \A u \in Speech \ {t} : Same(u)
  BY <1>1, <1>2 DEF Same, SameText, IInv, StreamTypes, TextTypes
<1>7. /\ queue'[t] = Waiting(t) /\ Waiting(t)' = Waiting(t) /\ Waiting(t) \in Seq(Sentence)
      /\ fed'[t] = 0 /\ chunker'[t] = Fresh /\ Queued(t)' = <<>>
  BY <1>1 DEF Saying, Waiting, Queued
<1>8. Chunked(r, 0, Fresh, <<>>) /\ 0 <= Len(r) /\ IsPrefix(<<>>, Sentences(r))
  <2>1. Chunked(r, 0, Fresh, <<>>)
    BY <1>3, FreshIsChunked
  <2>2. Len(r) \in Nat
    BY <1>3 DEF Texts
  <2>3. 0 \in 0..Len(r) /\ 0 <= Len(r)
    BY <2>2
  <2>4. <<>> \in Seq(Sentence)
    OBVIOUS
  <2>5. IsPrefix(<<>>, Sentences(r))
    BY <1>3, <2>1, <2>3, <2>4, ChunkedIsPrefix
  <2> QED BY <2>1, <2>3, <2>5
<1>9. (Saying(t))'
  BY <1>4, <1>7, <1>8 DEF Saying
<1>10. (Carrying(t))'
  BY <1>1, <1>4 DEF Carrying, Unsent, Bytes
<1> QED BY <1>5, <1>6, <1>9, <1>10 DEF Owed

(* A delta brings the chunker on, and its sentences to the queue.          *)
LEMMA FeedOwes ==
    ASSUME IInv, TextTypes, NEW t \in Speech, Saying(t), Carrying(t), FeedDelta(t)
    PROVE  Owed(t)
<1>1. /\ task[t] = "feeding"
      /\ UNCHANGED <<task, reply, worker, now, left, carry, heard, opened, seq, sent, voiced,
                     received, up, response>>
  BY DEF FeedDelta, startVars, audioVars
<1>2. PICK to \in (fed[t] + 1)..Len(reply[t]) :
        LET step == Feed(chunker[t], SubSeq(reply[t], fed[t] + 1, to)) IN
        /\ fed' = [fed EXCEPT ![t] = to]
        /\ chunker' = [chunker EXCEPT ![t] = [buf |-> step.buf, done |-> step.done]]
        /\ queue' = [queue EXCEPT ![t] = @ \o step.out]
  BY DEF FeedDelta
<1> DEFINE step == Feed(chunker[t], SubSeq(reply[t], fed[t] + 1, to))
           c == [buf |-> step.buf, done |-> step.done]
<1>3. /\ fed' = [fed EXCEPT ![t] = to] /\ chunker' = [chunker EXCEPT ![t] = c]
      /\ queue' = [queue EXCEPT ![t] = @ \o step.out]
  BY <1>2
<1>4. /\ reply[t] \in Texts /\ fed[t] \in 0..Len(reply[t]) /\ to \in fed[t]..Len(reply[t])
      /\ chunker[t] \in [buf : Texts, done : Texts] /\ to \in 0..Len(reply[t]) /\ to \in Nat
      /\ Chunked(reply[t], fed[t], chunker[t], Queued(t))
  <2>1. reply[t] \in Texts /\ fed[t] \in Nat /\ chunker[t] \in [buf : Texts, done : Texts]
    BY DEF TextTypes, Texts
  <2>2. fed[t] <= Len(reply[t]) /\ Chunked(reply[t], fed[t], chunker[t], Queued(t))
    BY <1>1 DEF Saying
  <2>3. Len(reply[t]) \in Nat
    BY <2>1 DEF Texts
  <2> QED BY <2>1, <2>2, <2>3
<1>5. step \in Steps /\ Chunked(reply[t], to, step, Queued(t) \o step.out)
  <2>1. Queued(t) \in Seq(Sentence)
    BY QueuedIs
  <2>2. \A s : s = Feed(chunker[t], SubSeq(reply[t], fed[t] + 1, to)) =>
          s \in Steps /\ Chunked(reply[t], to, s, Queued(t) \o s.out)
    BY <1>4, <2>1, FeedKeepsChunked
  <2> QED BY <2>2
<1> HIDE DEF step
<1>6. /\ c \in [buf : Texts, done : Texts] /\ c.buf = step.buf /\ c.done = step.done
      /\ step.out \in Seq(Sentence)
  BY <1>5 DEF Steps
<1> HIDE DEF c
<1>7. Chunked(reply[t], to, c, Queued(t) \o step.out)
  BY <1>5, <1>6 DEF Chunked
<1>8. /\ fed'[t] = to /\ chunker'[t] = c /\ queue'[t] = Waiting(t) \o step.out
      /\ \A u \in Speech \ {t} : fed'[u] = fed[u] /\ chunker'[u] = chunker[u] /\ queue'[u] = queue[u]
  BY <1>1, <1>3 DEF TextTypes, Saying
<1>9. queue'[t] \in Seq(Sentence) /\ Waiting(t)' = queue'[t] /\ Queued(t)' = Queued(t) \o step.out
  <2>1. /\ Waiting(t) \o step.out \in Seq(Sentence)
        /\ Queued(t) \o step.out = voiced[t] \o now[t] \o (Waiting(t) \o step.out)
    BY <1>6, QueuedIs
  <2>2. RemoveFirst(queue'[t], End) = queue'[t]
    BY <1>8, <2>1, WithoutEnd
  <2>3. Waiting(t)' = queue'[t]
    BY <2>2 DEF Waiting
  <2>4. Queued(t)' = voiced'[t] \o now'[t] \o Waiting(t)'
    BY DEF Queued
  <2>5. voiced' = voiced /\ now' = now
    BY <1>1
  <2> QED BY <1>8, <2>1, <2>3, <2>4, <2>5
<1>10. TextTypes'
  <2>1. queue'[t] \in Seq(Seq(Char))
    BY <1>9, SeqMonotonic DEF Sentence
  <2>2. queue' \in [Speech -> Seq(Seq(Char))]
    BY <1>3, <2>1 DEF TextTypes
  <2>3. chunker' \in [Speech -> [buf : Seq(Char), done : Seq(Char)]] /\ fed' \in [Speech -> Nat]
    BY <1>3, <1>4, <1>6 DEF TextTypes, Texts
  <2> QED BY <1>1, <2>2, <2>3 DEF TextTypes
<1>11. \A u \in Speech \ {t} : Same(u)
  BY <1>1, <1>8 DEF Same, SameText
<1>12. (Saying(t))'
  <2>1. IsPrefix(Queued(t)', Sentences(reply[t]))
    <3>1. Queued(t)' \in Seq(Sentence)
      BY <1>6, <1>9, QueuedIs
    <3> QED BY <1>4, <1>7, <1>9, <3>1, ChunkedIsPrefix
  <2>2. task'[t] = "feeding" /\ reply'[t] = reply[t] /\ to <= Len(reply[t])
    BY <1>1, <1>4
  <2> QED BY <1>7, <1>8, <1>9, <2>1, <2>2 DEF Saying
<1>13. (Carrying(t))'
  BY <1>1 DEF Carrying, Unsent, Bytes, Wire!Closed
<1> QED BY <1>10, <1>11, <1>12, <1>13 DEF Owed

(* finish() flushes the chunker: the queue has all of the reply.           *)
LEMMA FinishOwes ==
    ASSUME IInv, TextTypes, NEW t \in Speech, Saying(t), Carrying(t), Finish(t)
    PROVE  Owed(t)
<1>1. /\ task[t] = "feeding" /\ fed[t] = Len(reply[t])
      /\ UNCHANGED <<fed, reply, worker, now, left, carry, heard, opened, seq, sent, voiced,
                     received, up, response>>
      /\ task' = [task EXCEPT ![t] = "finishing"]
      /\ queue' = [queue EXCEPT ![t] = @ \o Flush(chunker[t]) \o <<End>>]
      /\ chunker' = [chunker EXCEPT ![t] = Fresh]
  BY DEF Finish, startVars, audioVars
<1> DEFINE rest == Flush(chunker[t])
<1>2. rest \in Seq(Sentence) /\ Queued(t) \o rest = Sentences(reply[t])
  <2>1. reply[t] \in Texts /\ chunker[t] \in [buf : Texts, done : Texts] /\ Queued(t) \in Seq(Sentence)
    BY QueuedIs DEF TextTypes, Texts
  <2>2. Chunked(reply[t], Len(reply[t]), chunker[t], Queued(t))
    BY <1>1 DEF Saying
  <2> QED BY <2>1, <2>2, FlushCompletes
<1> HIDE DEF rest
<1> DEFINE w == Waiting(t) \o rest
<1>3. w \in Seq(Sentence) /\ Queued(t) \o rest = voiced[t] \o now[t] \o w
  BY <1>2, QueuedIs
<1>4. queue[t] = Waiting(t)
  BY <1>1 DEF Saying
<1>5. queue'[t] = w \o <<End>>
  BY <1>1, <1>4 DEF TextTypes, rest
<1> HIDE DEF w
<1>6. w \in Seq(Texts) /\ End \in Texts
  BY <1>3, SeqMonotonic DEF Sentence, Texts, End
<1>7. queue'[t] = Append(w, End) /\ queue'[t] \in Seq(Texts)
  BY <1>5, <1>6, AppendIsConcat, AppendProperties
<1>8. Waiting(t)' = w
  <2>1. RemoveFirst(Append(w, End), End) = w
    BY <1>3, WithoutEnd
  <2> QED BY <1>7, <2>1 DEF Waiting
<1>9. Queued(t)' = Sentences(reply[t])
  BY <1>1, <1>2, <1>3, <1>8 DEF Queued
<1>10. Sentences(reply[t]) \in Seq(Sentence) /\ IsPrefix(Sentences(reply[t]), Sentences(reply[t]))
  <2>1. Sentences(reply[t]) \in Seq(Sentence)
    BY <1>2, QueuedIs
  <2> DEFINE s == Sentences(reply[t])
  <2>2. Len(s) \in Nat
    BY <2>1
  <2> HIDE DEF s
  <2>3. IsPrefix(s, s)
    BY <2>2 DEF IsPrefix
  <2> QED BY <2>1, <2>3 DEF s
<1>11. task'[t] = "finishing" /\ reply' = reply
  BY <1>1 DEF IInv, StreamTypes
<1>12. (Saying(t))'
  BY <1>3, <1>7, <1>8, <1>9, <1>10, <1>11 DEF Saying
<1>13. TextTypes'
  <2>1. queue' \in [Speech -> Seq(Texts)]
    <3>1. queue \in [Speech -> Seq(Texts)]
      BY DEF TextTypes, Texts
    <3>2. queue' = [queue EXCEPT ![t] = queue'[t]]
      BY <1>1, <3>1
    <3> QED BY <1>7, <3>1, <3>2
  <2>2. Fresh \in [buf : Seq(Char), done : Seq(Char)]
    BY DEF Fresh
  <2>3. chunker' \in [Speech -> [buf : Seq(Char), done : Seq(Char)]]
    BY <1>1, <2>2 DEF TextTypes
  <2> QED BY <1>1, <2>1, <2>3 DEF TextTypes, Texts
<1>14. \A u \in Speech \ {t} : Same(u)
  BY <1>1 DEF Same, SameText, IInv, StreamTypes, TextTypes
<1>15. (Carrying(t))'
  BY <1>1, <1>11 DEF Carrying, Unsent, Bytes, Wire!Closed
<1> QED BY <1>12, <1>13, <1>14, <1>15 DEF Owed

(* Cancelling and returning leave the text and the worker alone.           *)
LEMMA ReturnOwes ==
    ASSUME IInv, TextTypes, NEW t \in Speech, Saying(t), Carrying(t), Cancel(t) \/ TaskResumes(t)
    PROVE  Owed(t)
<1>1. /\ UNCHANGED <<fed, reply, chunker, queue, worker, now, left, carry, heard, opened, seq, sent,
                     voiced, received, up, response>>
      /\ \A u \in Speech \ {t} : task'[u] = task[u]
  BY DEF Cancel, TaskResumes, startVars, audioVars, IInv, StreamTypes
<1>2. /\ task'[t] \in {"cancelling", "failed", "done", "cancelled"}
      /\ task'[t] = "done" => task[t] = "finishing" /\ worker[t] = "ended"
      /\ worker[t] = "cancelled" => task'[t] \in {"cancelling", "cancelled"}
      /\ worker[t] # "none"
  BY DEF Cancel, TaskResumes, Joined, Carrying, Dead, IInv, StreamTypes
<1>3. TextTypes' /\ \A u \in Speech \ {t} : Same(u)
  BY <1>1 DEF TextTypes, Same, SameText
<1>4. (Saying(t))'
  BY <1>1, <1>2 DEF Saying, Queued, Waiting
<1>5. (Carrying(t))'
  BY <1>1, <1>2 DEF Carrying, Unsent, Bytes, Wire!Closed
<1> QED BY <1>3, <1>4, <1>5 DEF Owed

-----------------------------------------------------------------------------
(* The worker.                                                             *)

(* One message more, in bytes.                                             *)
LEMMA BytesSent ==
    ASSUME StreamTypes, NEW t \in Speech
    PROVE  /\ Bytes(2 * t) \in Nat
           /\ \A m \in Message : sent' = [sent EXCEPT ![2 * t] = Append(@, m)] =>
                 Bytes(2 * t)' = Bytes(2 * t) + SizeOf(m)
<1>1. 2 * t \in Stream /\ sent \in [Stream -> Seq(Message)]
  BY StreamsDiffer DEF StreamTypes
<1>2. sent[2 * t] \in Seq(Message)
  BY <1>1
<1>3. Bytes(2 * t) \in Nat
  BY <1>2, TotalGrows DEF Bytes
<1>4. ASSUME NEW m \in Message, sent' = [sent EXCEPT ![2 * t] = Append(@, m)]
      PROVE  Bytes(2 * t)' = Bytes(2 * t) + SizeOf(m)
  <2>1. sent'[2 * t] = Append(sent[2 * t], m)
    BY <1>1, <1>4
  <2> QED BY <1>2, <2>1, TotalGrows DEF Bytes
<1> QED BY <1>3, <1>4

(* A frame counts with its size, a meta does not.                          *)
LEMMA SizesSent ==
    /\ \A last \in BOOLEAN : Wire!Meta(last) \in Message /\ SizeOf(Wire!Meta(last)) = 0
    /\ \A n, size \in Nat : Wire!Frame(n, size) \in Message /\ SizeOf(Wire!Frame(n, size)) = size
BY DEF Wire!Meta, Wire!Frame, Message, SizeOf

(* A slice moves bytes from what is left to what was sent.                 *)
LEMMA SliceMoves ==
    ASSUME StreamTypes, NEW t \in Speech, id[t] = 2 * t,
           NEW n \in Nat, NEW bytes \in Nat, Slice(t, n, bytes)
    PROVE  /\ Bytes(2 * t)' + left'[t] = Bytes(2 * t) + bytes
           /\ left'[t] \in Nat /\ Bytes(2 * t)' \in Nat
           /\ \A u \in Speech \ {t} : sent'[2 * u] = sent[2 * u] /\ left'[u] = left[u]
<1> DEFINE size == IF bytes <= FrameBytes THEN bytes ELSE FrameBytes
           m == Wire!Frame(n, size)
<1>1. size \in Nat /\ bytes - size \in Nat
  BY SpeechAssumption
<1>2. left' = [left EXCEPT ![t] = bytes - size] /\ sent' = [sent EXCEPT ![2 * t] = Append(@, m)]
  BY DEF Slice
<1> HIDE DEF size
<1>3. m \in Message /\ SizeOf(m) = size
  BY <1>1, SizesSent
<1> HIDE DEF m
<1>4. Bytes(2 * t)' = Bytes(2 * t) + size /\ Bytes(2 * t) \in Nat
  BY <1>2, <1>3, BytesSent
<1>5. left'[t] = bytes - size /\ \A u \in Speech \ {t} : left'[u] = left[u]
  BY <1>2 DEF StreamTypes
<1>6. \A u \in Speech \ {t} : sent'[2 * u] = sent[2 * u]
  BY <1>2, <1>3, Sending
<1>7. PICK b \in Nat : b = Bytes(2 * t)
  BY <1>4
<1>8. PICK c \in Nat : c = Bytes(2 * t)' /\ c = b + size
  BY <1>1, <1>4, <1>7
<1>9. c + (bytes - size) = b + bytes
  BY <1>1, <1>8
<1> QED BY <1>1, <1>5, <1>6, <1>7, <1>8, <1>9

(* A worker at work has the id of its speech.                              *)
LEMMA AtWorkOwn ==
    ASSUME IInv, NEW t \in Speech, worker[t] \notin Dead
    PROVE  StreamTypes /\ id[t] = 2 * t /\ task[t] # "none"
BY AtWork DEF IInv

(* A sentence moves from the queue to the hand; at the end of the queue    *)
(* there is none left.                                                     *)
LEMMA GetOwes ==
    ASSUME IInv, TextTypes, NEW t \in Speech, Saying(t), Carrying(t), Get(t)
    PROVE  Owed(t)
<1>1. /\ worker[t] = "get" /\ worker[t] \notin Dead /\ task[t] # "cancelling" /\ queue[t] # <<>>
      /\ UNCHANGED <<task, fed, reply, chunker, left, carry, heard, opened, seq,
                     voiced, received, up, response>>
      /\ queue' = [queue EXCEPT ![t] = Tail(@)]
  BY DEF Get, At, Dead, startVars, turnVars, audioVars
<1>2. /\ StreamTypes /\ id[t] = 2 * t /\ task[t] # "none"
      /\ now[t] = <<>> /\ carry[t] = 0 /\ heard[t] = 0
      /\ Bytes(2 * t) = received[t] /\ Bytes(2 * t) \in Nat
  <2>1. Bytes(2 * t) + 0 + 0 = received[t] /\ now[t] = <<>> /\ carry[t] = 0 /\ heard[t] = 0
    BY <1>1 DEF Carrying, Unsent
  <2>2. StreamTypes /\ id[t] = 2 * t /\ task[t] # "none"
    BY <1>1, AtWorkOwn
  <2>3. Bytes(2 * t) \in Nat
    BY <2>2, BytesSent
  <2> QED BY <2>1, <2>2, <2>3
<1> DEFINE w == Waiting(t)
<1>3. w \in Seq(Sentence) /\ queue[t] \in {w, Append(w, End)} /\ End \notin Sentence
  BY WithoutEnd DEF Saying
<1>4. /\ queue'[t] = Tail(queue[t]) /\ \A u \in Speech \ {t} : queue'[u] = queue[u]
      /\ queue' \in [Speech -> Seq(Seq(Char))]
  BY <1>1 DEF TextTypes
<1>5. CASE Head(queue[t]) = End
  <2>1. w = <<>> /\ queue[t] = <<End>> /\ queue'[t] = <<>>
    <3> HIDE DEF w
    <3>1. ASSUME w # <<>> PROVE FALSE
      <4>1. Head(w) \in Sentence
        BY <1>3, <3>1
      <4>2. Head(queue[t]) = Head(w)
        <5>1. Head(Append(w, End)) = Head(w)
          BY <1>3, <3>1, HeadTailAppend
        <5> QED BY <1>3, <5>1
      <4> QED BY <1>3, <1>5, <4>1, <4>2
    <3>2. w = <<>>
      BY <3>1
    <3>3. queue[t] = <<End>>
      BY <1>1, <1>3, <3>2
    <3> QED BY <1>4, <3>2, <3>3
  <2>2. now' = now /\ CloseStream(t)
    BY <1>5 DEF Get
  <2>3. Waiting(t)' = <<>> /\ <<>> \in Seq(Sentence)
    <3>1. <<>> \in Seq(Sentence)
      OBVIOUS
    <3> QED BY <2>1, <3>1, WithoutEnd DEF Waiting
  <2>4. Queued(t)' = Queued(t)
    <3>1. Waiting(t) = <<>>
      BY <2>1
    <3> QED BY <1>1, <2>2, <2>3, <3>1 DEF Queued
  <2>5. task[t] # "feeding"
    <3>1. queue[t] # w
      BY <2>1
    <3> QED BY <3>1 DEF Saying
  <2>6. (Saying(t))'
    BY <1>1, <1>2, <2>1, <2>3, <2>4, <2>5 DEF Saying
  <2>7. TextTypes'
    BY <1>1, <1>4, <2>2 DEF TextTypes
  <2>8. CASE opened[t]
    <3>1. /\ sent' = [sent EXCEPT ![2 * t] = Append(@, Wire!Meta(TRUE))]
          /\ worker' = [worker EXCEPT ![t] = "closing"]
      BY <1>2, <2>2, <2>8 DEF CloseStream, SendMeta, Goto
    <3>2. worker'[t] = "closing" /\ \A u \in Speech \ {t} : worker'[u] = worker[u]
      BY <1>2, <3>1 DEF StreamTypes
    <3> DEFINE m == Wire!Meta(TRUE)
    <3>3. m \in Message /\ SizeOf(m) = 0
      BY SizesSent
    <3>4. Bytes(2 * t)' = Bytes(2 * t) + 0
      <4> HIDE DEF m
      <4>1. sent' = [sent EXCEPT ![2 * t] = Append(@, m)]
        BY <3>1 DEF m
      <4> QED BY <1>2, <3>3, <4>1, BytesSent
    <3>5. \A u \in Speech \ {t} : sent'[2 * u] = sent[2 * u]
      <4> HIDE DEF m
      <4>1. sent' = [sent EXCEPT ![2 * t] = Append(@, m)]
        BY <3>1 DEF m
      <4> QED BY <1>2, <3>3, <4>1, Sending
    <3>6. (Wire!Closed(2 * t))'
      <4>1. sent[2 * t] \in Seq(Message) /\ sent'[2 * t] = Append(sent[2 * t], m)
        BY <1>2, <3>1, StreamsDiffer DEF StreamTypes
      <4>2. \A s \in Seq(Message), x \in Message : Append(s, x)[Len(Append(s, x))] = x
        OBVIOUS
      <4>3. Append(sent[2 * t], m)[Len(Append(sent[2 * t], m))] = m
        <5> HIDE DEF m
        <5> QED BY <3>3, <4>1, <4>2
      <4> QED BY <4>1, <4>3 DEF Wire!Closed
    <3>7. \A u \in Speech \ {t} : Same(u)
      BY <1>1, <1>4, <2>2, <3>2, <3>5 DEF Same, SameText
    <3>8. (Carrying(t))'
      <4>1. Bytes(2 * t)' + 0 + 0 = received[t]
        BY <1>2, <3>4
      <4> QED BY <1>1, <1>2, <2>1, <2>2, <2>5, <3>2, <3>6, <4>1 DEF Carrying, Unsent
    <3> QED BY <2>6, <2>7, <3>7, <3>8 DEF Owed
  <2>9. CASE ~opened[t]
    <3>1. sent' = sent /\ worker' = [worker EXCEPT ![t] = "ended"]
      BY <2>2, <2>9 DEF CloseStream, Goto
    <3>2. worker'[t] = "ended" /\ \A u \in Speech \ {t} : worker'[u] = worker[u]
      BY <1>2, <3>1 DEF StreamTypes
    <3>3. \A u \in Speech \ {t} : Same(u)
      BY <1>1, <1>4, <2>2, <3>1, <3>2 DEF Same, SameText
    <3>4. (Carrying(t))'
      <4>1. Bytes(2 * t)' + 0 + 0 = received[t]
        BY <1>2, <3>1 DEF Bytes
      <4> QED BY <1>1, <1>2, <2>1, <2>2, <2>5, <2>9, <3>2, <4>1 DEF Carrying, Unsent
    <3> QED BY <2>6, <2>7, <3>3, <3>4 DEF Owed
  <2> QED BY <2>8, <2>9
<1>6. CASE Head(queue[t]) # End
  <2>1. /\ now' = [now EXCEPT ![t] = <<Head(queue[t])>>]
        /\ worker' = [worker EXCEPT ![t] = "synth"]
        /\ sent' = sent
    BY <1>6 DEF Get, Goto
  <2> DEFINE h == Head(queue[t])
  <2>2. /\ w # <<>> /\ h = Head(w) /\ h \in Sentence /\ Tail(w) \in Seq(Sentence)
        /\ queue'[t] \in {Tail(w), Append(Tail(w), End)} /\ (queue[t] = w => queue'[t] = Tail(w))
    <3> HIDE DEF w
    <3>1. ASSUME w = <<>> PROVE FALSE
      <4>1. queue[t] = <<End>>
        BY <1>1, <1>3, <3>1
      <4> QED BY <1>6, <4>1
    <3>2. Head(w) \in Sentence /\ Tail(w) \in Seq(Sentence)
      BY <1>3, <3>1
    <3>3. Head(Append(w, End)) = Head(w) /\ Tail(Append(w, End)) = Append(Tail(w), End)
      BY <1>3, <3>1, HeadTailAppend
    <3> QED BY <1>3, <1>4, <3>1, <3>2, <3>3
  <2> HIDE DEF h
  <2>3. Waiting(t)' = Tail(w)
    BY <2>2, WithoutEnd DEF Waiting
  <2>4. now'[t] = <<h>> /\ \A u \in Speech \ {t} : now'[u] = now[u]
    BY <2>1 DEF TextTypes, h
  <2>5. <<h>> \in Seq(Sentence) /\ <<h>> \o Tail(w) = w
    <3> HIDE DEF w
    <3>1. <<h>> \in Seq(Sentence)
      <4> HIDE DEF h
      <4> DEFINE S == Sentence
      <4> HIDE DEF S
      <4>1. h \in S
        BY <2>2 DEF S
      <4>2. <<h>> \in Seq(S)
        BY <4>1
      <4> QED BY <4>2 DEF S
    <3>2. w = <<w[1]>> \o Tail(w)
      <4>1. 1 \in 1..Len(w) /\ Len(w) \in 1..Len(w)
        BY <1>3, <2>2
      <4>2. SubSeq(w, 1, Len(w)) = <<w[1]>> \o SubSeq(w, 1 + 1, Len(w))
        BY <1>3, <4>1, SubSeqRecursiveFirst
      <4>3. SubSeq(w, 1, Len(w)) = w /\ Tail(w) = SubSeq(w, 2, Len(w))
        BY <1>3, <2>2, SubSeqFull, TailIsSubSeq
      <4> QED BY <4>2, <4>3
    <3>3. Head(w) = w[1]
      BY <1>3, <2>2
    <3> QED BY <2>2, <3>1, <3>2, <3>3
  <2>6. Queued(t)' = Queued(t)
    <3>1. voiced[t] \in Seq(Sentence)
      BY DEF TextTypes
    <3>2. voiced[t] \o <<>> = voiced[t]
      BY <3>1, ConcatEmptySeq
    <3>3. (voiced[t] \o <<h>>) \o Tail(w) = voiced[t] \o (<<h>> \o Tail(w))
      BY <2>2, <2>5, <3>1, Associates
    <3> QED BY <1>1, <1>2, <2>3, <2>4, <2>5, <3>2, <3>3 DEF Queued
  <2>7. (Saying(t))'
    BY <1>1, <1>2, <2>2, <2>3, <2>6 DEF Saying
  <2>8. TextTypes'
    <3>1. now' \in [Speech -> Seq(Sentence)]
      BY <2>1, <2>5 DEF TextTypes, h
    <3> QED BY <1>1, <1>4, <3>1 DEF TextTypes
  <2>9. worker'[t] = "synth" /\ \A u \in Speech \ {t} : worker'[u] = worker[u]
    BY <1>2, <2>1 DEF StreamTypes
  <2>10. \A u \in Speech \ {t} : Same(u)
    BY <1>1, <1>4, <2>1, <2>4, <2>9 DEF Same, SameText
  <2>11. (Carrying(t))'
    <3>1. Bytes(2 * t)' + 0 + 0 = received[t]
      BY <1>2, <2>1 DEF Bytes
    <3> QED BY <1>1, <1>2, <2>9, <3>1 DEF Carrying, Unsent
  <2> QED BY <2>7, <2>8, <2>10, <2>11 DEF Owed
<1> QED BY <1>5, <1>6

(* The worker is at `place`, and the turn of t is not over.                *)
AtPlace(t, place) ==
    /\ worker[t] = place /\ task[t] # "cancelling"
    /\ StreamTypes /\ id[t] = 2 * t /\ task[t] # "none"
    /\ Bytes(2 * t) \in Nat /\ received[t] \in Nat /\ left[t] \in Nat /\ seq[t] \in Nat
    /\ carry[t] \in 0..1

(* What the worker finds there.                                            *)
LEMMA PlaceIs ==
    ASSUME IInv, TextTypes, NEW t \in Speech, NEW place, place \notin Dead, At(t, place)
    PROVE  AtPlace(t, place)
<1>1. worker[t] = place /\ task[t] # "cancelling" /\ worker[t] \notin Dead
  BY DEF At
<1>2. StreamTypes /\ id[t] = 2 * t /\ task[t] # "none"
  BY <1>1, AtWorkOwn
<1>3. Bytes(2 * t) \in Nat
  BY <1>2, BytesSent
<1> QED BY <1>1, <1>2, <1>3 DEF AtPlace, StreamTypes, TextTypes

(* A chunk is sent, left to be sent, or carried.                           *)
LEMMA AudioOwes ==
    ASSUME IInv, TextTypes, NEW t \in Speech, Saying(t), Carrying(t), NEW n \in Chunks, Audio(t, n)
    PROVE  Owed(t)
<1>1. AtPlace(t, "synth")
  BY PlaceIs DEF Audio, Synthesizing, Dead
<1> USE <1>1 DEF AtPlace
<1>2. PICK c \in Nat : c = carry[t]
  BY DEF AtPlace
<1>3. PICK k \in Nat : k = n
  BY SpeechAssumption
<1>4. PICK pcm \in Nat : pcm = Aligned(c + k) /\ (c + k) - pcm \in 0..1
  <2>1. c + k \in Nat
    OBVIOUS
  <2> QED BY <2>1, AlignedIsEven
<1>5. /\ heard' = [heard EXCEPT ![t] = @ + k]
      /\ received' = [received EXCEPT ![t] = @ + k]
      /\ carry' = [carry EXCEPT ![t] = (c + k) - pcm]
      /\ UNCHANGED <<task, reply, fed, chunker, queue, now, opened, voiced, up, response>>
  <2>1. carry[t] + n = c + k
    BY <1>2, <1>3
  <2>2. UNCHANGED <<task, reply, fed, chunker, queue, now, opened, voiced, up, response>>
    BY DEF Audio, startVars, turnVars
  <2>3. heard' = [heard EXCEPT ![t] = @ + n] /\ received' = [received EXCEPT ![t] = @ + n]
    BY DEF Audio
  <2>4. carry' = [carry EXCEPT ![t] = @ + n - Aligned(carry[t] + n)]
    BY DEF Audio
  <2>5. carry[t] + n - Aligned(carry[t] + n) = (c + k) - pcm
    <3>1. Aligned(carry[t] + n) = pcm
      BY <1>4, <2>1
    <3>2. c + k - pcm = (c + k) - pcm
      BY <1>4
    <3> QED BY <1>2, <1>3, <3>1, <3>2
  <2>6. carry' = [carry EXCEPT ![t] = (c + k) - pcm]
    BY <2>4, <2>5
  <2> QED BY <1>3, <2>2, <2>3, <2>6
<1>6. PICK h \in Nat : h = heard[t]
  BY DEF TextTypes
<1>7. PICK b \in Nat, got \in Nat : b = Bytes(2 * t) /\ got = received[t] /\ b + c = got
  <2>1. Bytes(2 * t) + 0 + carry[t] = received[t]
    BY DEF Carrying, Unsent
  <2> QED BY <1>2, <2>1
<1>8. /\ heard'[t] = h + k /\ received'[t] = got + k /\ carry'[t] = (c + k) - pcm
      /\ \A u \in Speech \ {t} :
            heard'[u] = heard[u] /\ received'[u] = received[u] /\ carry'[u] = carry[u]
  BY <1>5, <1>6, <1>7 DEF TextTypes, StreamTypes
<1>9. TextTypes'
  <2>1. h + k \in Nat /\ got + k \in Nat
    OBVIOUS
  <2>2. heard' \in [Speech -> Nat] /\ received' \in [Speech -> Nat]
    BY <1>5, <1>6, <1>7, <2>1 DEF TextTypes
  <2> QED BY <1>5, <2>2 DEF TextTypes
<1>10. (Saying(t))'
  BY <1>5, SameTextKeeps DEF SameText
<1>11. ~opened[t] => h = c
  BY <1>2, <1>6 DEF Carrying
<1>12. CASE pcm = 0 /\ UNCHANGED <<worker, left, sent>>
  <2>1. \A u \in Speech \ {t} : Same(u)
    BY <1>5, <1>8, <1>12 DEF Same, SameText
  <2>2. Bytes(2 * t)' = b /\ b + 0 + ((c + k) - pcm) = got + k /\ (h = c => h + k = (c + k) - pcm)
    BY <1>7, <1>12 DEF Bytes
  <2>3. (Carrying(t))'
    BY <1>5, <1>8, <1>11, <1>12, <2>2 DEF Carrying, Unsent
  <2> QED BY <1>9, <1>10, <2>1, <2>3 DEF Owed
<1>13. CASE /\ SendMeta(t, FALSE)
            /\ left' = [left EXCEPT ![t] = pcm]
            /\ worker' = [worker EXCEPT ![t] = "opening"]
  <2> DEFINE m == Wire!Meta(FALSE)
  <2>1. m \in Message /\ SizeOf(m) = 0
    BY SizesSent
  <2>2. sent' = [sent EXCEPT ![2 * t] = Append(@, m)]
    BY <1>13 DEF SendMeta
  <2> HIDE DEF m
  <2>3. Bytes(2 * t)' = Bytes(2 * t) + 0
    BY <2>1, <2>2, BytesSent
  <2>4. \A u \in Speech \ {t} : sent'[2 * u] = sent[2 * u]
    BY <2>1, <2>2, Sending
  <2>5. /\ left'[t] = pcm /\ worker'[t] = "opening"
        /\ \A u \in Speech \ {t} : left'[u] = left[u] /\ worker'[u] = worker[u]
    BY <1>13 DEF StreamTypes
  <2>6. \A u \in Speech \ {t} : Same(u)
    BY <1>5, <1>8, <2>4, <2>5 DEF Same, SameText
  <2>7. Bytes(2 * t)' = b /\ b + pcm + ((c + k) - pcm) = got + k
    BY <1>7, <2>3
  <2>8. (Carrying(t))'
    BY <1>5, <1>8, <2>5, <2>7 DEF Carrying, Unsent
  <2> QED BY <1>9, <1>10, <2>6, <2>8 DEF Owed
<1>14. CASE Slice(t, seq[t], pcm) /\ worker' = [worker EXCEPT ![t] = "framing"]
  <2>1. /\ Bytes(2 * t)' + left'[t] = b + pcm
        /\ left'[t] \in Nat /\ Bytes(2 * t)' \in Nat
        /\ \A u \in Speech \ {t} : sent'[2 * u] = sent[2 * u] /\ left'[u] = left[u]
    BY <1>7, <1>14, SliceMoves
  <2>2. worker'[t] = "framing" /\ \A u \in Speech \ {t} : worker'[u] = worker[u]
    BY <1>14 DEF StreamTypes
  <2>3. \A u \in Speech \ {t} : Same(u)
    BY <1>5, <1>8, <2>1, <2>2 DEF Same, SameText
  <2>4. Bytes(2 * t)' + left'[t] + ((c + k) - pcm) = got + k
    <3>1. PICK x \in Nat, y \in Nat : x = Bytes(2 * t)' /\ y = left'[t] /\ x + y = b + pcm
      BY <2>1
    <3>2. x + y + ((c + k) - pcm) = got + k
      BY <1>7, <3>1
    <3> QED BY <3>1, <3>2
  <2>5. (Carrying(t))'
    BY <1>5, <1>8, <2>2, <2>4 DEF Carrying, Unsent
  <2> QED BY <1>9, <1>10, <2>3, <2>5 DEF Owed
<1>15. \/ Aligned(carry[t] + n) = 0 /\ UNCHANGED <<worker, left, sent>>
       \/ /\ SendMeta(t, FALSE)
          /\ left' = [left EXCEPT ![t] = Aligned(carry[t] + n)]
          /\ worker' = [worker EXCEPT ![t] = "opening"]
       \/ Slice(t, seq[t], Aligned(carry[t] + n)) /\ worker' = [worker EXCEPT ![t] = "framing"]
  BY DEF Audio, Goto
<1> QED BY <1>2, <1>3, <1>4, <1>12, <1>13, <1>14, <1>15

(* The rest of a chunk, slice by slice.                                    *)
LEMMA SlicedOwes ==
    ASSUME IInv, TextTypes, NEW t \in Speech, Saying(t), Carrying(t),
           worker[t] \in {"opening", "framing"}, StreamTypes, id[t] = 2 * t,
           NEW n \in Nat, Slice(t, n, left[t]),
           UNCHANGED <<task, reply, fed, chunker, queue, now, carry, heard, voiced, received,
                       up, response>>,
           worker' = [worker EXCEPT ![t] = "framing"],
           opened'[t] = TRUE, \A u \in Speech \ {t} : opened'[u] = opened[u]
    PROVE  Owed(t)
<1>1. PICK l \in Nat : l = left[t]
  BY DEF StreamTypes
<1>2. /\ Bytes(2 * t)' + left'[t] = Bytes(2 * t) + l
      /\ \A u \in Speech \ {t} : sent'[2 * u] = sent[2 * u] /\ left'[u] = left[u]
  BY <1>1, SliceMoves
<1>3. Bytes(2 * t) + l + carry[t] = received[t]
  BY <1>1 DEF Carrying, Unsent
<1>4. worker'[t] = "framing" /\ \A u \in Speech \ {t} : worker'[u] = worker[u]
  BY DEF StreamTypes
<1>5. \A u \in Speech \ {t} : Same(u)
  BY <1>2, <1>4 DEF Same, SameText
<1>6. (Saying(t))'
  BY SameTextKeeps DEF SameText
<1>7. (Carrying(t))'
  BY <1>2, <1>3, <1>4 DEF Carrying, Unsent
<1>8. TextTypes'
  BY DEF TextTypes
<1> QED BY <1>5, <1>6, <1>7, <1>8 DEF Owed

(* The opening meta went out: the first slice follows.                     *)
LEMMA OpenedOwes ==
    ASSUME IInv, TextTypes, NEW t \in Speech, Saying(t), Carrying(t), Opened(t)
    PROVE  Owed(t)
<1>1. AtPlace(t, "opening")
  BY PlaceIs DEF Opened, Dead
<1>2. /\ UNCHANGED <<task, reply, fed, chunker, queue, now, carry, heard, voiced, received,
                     up, response>>
      /\ worker' = [worker EXCEPT ![t] = "framing"]
      /\ opened' = [opened EXCEPT ![t] = TRUE]
      /\ Slice(t, seq[t], left[t])
  BY DEF Opened, Goto, startVars, turnVars
<1>3. opened'[t] = TRUE /\ \A u \in Speech \ {t} : opened'[u] = opened[u]
  BY <1>1, <1>2 DEF AtPlace, StreamTypes
<1> QED BY <1>1, <1>2, <1>3, SlicedOwes DEF AtPlace

(* A frame went out: the next slice follows, or nothing is left.           *)
LEMMA FramedOwes ==
    ASSUME IInv, TextTypes, NEW t \in Speech, Saying(t), Carrying(t), Framed(t)
    PROVE  Owed(t)
<1>1. AtPlace(t, "framing")
  BY PlaceIs DEF Framed, Dead
<1>2. /\ UNCHANGED <<task, reply, fed, chunker, queue, now, carry, heard, opened, voiced, received,
                     up, response>>
      /\ seq' = [seq EXCEPT ![t] = @ + 1]
  BY DEF Framed, startVars, turnVars
<1>3. seq'[t] \in Nat /\ opened[t] = TRUE
  BY <1>1, <1>2 DEF AtPlace, IInv, StreamTypes, SentAsCounted
<1>4. CASE left[t] > 0 /\ Slice(t, seq'[t], left[t]) /\ UNCHANGED worker
  <2>1. worker' = [worker EXCEPT ![t] = "framing"]
    BY <1>1, <1>4 DEF AtPlace, StreamTypes
  <2>2. PICK k \in Nat : k = seq'[t]
    BY <1>3
  <2>3. Slice(t, k, left[t])
    BY <1>4, <2>2
  <2> QED BY <1>1, <1>2, <1>3, <2>1, <2>3, SlicedOwes DEF AtPlace
<1>5. CASE ~(left[t] > 0) /\ UNCHANGED <<sent, left>> /\ worker' = [worker EXCEPT ![t] = "synth"]
  <2>1. worker'[t] = "synth" /\ \A u \in Speech \ {t} : worker'[u] = worker[u]
    BY <1>1, <1>5 DEF AtPlace, StreamTypes
  <2>2. left[t] = 0
    BY <1>1, <1>5 DEF AtPlace
  <2>3. Bytes(2 * t) + 0 + carry[t] = received[t]
    BY <1>1, <2>2 DEF Carrying, Unsent, AtPlace
  <2>4. \A u \in Speech \ {t} : Same(u)
    BY <1>2, <1>5, <2>1 DEF Same, SameText
  <2>5. (Saying(t))'
    BY <1>2, SameTextKeeps DEF SameText
  <2>6. (Carrying(t))'
    BY <1>1, <1>2, <1>3, <1>5, <2>1, <2>3 DEF AtPlace, Carrying, Unsent, Bytes
  <2>7. TextTypes'
    BY <1>2 DEF TextTypes
  <2> QED BY <2>4, <2>5, <2>6, <2>7 DEF Owed
<1> QED BY <1>4, <1>5 DEF Framed, Goto

(* Steps that leave the text alone and end the work, or send nothing.      *)
LEMMA StopOwes ==
    ASSUME IInv, TextTypes, NEW t \in Speech, Saying(t), Carrying(t),
           Closed(t) \/ HttpFails(t) \/ WorkerKilled(t)
    PROVE  Owed(t)
<1>1. /\ UNCHANGED <<task, reply, fed, chunker, queue, now, left, carry, heard, opened, sent, voiced,
                     received, up, response>>
      /\ \/ worker[t] = "closing" /\ worker' = [worker EXCEPT ![t] = "ended"]
         \/ worker' = [worker EXCEPT ![t] = "failed"] /\ worker[t] = "synth"
         \/ task[t] = "cancelling" /\ worker' = [worker EXCEPT ![t] = "cancelled"]
  BY DEF Closed, HttpFails, WorkerKilled, Synthesizing, At, Goto, startVars, turnVars, audioVars
<1>2. /\ \/ worker[t] = "closing" /\ worker'[t] = "ended"
         \/ worker'[t] = "failed" /\ worker[t] = "synth"
         \/ task[t] = "cancelling" /\ worker'[t] = "cancelled"
      /\ \A u \in Speech \ {t} : worker'[u] = worker[u]
  BY <1>1 DEF IInv, StreamTypes
<1>3. TextTypes' /\ \A u \in Speech \ {t} : Same(u)
  BY <1>1, <1>2 DEF TextTypes, Same, SameText
<1>4. (Saying(t))'
  BY <1>1, SameTextKeeps DEF SameText
<1>5. (Wire!Closed(2 * t))' <=> Wire!Closed(2 * t)
  BY <1>1, ClosedStays
<1>6. (Carrying(t))'
  <2>1. task'[t] = task[t] /\ task[t] = "done" => worker[t] = "ended"
    BY <1>1 DEF Carrying
  <2> QED BY <1>1, <1>2, <1>5, <2>1 DEF Carrying, Unsent, Bytes
<1> QED BY <1>3, <1>4, <1>6 DEF Owed

(* What was synthesized to its end moves to what is voiced.                *)
LEMMA AudioEndsOwes ==
    ASSUME IInv, TextTypes, NEW t \in Speech, Saying(t), Carrying(t), AudioEnds(t)
    PROVE  Owed(t)
<1>1. AtPlace(t, "synth")
  BY PlaceIs DEF AudioEnds, Synthesizing, Dead
<1>2. /\ UNCHANGED <<task, reply, fed, chunker, queue, left, opened, sent, received, up, response>>
      /\ heard' = [heard EXCEPT ![t] = 0] /\ carry' = [carry EXCEPT ![t] = 0]
  BY DEF AudioEnds, startVars, turnVars
<1>3. /\ heard'[t] = 0 /\ carry'[t] = 0
      /\ \A u \in Speech \ {t} : heard'[u] = heard[u] /\ carry'[u] = carry[u]
      /\ heard' \in [Speech -> Nat]
  BY <1>1, <1>2 DEF AtPlace, StreamTypes, TextTypes
<1>4. task[t] # "done"
  BY <1>1 DEF AtPlace, Carrying
<1>5. CASE Complete(t)
  <2>1. /\ voiced' = [voiced EXCEPT ![t] = @ \o now[t]]
        /\ now' = [now EXCEPT ![t] = <<>>]
        /\ worker' = [worker EXCEPT ![t] = "get"]
    BY <1>5 DEF AudioEnds, Goto
  <2>2. /\ voiced'[t] = voiced[t] \o now[t] /\ now'[t] = <<>> /\ worker'[t] = "get"
        /\ \A u \in Speech \ {t} :
              voiced'[u] = voiced[u] /\ now'[u] = now[u] /\ worker'[u] = worker[u]
    BY <1>1, <2>1 DEF AtPlace, StreamTypes, TextTypes
  <2>3. /\ voiced[t] \o now[t] \in Seq(Sentence) /\ <<>> \in Seq(Sentence)
        /\ (voiced[t] \o now[t]) \o <<>> = voiced[t] \o now[t]
    <3>1. voiced[t] \in Seq(Sentence) /\ now[t] \in Seq(Sentence)
      BY DEF TextTypes
    <3>2. voiced[t] \o now[t] \in Seq(Sentence)
      BY <3>1, ConcatProperties
    <3>3. <<>> \in Seq(Sentence)
      OBVIOUS
    <3> QED BY <3>2, <3>3, ConcatEmptySeq
  <2>4. Queued(t)' = Queued(t) /\ Waiting(t)' = Waiting(t)
    BY <1>2, <2>2, <2>3 DEF Queued, Waiting
  <2>5. (Saying(t))'
    BY <1>1, <1>2, <2>4 DEF Saying, AtPlace
  <2>6. TextTypes'
    <3>1. voiced' \in [Speech -> Seq(Sentence)] /\ now' \in [Speech -> Seq(Sentence)]
      BY <2>1, <2>3 DEF TextTypes
    <3> QED BY <1>2, <1>3, <3>1 DEF TextTypes
  <2>7. \A u \in Speech \ {t} : Same(u)
    BY <1>2, <1>3, <2>2 DEF Same, SameText
  <2>8. opened[t] /\ carry[t] = 0
    <3>1. heard[t] >= 2 /\ carry[t] = 0
      BY <1>5 DEF Complete
    <3>2. ~opened[t] => heard[t] = 0
      BY <1>1, <3>1 DEF AtPlace, Carrying
    <3> QED BY <3>1, <3>2
  <2>9. Bytes(2 * t)' + 0 + 0 = received[t]
    BY <1>1, <1>2, <2>8 DEF AtPlace, Carrying, Unsent, Bytes
  <2>10. (Carrying(t))'
    BY <1>1, <1>2, <1>3, <1>4, <2>2, <2>8, <2>9 DEF AtPlace, Carrying, Unsent
  <2> QED BY <2>5, <2>6, <2>7, <2>10 DEF Owed
<1>6. CASE ~Complete(t)
  <2>1. UNCHANGED <<voiced, now>> /\ worker' = [worker EXCEPT ![t] = "failed"]
    BY <1>6 DEF AudioEnds, Goto
  <2>2. worker'[t] = "failed" /\ \A u \in Speech \ {t} : worker'[u] = worker[u]
    BY <1>1, <2>1 DEF AtPlace, StreamTypes
  <2>3. (Saying(t))'
    BY <1>2, <2>1, SameTextKeeps DEF SameText
  <2>4. (Carrying(t))'
    BY <1>2, <1>4, <2>1, <2>2 DEF Carrying
  <2>5. TextTypes' /\ \A u \in Speech \ {t} : Same(u)
    BY <1>2, <1>3, <2>1, <2>2 DEF TextTypes, Same, SameText
  <2> QED BY <2>3, <2>4, <2>5 DEF Owed
<1> QED BY <1>5, <1>6

(* Steps that touch no speech.                                             *)
LEMMA RestKeeps ==
    ASSUME Spoken, TextTypes,
           UNCHANGED vars \/ Probe \/ Unreachable \/ \E t \in Speech : Finalized(t)
    PROVE  Spoken' /\ TextTypes'
<1>1. /\ UNCHANGED <<task, reply, fed, chunker, queue, worker, now, left, carry, heard, opened, sent,
                     voiced, received>>
      /\ UNCHANGED <<up, response>> \/ up' # "probing"
  BY DEF vars, Probe, Unreachable, Finalized, startVars, turnVars, audioVars
<1>2. TextTypes'
  BY <1>1 DEF TextTypes
<1>3. \A u \in Speech : Same(u)
  BY <1>1 DEF Same, SameText
<1>4. \A u \in Speech : (Saying(u))' /\ (Carrying(u))'
  BY <1>3, SpokenSpeechBySpeech, SameKeeps
<1>5. Spoken'
  BY <1>4 DEF Spoken, EndIsLast, ChunkedAsFed, SentencesAsWritten, InStep, InHand,
              BytesCounted, Saying, Carrying
<1> QED BY <1>2, <1>5

-----------------------------------------------------------------------------
(* Startup.                                                                *)

(* The probe serves the rate of the response, or refuses it.               *)
LEMMA ProbeFinds ==
    ASSUME TextTypes, Probe
    PROVE  /\ rate' \in Nat
           /\ up' = "up" => rate' = Announced(response) /\ rate' # NoRate
           /\ up' = "refused" => Announced(response) = NoRate
           /\ up' \in {"up", "refused"}
<1>1. response \in Response
  BY SpeechAssumption DEF TextTypes, Probe
<1> QED BY <1>1, FindsTheFormat DEF Probe

(* The types, beyond those of the streams and the texts.                   *)
LEMMA TypesKept ==
    ASSUME TypeOK, TextTypes, [Next]_vars, IInv', TextTypes'
    PROVE  TypeOK'
<1>1. up' \in {"probing", "up", "down", "refused"} /\ rate' \in Nat
  <2>1. CASE Probe
    BY <2>1, ProbeFinds
  <2>2. CASE Unreachable
    BY <2>2 DEF Unreachable, TypeOK
  <2>3. CASE UNCHANGED <<up, rate>>
    BY <2>3 DEF TypeOK
  <2> QED BY <2>1, <2>2, <2>3 DEF Next, WorkerStep, Server, vars, startVars, Start, FeedDelta, Finish,
                  Cancel, TaskResumes, Get, Audio, Opened, Framed, Closed, AudioEnds, HttpFails,
                  WorkerKilled, Finalized
<1>2. heard' \in [Speech -> 0..MaxAudio]
  <2>1. CASE heard' = heard
    BY <2>1 DEF TypeOK
  <2>2. ASSUME NEW t \in Speech, NEW n \in Chunks, Audio(t, n) PROVE heard' \in [Speech -> 0..MaxAudio]
    <3>1. PICK h \in 0..MaxAudio : h = heard[t]
      BY DEF TypeOK
    <3>2. PICK k \in Nat : k = n
      BY SpeechAssumption
    <3>3. heard' = [heard EXCEPT ![t] = h + k] /\ h + k <= MaxAudio
      BY <2>2, <3>1, <3>2 DEF Audio
    <3>4. h + k \in 0..MaxAudio
      BY <3>3, SpeechAssumption
    <3> QED BY <3>3, <3>4 DEF TypeOK
  <2>3. ASSUME NEW t \in Speech, AudioEnds(t) PROVE heard' \in [Speech -> 0..MaxAudio]
    <3>1. 0 \in 0..MaxAudio
      BY SpeechAssumption
    <3> QED BY <2>3, <3>1 DEF AudioEnds, TypeOK
  <2> QED BY <2>1, <2>2, <2>3 DEF Next, WorkerStep, Server, vars, audioVars, Start, FeedDelta, Finish,
                  Cancel, TaskResumes, Get, Opened, Framed, Closed, HttpFails,
                  WorkerKilled, Finalized, Probe, Unreachable
<1>3. line' \in Seq(Speech)
  <2>1. line \in Seq(Speech)
    BY DEF TypeOK
  <2>2. CASE line' = line
    BY <2>1, <2>2
  <2>3. ASSUME NEW t \in Speech, Get(t) PROVE line' \in Seq(Speech)
    <3>1. line' = line \/ line' = Append(line, t)
      BY <2>3 DEF Get
    <3> QED BY <2>1, <3>1, AppendProperties
  <2>4. ASSUME NEW t \in Speech, AudioEnds(t) \/ HttpFails(t) PROVE line' \in Seq(Speech)
    <3>1. line # <<>> /\ line' = Tail(line)
      BY <2>4 DEF AudioEnds, HttpFails, Synthesizing
    <3> QED BY <2>1, <3>1, HeadTailProperties
  <2>5. ASSUME NEW t \in Speech, WorkerKilled(t) \/ Finalized(t) PROVE line' \in Seq(Speech)
    <3>1. line' = line \/ line' = RemoveFirst(line, t)
      BY <2>5 DEF WorkerKilled, Finalized, Unlocked
    <3> QED BY <2>1, <3>1, RemovedIsSeq
  <2> QED BY <2>2, <2>3, <2>4, <2>5 DEF Next, WorkerStep, Server, vars, Start, FeedDelta, Finish,
                  Cancel, TaskResumes, Audio, Opened, Framed, Closed, Probe, Unreachable
<1>4. id' \in [Speech -> Stream \cup {None}]
  <2>1. CASE id' = id
    BY <2>1 DEF TypeOK
  <2>2. ASSUME NEW t \in Speech, Start(t) PROVE id' \in [Speech -> Stream \cup {None}]
    <3>1. id' = [id EXCEPT ![t] = streams'] /\ task' = [task EXCEPT ![t] = "feeding"]
      BY <2>2 DEF Start
    <3>2. task'[t] = "feeding" /\ id'[t] = streams'
      BY <3>1 DEF TypeOK
    <3>3. id'[t] = 2 * t
      BY <3>2 DEF IInv, OwnId
    <3>4. streams' \in Stream
      BY <3>2, <3>3, StreamsDiffer
    <3> QED BY <3>1, <3>4 DEF TypeOK
  <2> QED BY <2>1, <2>2 DEF Next, WorkerStep, Server, vars, streamVars, FeedDelta, Finish,
                  Cancel, TaskResumes, Get, Audio, Opened, Framed, Closed, AudioEnds, HttpFails,
                  WorkerKilled, Finalized, Probe, Unreachable
<1>5. streams' \in {2 * n : n \in 0..MaxSpeeches}
  BY DEF IInv, IdsInOrder
<1> QED BY <1>1, <1>2, <1>3, <1>4, <1>5 DEF TypeOK, IInv, StreamTypes, TextTypes

(* At first nothing is said.                                               *)
LEMMA InitSays == Init => TypeOK /\ TextTypes /\ Spoken
<1> SUFFICES ASSUME Init PROVE TypeOK /\ TextTypes /\ Spoken
  OBVIOUS
<1>0. IInv /\ Wire!Init
  BY InitEstablishes
<1>1. TextTypes
  BY DEF Init, TextTypes, Fresh
<1>2. TypeOK
  <2>1. 0 \in 0..MaxAudio
    BY SpeechAssumption
  <2>2. streams \in {2 * n : n \in 0..MaxSpeeches}
    BY <1>0 DEF IInv, IdsInOrder
  <2>3. line \in Seq(Speech)
    BY DEF Init
  <2> QED BY <1>0, <1>1, <2>1, <2>2, <2>3 DEF Init, TypeOK, IInv, StreamTypes, TextTypes, NoRate
<1>3. ASSUME NEW t \in Speech PROVE Saying(t) /\ Carrying(t)
  <2>1. /\ task[t] = "none" /\ reply[t] = <<>> /\ fed[t] = 0 /\ chunker[t] = Fresh /\ queue[t] = <<>>
        /\ worker[t] = "none" /\ now[t] = <<>> /\ left[t] = 0 /\ carry[t] = 0 /\ heard[t] = 0
        /\ voiced[t] = <<>> /\ received[t] = 0 /\ sent[2 * t] = <<>>
    BY <1>0, StreamsDiffer DEF Init, Wire!Init
  <2>2. <<>> \in Seq(Sentence) /\ <<>> \in Texts
    BY DEF Texts
  <2>3. Waiting(t) = <<>>
    BY <2>1, <2>2, WithoutEnd DEF Waiting
  <2>4. Queued(t) = <<>>
    BY <2>1, <2>2, <2>3, ConcatEmptySeq DEF Queued
  <2>5. IsPrefix(<<>>, Sentences(<<>>))
    <3>1. Chunked(<<>>, 0, Fresh, <<>>)
      BY <2>2, FreshIsChunked
    <3>2. Len(<<>>) = 0 /\ 0 \in 0..0
      OBVIOUS
    <3>3. 0 \in 0..Len(<<>>)
      BY <3>2
    <3> QED BY <2>2, <3>1, <3>3, ChunkedIsPrefix
  <2>6. Bytes(2 * t) = 0
    BY <2>1, TotalGrows DEF Bytes
  <2>7. Saying(t)
    BY <2>1, <2>2, <2>3, <2>4, <2>5 DEF Saying
  <2>8. Carrying(t)
    BY <2>1, <2>6 DEF Carrying, Unsent
  <2> QED BY <2>7, <2>8
<1> QED BY <1>1, <1>2, <1>3, SpokenSpeechBySpeech

(* Every step is one of these.                                             *)
LEMMA StepSays ==
    ASSUME IInv, TextTypes, Spoken, [Next]_vars
    PROVE  TextTypes' /\ Spoken'
<1>1. \A t \in Speech : Saying(t) /\ Carrying(t)
  BY SpokenSpeechBySpeech
<1>2. CASE UNCHANGED vars \/ Probe \/ Unreachable \/ \E t \in Speech : Finalized(t)
  BY <1>2, RestKeeps
<1>3. ASSUME NEW t \in Speech, Owed(t) PROVE TextTypes' /\ Spoken'
  BY <1>3, OwedIsEnough DEF Owed
<1>4. ASSUME NEW t \in Speech,
             Start(t) \/ FeedDelta(t) \/ Finish(t) \/ Cancel(t) \/ TaskResumes(t)
      PROVE  Owed(t)
  BY <1>1, <1>4, StartOwes, FeedOwes, FinishOwes, ReturnOwes
<1>5. ASSUME NEW t \in Speech, WorkerStep(t), ~Finalized(t) PROVE Owed(t)
  BY <1>1, <1>5, GetOwes, OpenedOwes, FramedOwes, StopOwes DEF WorkerStep
<1>6. ASSUME NEW t \in Speech, Server(t) PROVE Owed(t)
  BY <1>1, <1>6, AudioOwes, AudioEndsOwes, StopOwes DEF Server
<1> QED BY <1>2, <1>3, <1>4, <1>5, <1>6 DEF Next

(* The inductive invariant.                                                *)
LEMMA VoiceHolds == Spec => [](TypeOK /\ IInv /\ TextTypes /\ Spoken)
<1>1. Init => TypeOK /\ IInv /\ TextTypes /\ Spoken
  BY InitSays, InitEstablishes
<1>2. TypeOK /\ IInv /\ TextTypes /\ Spoken /\ [Next]_vars => (TypeOK /\ IInv /\ TextTypes /\ Spoken)'
  BY StepKeeps, StepSays, TypesKept DEF Good
<1> QED BY <1>1, <1>2, PTL DEF Spec

(* At every moment the state of a speech is well-formed, its worker and    *)
(* its turn are in step, the chunker has kept up with what was fed, the    *)
(* queue ends only after the reply did, and every byte of the server is    *)
(* sent, left of a chunk, or carried to the next one.                      *)
THEOREM SpeechInvariantHolds == Spec => []SpeechInv
<1>1. TypeOK /\ IInv /\ TextTypes /\ Spoken => SpeechInv
  BY DEF Spoken, SpeechInv
<1> QED BY <1>1, VoiceHolds, PTL

(* However the deltas cut a reply, its sentences get into the queue as     *)
(* they are in the whole text, in order and each once, and all of them     *)
(* when the reply is complete; cancellation and failure take none back.    *)
THEOREM SentencesAsWrittenHolds == Spec => []SentencesAsWritten
<1>1. TypeOK /\ IInv /\ TextTypes /\ Spoken => SentencesAsWritten
  BY DEF Spoken
<1> QED BY <1>1, VoiceHolds, PTL

(* When finish() returns without an error, every sentence of the reply was *)
(* synthesized to its end, every byte of the server is in a frame, and a   *)
(* stream that had a sentence is closed: a half-spoken or silent reply is  *)
(* never a success.                                                        *)
THEOREM DoneIsSpokenHolds == Spec => []DoneIsSpoken
<1>1. ASSUME IInv, TextTypes, Spoken, NEW t \in Speech, task[t] = "done"
      PROVE  /\ voiced[t] = Sentences(reply[t])
             /\ Bytes(id[t]) = received[t]
             /\ voiced[t] # <<>> => Wire!Closed(id[t])
  <2>1. Saying(t) /\ Carrying(t)
    BY <1>1, SpokenSpeechBySpeech
  <2>2. worker[t] = "ended" /\ queue[t] = <<>> /\ now[t] = <<>> /\ carry[t] = 0
    BY <1>1, <2>1 DEF Carrying
  <2>3. id[t] = 2 * t
    BY <1>1 DEF IInv, OwnId
  <2>4. Waiting(t) = <<>>
    <3>1. <<>> \in Seq(Sentence)
      OBVIOUS
    <3> QED BY <2>2, <3>1, WithoutEnd DEF Waiting
  <2>5. Queued(t) = voiced[t]
    <3>1. voiced[t] \in Seq(Sentence)
      BY <1>1 DEF TextTypes
    <3> QED BY <2>2, <2>4, <3>1, ConcatEmptySeq DEF Queued
  <2>6. voiced[t] = Sentences(reply[t])
    BY <1>1, <2>1, <2>5 DEF Saying
  <2>7. Bytes(2 * t) = received[t]
    <3>1. Bytes(2 * t) \in Nat
      BY <1>1, BytesSent DEF IInv
    <3>2. Bytes(2 * t) + 0 + 0 = received[t]
      BY <2>1, <2>2 DEF Carrying, Unsent
    <3> QED BY <3>1, <3>2
  <2>8. voiced[t] # <<>> => Wire!Closed(2 * t)
    BY <2>1, <2>2 DEF Carrying
  <2> QED BY <2>3, <2>6, <2>7, <2>8
<1>2. TypeOK /\ IInv /\ TextTypes /\ Spoken => DoneIsSpoken
  BY <1>1 DEF DoneIsSpoken
<1> QED BY <1>2, VoiceHolds, PTL

(* The core serves with the rate of the last format before the samples,    *)
(* and refuses only a response that announces none, whatever chunks come,  *)
(* padded or cut off.                                                      *)
THEOREM ProbeReadsTheFormatHolds == Spec => ProbeReadsTheFormat
<1>1. TextTypes /\ [Next]_vars =>
        [up = "probing" =>
           /\ up' = "up" => rate' = Announced(response) /\ rate' # NoRate
           /\ up' = "refused" => Announced(response) = NoRate]_vars
  <2> SUFFICES ASSUME TextTypes, Next, up = "probing"
               PROVE  /\ up' = "up" => rate' = Announced(response) /\ rate' # NoRate
                      /\ up' = "refused" => Announced(response) = NoRate
    OBVIOUS
  <2>1. CASE Probe
    BY <2>1, ProbeFinds
  <2>2. CASE up' = "down" \/ up' = up
    BY <2>2
  <2> QED BY <2>1, <2>2 DEF Next, WorkerStep, Server, startVars, Unreachable, Start, FeedDelta, Finish,
                  Cancel, TaskResumes, Get, Audio, Opened, Framed, Closed, AudioEnds, HttpFails,
                  WorkerKilled, Finalized
<1> QED BY <1>1, VoiceHolds, PTL DEF Spec, ProbeReadsTheFormat
=============================================================================
