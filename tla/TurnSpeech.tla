------------------------------ MODULE TurnSpeech ------------------------------
(***************************************************************************)
(* Speech: the format probe at the start of the process, one TurnSpeech    *)
(* per spoken turn (voice/tts_pipeline.py) and the TTS client they share   *)
(* (tts/client.py; tts/irodori.py has the same lock, probe and stream).    *)
(*                                                                         *)
(* An action is what one task does between two awaits.  The tasks are the  *)
(* turn, which feeds the deltas of the reply, and the speech worker, which *)
(* synthesizes sentence by sentence inside the generator synth_stream().   *)
(* A worker that is cancelled at a broadcast leaves its generator, and the *)
(* client's lock, to the finalizer of asynchronous generators.             *)
(***************************************************************************)
EXTENDS SentenceChunker, WavHeader

CONSTANTS
    MaxSpeeches,    \* bound on the spoken turns
    Replies,        \* Replies[t]: what turn t may say
    Responses,      \* what the server may answer to the probe
    FrameBytes,     \* PCM_FRAME_BYTES
    Chunks,         \* the sizes of the HTTP chunks
    MaxAudio        \* bound on the bytes of one sentence

ASSUME SpeechAssumption ==
    /\ MaxSpeeches \in Nat
    /\ \A t \in 1..MaxSpeeches : Replies[t] \subseteq Seq(Char)
    /\ Responses \subseteq Response
    /\ FrameBytes \in Nat \ {0} /\ FrameBytes % 2 = 0
    /\ Chunks \subseteq Nat
    /\ MaxAudio \in Nat

Speech == 1..MaxSpeeches
Stream == {2 * t : t \in Speech}
None == 0
End  == <<>>    \* the None in the queue; a sentence is never empty

Nothing == [riff |-> FALSE, wave |-> FALSE, chunks |-> <<>>, length |-> 0]

VARIABLES
    \* Startup.
    up,         \* main.run: waiting for the probe, serving, or not started
    response,   \* the server's answer to the probe
    rate,       \* _sample_rate
    \* The turn.
    task,       \* task[t]: the turn, as far as its speech sees it
    reply,      \* reply[t]: the text the LLM produces
    fed,        \* fed[t]: the characters that were fed
    chunker,    \* chunker[t]: _chunker
    queue,      \* queue[t]: _queue
    \* The speech worker and its generator.
    worker,     \* worker[t]: what the worker awaits
    now,        \* now[t]: the sentence it has in hand
    left,       \* left[t]: bytes of `pcm` not sent yet
    carry,      \* carry[t]: bytes kept for the next chunk
    heard,      \* heard[t]: bytes of this sentence so far
    opened,     \* opened[t]: _opened
    seq,        \* seq[t]: _seq
    line,       \* the generators at the client's lock, the first one has it
    \* SessionManager.
    streams,    \* _next_stream_id
    id,         \* id[t]: _stream_id
    sent,       \* sent[i]: what was broadcast of stream i
    \* History.
    voiced,     \* voiced[t]: the sentences synthesized to their end
    received    \* received[t]: the bytes the server sent for them

startVars  == <<up, response, rate>>
turnVars   == <<task, reply, fed, chunker>>
streamVars == <<streams, id>>
audioVars  == <<left, carry, heard, opened, seq>>
vars == <<up, response, rate, task, reply, fed, chunker, queue, worker, now, left, carry,
          heard, opened, seq, line, streams, id, sent, voiced, received>>

Wire == INSTANCE AudioStream

Over == {"done", "failed", "cancelled"}
Dead == {"none", "ended", "failed", "cancelled"}

TypeOK ==
    /\ up \in {"probing", "up", "down", "refused"}
    /\ rate \in Nat
    /\ task \in [Speech -> {"none", "feeding", "finishing", "cancelling"} \cup Over]
    /\ fed \in [Speech -> Nat]
    /\ worker \in [Speech -> {"get", "synth", "opening", "framing", "closing"} \cup Dead]
    /\ left \in [Speech -> Nat]
    /\ carry \in [Speech -> 0..1]
    /\ heard \in [Speech -> 0..MaxAudio]
    /\ opened \in [Speech -> BOOLEAN]
    /\ seq \in [Speech -> Nat]
    /\ line \in Seq(Speech)
    /\ streams \in {2 * n : n \in 0..MaxSpeeches}
    /\ id \in [Speech -> Stream \cup {None}]
    /\ DOMAIN sent = Stream

Init ==
    /\ up = "probing"
    /\ response \in Responses
    /\ rate = NoRate
    /\ task = [t \in Speech |-> "none"]
    /\ reply = [t \in Speech |-> <<>>]
    /\ fed = [t \in Speech |-> 0]
    /\ chunker = [t \in Speech |-> Fresh]
    /\ queue = [t \in Speech |-> <<>>]
    /\ worker = [t \in Speech |-> "none"]
    /\ now = [t \in Speech |-> <<>>]
    /\ left = [t \in Speech |-> 0]
    /\ carry = [t \in Speech |-> 0]
    /\ heard = [t \in Speech |-> 0]
    /\ opened = [t \in Speech |-> FALSE]
    /\ seq = [t \in Speech |-> 0]
    /\ line = <<>>
    /\ streams = 0
    /\ id = [t \in Speech |-> None]
    /\ Wire!Init
    /\ voiced = [t \in Speech |-> <<>>]
    /\ received = [t \in Speech |-> 0]

-----------------------------------------------------------------------------
(* Startup: check_reachable() and probe_format().                          *)

Unreachable ==
    /\ up = "probing"
    /\ up' = "down"
    /\ response' = Nothing
    /\ UNCHANGED <<rate, turnVars, queue, worker, now, audioVars, line, streamVars, sent,
                   voiced, received>>

(* The parser is fed the whole response; finish() refuses a header that is *)
(* not complete.                                                           *)
Probe ==
    LET found == FindPcmStart(response) IN
    /\ up = "probing"
    /\ up' = IF found.verdict = "pcm" THEN "up" ELSE "refused"
    /\ rate' = found.rate
    /\ response' = Nothing
    /\ UNCHANGED <<turnVars, queue, worker, now, audioVars, line, streamVars, sent, voiced,
                   received>>

-----------------------------------------------------------------------------
(* The turn.                                                               *)

(* A slip: the ids of the clients are used up as well.                     *)
NextStreamAny == streams + 1

(* next_stream_id()                                                        *)
NextStream == streams + 2

(* TurnSpeech(): an id for the stream, and the worker.                     *)
Start(t) ==
    /\ up = "up"
    /\ task[t] = "none"
    /\ \A u \in Speech : u < t => task[u] # "none"
    /\ task' = [task EXCEPT ![t] = "feeding"]
    /\ \E r \in Replies[t] : reply' = [reply EXCEPT ![t] = r]
    /\ streams' = NextStream
    /\ id' = [id EXCEPT ![t] = streams']
    /\ worker' = [worker EXCEPT ![t] = "get"]
    /\ UNCHANGED <<startVars, fed, chunker, queue, now, audioVars, line, sent, voiced, received>>

(* feed()                                                                  *)
FeedDelta(t) ==
    /\ task[t] = "feeding"
    /\ \E to \in (fed[t] + 1)..Len(reply[t]) :
        LET step == Feed(chunker[t], SubSeq(reply[t], fed[t] + 1, to)) IN
        /\ fed' = [fed EXCEPT ![t] = to]
        /\ chunker' = [chunker EXCEPT ![t] = [buf |-> step.buf, done |-> step.done]]
        /\ queue' = [queue EXCEPT ![t] = @ \o step.out]
    /\ UNCHANGED <<startVars, task, reply, worker, now, audioVars, line, streamVars, sent, voiced,
                   received>>

(* finish() up to its await.                                               *)
Finish(t) ==
    /\ task[t] = "feeding"
    /\ fed[t] = Len(reply[t])
    /\ task' = [task EXCEPT ![t] = "finishing"]
    /\ queue' = [queue EXCEPT ![t] = @ \o Flush(chunker[t]) \o <<End>>]
    /\ chunker' = [chunker EXCEPT ![t] = Fresh]
    /\ UNCHANGED <<startVars, reply, fed, worker, now, audioVars, line, streamVars, sent, voiced,
                   received>>

(* cancel() up to its await: by the turn's handlers, or by a CancelledError *)
(* that passes through finish() into the worker.                           *)
Cancel(t) ==
    /\ task[t] \in {"feeding", "finishing"}
    /\ task' = [task EXCEPT ![t] = "cancelling"]
    /\ UNCHANGED <<startVars, reply, fed, chunker, queue, worker, now, audioVars, line, streamVars,
                   sent, voiced, received>>

(* A slip: cancel() does not wait for the worker.                          *)
Released(t) ==
    \/ task[t] = "cancelling"
    \/ task[t] = "finishing" /\ worker[t] \in Dead

(* The await of the worker is over.                                        *)
Joined(t) == task[t] \in {"finishing", "cancelling"} /\ worker[t] \in Dead

(* finish() or cancel() returns, or raises what the worker raised.         *)
TaskResumes(t) ==
    /\ Joined(t)
    /\ task' = [task EXCEPT ![t] = IF worker[t] = "failed" THEN "failed"
                                   ELSE IF @ = "finishing" THEN "done" ELSE "cancelled"]
    /\ UNCHANGED <<startVars, reply, fed, chunker, queue, worker, now, audioVars, line, streamVars,
                   sent, voiced, received>>

-----------------------------------------------------------------------------
(* The speech worker.                                                      *)

(* A task that is to be cancelled does nothing else any more.              *)
At(t, place) == worker[t] = place /\ task[t] # "cancelling"

Goto(t, place) == worker' = [worker EXCEPT ![t] = place]

SendMeta(t, last) ==
    sent' = [sent EXCEPT ![id[t]] = Append(@, Wire!Meta(last))]

(* One slice of `pcm`, with `bytes` of it to go, goes out as frame n.      *)
Slice(t, n, bytes) ==
    LET size == IF bytes <= FrameBytes THEN bytes ELSE FrameBytes IN
    /\ sent' = [sent EXCEPT ![id[t]] = Append(@, Wire!Frame(n, size))]
    /\ left' = [left EXCEPT ![t] = bytes - size]

(* A slip: a silent reply is closed as well.                               *)
CloseAlways(t) == SendMeta(t, TRUE) /\ Goto(t, "closing")

(* The queue is at its end: the stream is closed, if it was opened.        *)
CloseStream(t) ==
    IF opened[t]
    THEN SendMeta(t, TRUE) /\ Goto(t, "closing")
    ELSE UNCHANGED sent /\ Goto(t, "ended")

(* The queue has a sentence, or its end.  synth_stream() waits for the     *)
(* client's lock, then for the server.                                     *)
Get(t) ==
    /\ At(t, "get")
    /\ queue[t] # <<>>
    /\ queue' = [queue EXCEPT ![t] = Tail(@)]
    /\ IF Head(queue[t]) = End
       THEN CloseStream(t) /\ UNCHANGED <<now, line>>
       ELSE /\ now' = [now EXCEPT ![t] = <<Head(queue[t])>>]
            /\ line' = Append(line, t)
            /\ Goto(t, "synth")
            /\ UNCHANGED sent
    /\ UNCHANGED <<startVars, turnVars, audioVars, streamVars, voiced, received>>

(* The generator has the lock and waits for the server.                    *)
Synthesizing(t) == At(t, "synth") /\ line # <<>> /\ Head(line) = t

Aligned(bytes) == bytes - (bytes % 2)

(* A chunk of n bytes: what is aligned is yielded to the worker.           *)
Audio(t, n) ==
    LET pcm == Aligned(carry[t] + n) IN
    /\ Synthesizing(t)
    /\ heard[t] + n <= MaxAudio
    /\ heard' = [heard EXCEPT ![t] = @ + n]
    /\ received' = [received EXCEPT ![t] = @ + n]
    /\ carry' = [carry EXCEPT ![t] = @ + n - pcm]
    /\ \/ /\ pcm = 0
          /\ UNCHANGED <<worker, left, sent>>
       \/ /\ pcm > 0 /\ ~opened[t]
          /\ SendMeta(t, FALSE)
          /\ left' = [left EXCEPT ![t] = pcm]
          /\ Goto(t, "opening")
       \/ /\ pcm > 0 /\ opened[t]
          /\ Slice(t, seq[t], pcm)
          /\ Goto(t, "framing")
    /\ UNCHANGED <<startVars, turnVars, queue, now, opened, seq, line, streamVars, voiced>>

(* The opening meta went out: the first frame follows.                     *)
Opened(t) ==
    /\ At(t, "opening")
    /\ opened' = [opened EXCEPT ![t] = TRUE]
    /\ Slice(t, seq[t], left[t])
    /\ Goto(t, "framing")
    /\ UNCHANGED <<startVars, turnVars, queue, now, carry, heard, seq, line, streamVars,
                   voiced, received>>

(* A frame went out: the next slice follows, or the next chunk.            *)
Framed(t) ==
    /\ At(t, "framing")
    /\ seq' = [seq EXCEPT ![t] = @ + 1]
    /\ IF left[t] > 0
       THEN Slice(t, seq'[t], left[t]) /\ UNCHANGED worker
       ELSE Goto(t, "synth") /\ UNCHANGED <<sent, left>>
    /\ UNCHANGED <<startVars, turnVars, queue, now, carry, heard, opened, line, streamVars,
                   voiced, received>>

(* The closing meta went out.                                              *)
Closed(t) ==
    /\ At(t, "closing")
    /\ Goto(t, "ended")
    /\ UNCHANGED <<startVars, turnVars, queue, now, audioVars, line, streamVars, sent, voiced,
                   received>>

(* A slip: an odd byte at the end is dropped.                              *)
CompleteTrimmed(t) == heard[t] >= 2

(* The response had audio, and whole samples only.                         *)
Complete(t) == heard[t] >= 2 /\ carry[t] = 0

(* The end of the response; the generator leaves the lock.                 *)
AudioEnds(t) ==
    /\ Synthesizing(t)
    /\ line' = Tail(line)
    /\ heard' = [heard EXCEPT ![t] = 0]
    /\ carry' = [carry EXCEPT ![t] = 0]
    /\ IF Complete(t)
       THEN /\ voiced' = [voiced EXCEPT ![t] = @ \o now[t]]
            /\ now' = [now EXCEPT ![t] = <<>>]
            /\ Goto(t, "get")
       ELSE Goto(t, "failed") /\ UNCHANGED <<voiced, now>>
    /\ UNCHANGED <<startVars, turnVars, queue, left, opened, seq, streamVars, sent, received>>

(* An error status, a broken connection or a time-out.                     *)
HttpFails(t) ==
    /\ Synthesizing(t)
    /\ line' = Tail(line)
    /\ Goto(t, "failed")
    /\ UNCHANGED <<startVars, turnVars, queue, now, audioVars, streamVars, sent, voiced, received>>

(* The CancelledError arrives.  Inside the generator it leaves the lock,   *)
(* or the line at it, at once.                                             *)
WorkerKilled(t) ==
    /\ task[t] = "cancelling"
    /\ worker[t] \notin Dead
    /\ Goto(t, "cancelled")
    /\ line' = IF worker[t] = "synth" THEN RemoveFirst(line, t) ELSE line
    /\ UNCHANGED <<startVars, turnVars, queue, now, audioVars, streamVars, sent, voiced, received>>

(* A slip: nobody closes the generator.                                    *)
Unfinalized(t) == line

(* The generator of t is closed, and the lock released.                    *)
Unlocked(t) == RemoveFirst(line, t)

(* The finalizer closes a generator that its worker left behind.           *)
Finalized(t) ==
    /\ worker[t] = "cancelled"
    /\ Contains(line, t)
    /\ line' = Unlocked(t)
    /\ UNCHANGED <<startVars, turnVars, queue, worker, now, audioVars, streamVars, sent, voiced,
                   received>>

-----------------------------------------------------------------------------

Server(t) == (\E n \in Chunks : Audio(t, n)) \/ AudioEnds(t) \/ HttpFails(t)

WorkerStep(t) ==
    \/ Get(t)
    \/ Opened(t)
    \/ Framed(t)
    \/ Closed(t)
    \/ WorkerKilled(t)
    \/ Finalized(t)

Next ==
    \/ Unreachable \/ Probe
    \/ \E t \in Speech : \/ Start(t) \/ FeedDelta(t) \/ Finish(t) \/ Cancel(t) \/ TaskResumes(t)
                        \/ WorkerStep(t) \/ Server(t)

Spec == Init /\ [][Next]_vars

(* The loop runs every ready task; a request ends, if only by its time-out. *)
Fairness ==
    \A t \in Speech : WF_vars(TaskResumes(t)) /\ WF_vars(WorkerStep(t)) /\ WF_vars(Server(t))

FairSpec == Spec /\ Fairness

-----------------------------------------------------------------------------
(* What speech promises.                                                   *)

(* The broadcasts of every stream are those of an audio stream: opened     *)
(* before its first frame and never in vain, frames numbered without a gap *)
(* and made of whole samples, closed at most once, and after that silent.  *)
ImplementsAudioStream == Wire!Spec

(* The sentences in the queue.                                             *)
Waiting(t) == RemoveFirst(queue[t], End)

(* The sentences that the turn has put into the queue so far.              *)
Queued(t) == voiced[t] \o now[t] \o Waiting(t)

(* Wherever the deltas cut the reply, and however its terminators, closers *)
(* and blanks fall, the queue gets the sentences of the whole text, each   *)
(* once and in order, and at the end of the reply all of them.             *)
SentencesAsWritten ==
    \A t \in Speech :
        /\ IsPrefix(Queued(t), Sentences(reply[t]))
        /\ task[t] \in {"finishing", "done"} => Queued(t) = Sentences(reply[t])

(* The bytes of the frames among some messages.                            *)
Total(messages) ==
    LET upto[n \in 0..Len(messages)] ==
            IF n = 0 THEN 0
            ELSE upto[n - 1] + (IF messages[n].kind = "frame" THEN messages[n].size ELSE 0)
    IN  upto[Len(messages)]

Bytes(i) == Total(sent[i])

(* "a silent half-spoken reply is not a success": a finish() that returns  *)
(* has spoken every sentence, sent every byte of the server, and closed    *)
(* the stream.                                                             *)
DoneIsSpoken ==
    \A t \in Speech : task[t] = "done" =>
        /\ voiced[t] = Sentences(reply[t])
        /\ Bytes(id[t]) = received[t]
        /\ voiced[t] # <<>> => Wire!Closed(id[t])

(* "stop synthesis now": when cancel() has returned, the stream is silent, *)
(* and no closing meta ever comes.                                         *)
CancelSilences ==
    [][\A t \in Speech : task[t] = "cancelled" => sent'[id[t]] = sent[id[t]]]_vars

(* The core serves with the rate that the server's own response announces, *)
(* and refuses no response that announces one.                             *)
ProbeReadsTheFormat ==
    [][up = "probing" =>
          /\ up' = "up" => rate' = Announced(response) /\ rate' # NoRate
          /\ up' = "refused" => Announced(response) = NoRate]_vars

(* finish() and cancel() return, also while the lock of the TTS client is  *)
(* held by the generator of a worker that was cancelled.                   *)
EverySpeechEnds ==
    \A t \in Speech : task[t] \in {"finishing", "cancelling"} ~> task[t] \in Over

-----------------------------------------------------------------------------
(* The inductive invariant of the audio streams.                           *)

Message == [kind : {"meta"}, last : BOOLEAN] \cup [kind : {"frame"}, seq : Nat, size : Nat]

StreamTypes ==
    /\ task \in [Speech -> {"none", "feeding", "finishing", "cancelling"} \cup Over]
    /\ worker \in [Speech -> {"get", "synth", "opening", "framing", "closing"} \cup Dead]
    /\ left \in [Speech -> Nat]
    /\ carry \in [Speech -> 0..1]
    /\ opened \in [Speech -> BOOLEAN]
    /\ seq \in [Speech -> Nat]
    /\ id \in [Speech -> Nat]
    /\ sent \in [Stream -> Seq(Message)]

(* Speech by speech the core takes the next even id.                       *)
IdsInOrder ==
    \E n \in 0..MaxSpeeches :
        /\ streams = 2 * n
        /\ \A t \in Speech : task[t] # "none" <=> t <= n

OwnId ==
    \A t \in Speech :
        IF task[t] = "none"
        THEN worker[t] = "none" /\ ~opened[t] /\ seq[t] = 0 /\ sent[2 * t] = <<>>
        ELSE id[t] = 2 * t

(* The turn waits for its worker.                                          *)
OverIsDead == \A t \in Speech : task[t] \in Over => worker[t] \in Dead

(* What is left of a slice is whole samples.                               *)
WholeSamples ==
    \A t \in Speech :
        /\ worker[t] \in {"opening", "framing"} => left[t] % 2 = 0
        /\ worker[t] = "opening" => left[t] > 0

(* What the worker has in mind of its stream is what went out.             *)
SentAsCounted ==
    \A t \in Speech :
        /\ worker[t] \in {"get", "synth"} =>
              IF opened[t]
              THEN seq[t] > 0 /\ Len(sent[2 * t]) = seq[t] + 1 /\ ~Wire!Closed(2 * t)
              ELSE seq[t] = 0 /\ sent[2 * t] = <<>>
        /\ worker[t] = "opening" =>
              ~opened[t] /\ seq[t] = 0 /\ Len(sent[2 * t]) = 1 /\ ~Wire!Closed(2 * t)
        /\ worker[t] = "framing" =>
              opened[t] /\ Len(sent[2 * t]) = seq[t] + 2 /\ ~Wire!Closed(2 * t)

IInv ==
    /\ StreamTypes
    /\ IdsInOrder
    /\ OwnId
    /\ OverIsDead
    /\ WholeSamples
    /\ SentAsCounted

-----------------------------------------------------------------------------
(* The inductive invariant of what is said.                                *)

TextTypes ==
    /\ up = "probing" => response \in Responses
    /\ reply \in [Speech -> Seq(Char)]
    /\ fed \in [Speech -> Nat]
    /\ chunker \in [Speech -> [buf : Seq(Char), done : Seq(Char)]]
    /\ queue \in [Speech -> Seq(Seq(Char))]
    /\ now \in [Speech -> Seq(Sentence)]
    /\ voiced \in [Speech -> Seq(Sentence)]
    /\ heard \in [Speech -> Nat]
    /\ received \in [Speech -> Nat]

(* The queue is what waits, and its end once the reply is complete.        *)
EndIsLast ==
    \A t \in Speech :
        /\ Waiting(t) \in Seq(Sentence)
        /\ queue[t] \in {Waiting(t), Append(Waiting(t), End)}
        /\ task[t] \in {"none", "feeding"} => queue[t] = Waiting(t)

(* The chunker keeps up with the reply while it is fed.                    *)
ChunkedAsFed ==
    \A t \in Speech :
        /\ task[t] = "none" =>
              fed[t] = 0 /\ chunker[t] = Fresh /\ Queued(t) = <<>> /\ reply[t] = <<>>
        /\ task[t] = "feeding" =>
              fed[t] <= Len(reply[t]) /\ Chunked(reply[t], fed[t], chunker[t], Queued(t))

(* How far the worker is and how far the turn is go together.              *)
InStep ==
    \A t \in Speech :
        /\ worker[t] \in {"closing", "ended"} => task[t] \notin {"none", "feeding"}
        /\ worker[t] = "cancelled" => task[t] \in {"cancelling", "cancelled"}
        /\ worker[t] = "none" => task[t] = "none"
        /\ task[t] = "done" => worker[t] = "ended"

(* What the worker has in hand of the sentences.                           *)
InHand ==
    \A t \in Speech :
        /\ worker[t] \in {"none", "get", "closing", "ended"} =>
              now[t] = <<>> /\ carry[t] = 0 /\ heard[t] = 0
        /\ worker[t] \in {"closing", "ended"} => queue[t] = <<>>

(* The bytes of a chunk that are not sent yet.                             *)
Unsent(t) == IF worker[t] \in {"opening", "framing"} THEN left[t] ELSE 0

(* Every byte of the server is sent, or still to be sent.                  *)
BytesCounted ==
    \A t \in Speech :
        /\ worker[t] \in {"none", "get", "synth", "opening", "framing", "closing", "ended"} =>
              Bytes(2 * t) + Unsent(t) + carry[t] = received[t]
        /\ worker[t] = "synth" /\ ~opened[t] => heard[t] = carry[t]
        /\ voiced[t] # <<>> => opened[t]
        /\ worker[t] \in {"closing", "ended"} /\ opened[t] => Wire!Closed(2 * t)

SpeechInv ==
    /\ TypeOK
    /\ IInv
    /\ TextTypes
    /\ EndIsLast
    /\ ChunkedAsFed
    /\ InStep
    /\ InHand
    /\ BytesCounted
=============================================================================
