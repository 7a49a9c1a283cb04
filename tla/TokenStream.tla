------------------------------ MODULE TokenStream ------------------------------
(***************************************************************************)
(* The text of one reply on its way to the clients: on_delta and the done  *)
(* frame of `_run_chat_turn`, the snapshots of stream.sync and of a        *)
(* reattached client (orchestrator/orchestrator.py, server/ws_server.py),  *)
(* and the broadcast that visits one session after the other               *)
(* (server/session.py).                                                    *)
(*                                                                         *)
(* A frame reaches the socket when its session is visited: slow sockets    *)
(* delay the visits that follow, and frames of one socket stay in order.   *)
(* The order of the visits is left open.                                   *)
(***************************************************************************)
EXTENDS Naturals

CONSTANTS
    Client,     \* the clients, with at most one connection each
    MaxDeltas,  \* bound on the deltas of the reply
    MaxAttach   \* bound on the attachments

ASSUME StreamAssumption == MaxDeltas \in Nat /\ MaxAttach \in Nat

VARIABLES
    stream,     \* _stream: not set yet, this reply, cleared by its turn, or
                \* taken away by another handler
    job,        \* what the reply awaits, or how it ended
    seq,        \* the length of state["parts"], and its seq
    turn,       \* "current"; out of the foreground with its task running on,
                \* "astray"; or its task is being cancelled
    cast,       \* sessions that the broadcast has still to visit
    conn,       \* conn[c]: the connection of c
    key,        \* key[c]: there is a session that c can resume
    attached,   \* attachments so far
    text,       \* text[c]: the deltas that c shows
    done,       \* done[c]: c has seen the done frame
    served,     \* history: the latest attachment of c came neither after the
                \* reply nor while its stream was taken away
    missed,     \* history: the delta on its way past c at its latest snapshot
    unended     \* history: the done frame had passed c at its latest snapshot

replyVars  == <<stream, job, seq, turn>>
clientVars == <<conn, key, attached>>
shownVars  == <<text, done>>
pastVars   == <<served, missed, unended>>
vars == <<stream, job, seq, turn, cast, conn, key, attached, text, done,
          served, missed, unended>>

Final == {"complete", "broken", "stopped"}

TypeOK ==
    /\ stream \in {"unset", "set", "cleared", "taken"}
    /\ job \in {"none", "waiting", "announcing", "sending", "closing", "failing"} \cup Final
    /\ seq \in 0..MaxDeltas
    /\ turn \in {"current", "astray", "cancelled"}
    /\ cast \in SUBSET Client
    /\ conn \in [Client -> {"away", "attaching", "here"}]
    /\ key \in [Client -> BOOLEAN]
    /\ attached \in 0..MaxAttach
    /\ text \in [Client -> SUBSET (0..MaxDeltas)]
    /\ done \in [Client -> BOOLEAN]
    /\ served \in [Client -> BOOLEAN]
    /\ missed \in [Client -> SUBSET (0..MaxDeltas)]
    /\ unended \in [Client -> BOOLEAN]

Init ==
    /\ stream = "unset"
    /\ job = "none"
    /\ seq = 0
    /\ turn = "current"
    /\ cast = {}
    /\ conn = [c \in Client |-> "away"]
    /\ key = [c \in Client |-> FALSE]
    /\ attached = 0
    /\ text = [c \in Client |-> {}]
    /\ done = [c \in Client |-> FALSE]
    /\ served = [c \in Client |-> TRUE]
    /\ missed = [c \in Client |-> {}]
    /\ unended = [c \in Client |-> FALSE]

-----------------------------------------------------------------------------
(* The reply.                                                              *)

(* The sessions at the begin of a broadcast; they are told apart by their  *)
(* sockets when it is their turn.                                          *)
Cast == cast' = {c \in Client : key[c]}

Begin ==
    /\ job = "none"
    /\ stream' = "set"
    /\ job' = "waiting"
    /\ UNCHANGED <<seq, turn, cast, clientVars, shownVars, pastVars>>

(* A slip: on_delta() leaves it to the scheduler.                          *)
WantedAnyhow == TRUE

(* is_obsolete(): the turn is not the foreground.                          *)
Obsolete == turn # "current"

Wanted == ~Obsolete

(* on_delta(): the first delta goes after the broadcast of RESPONDING.     *)
FirstDelta ==
    /\ job = "waiting"
    /\ seq = 0 /\ seq < MaxDeltas
    /\ Wanted
    /\ job' = "announcing"
    /\ UNCHANGED <<stream, seq, turn, cast, clientVars, shownVars, pastVars>>

NextDelta ==
    /\ job = "waiting"
    /\ 0 < seq /\ seq < MaxDeltas
    /\ Wanted
    /\ job' = "sending"
    /\ Cast
    /\ UNCHANGED <<stream, seq, turn, clientVars, shownVars, pastVars>>

(* RESPONDING went out, and nobody looks at the turn again.                *)
Announced ==
    /\ job = "announcing"
    /\ job' = "sending"
    /\ Cast
    /\ UNCHANGED <<stream, seq, turn, clientVars, shownVars, pastVars>>

(* The broadcast comes to c.  A cancelled turn closes nothing any more.    *)
Visit(c) ==
    /\ c \in cast
    /\ job = "closing" => turn # "cancelled"
    /\ cast' = cast \ {c}
    /\ IF conn[c] = "away"
       THEN UNCHANGED shownVars
       ELSE \/ /\ job = "sending"
               /\ text' = [text EXCEPT ![c] = @ \cup {seq}]
               /\ UNCHANGED done
            \/ /\ job = "closing"
               /\ done' = [done EXCEPT ![c] = TRUE]
               /\ UNCHANGED text
    /\ UNCHANGED <<replyVars, clientVars, pastVars>>

(* The token went out: the delta joins the parts.                          *)
Recorded ==
    /\ job = "sending"
    /\ cast = {}
    /\ seq' = seq + 1
    /\ job' = "waiting"
    /\ UNCHANGED <<stream, turn, cast, clientVars, shownVars, pastVars>>

(* A slip: the stream is taken back before its done frame goes out.        *)
WithdrawEarly == stream' = "cleared"

(* _stream stays until the done frame has gone out.                        *)
Withdraw == UNCHANGED stream

(* The reply is complete: the done frame, which asks nobody whether the    *)
(* turn is still wanted.                                                   *)
Finish ==
    /\ job = "waiting"
    /\ turn # "cancelled"
    /\ job' = "closing"
    /\ Withdraw
    /\ Cast
    /\ UNCHANGED <<seq, turn, clientVars, shownVars, pastVars>>

Finished ==
    /\ job = "closing"
    /\ turn # "cancelled"
    /\ cast = {}
    /\ job' = "complete"
    /\ stream' = "cleared"
    /\ UNCHANGED <<seq, turn, cast, clientVars, shownVars, pastVars>>

(* LlmError, TtsError or another exception, of a delta that cannot be      *)
(* encoded for instance: no done frame.  The stream is cleared at once,    *)
(* after speech.cancel(), or not at all when speech.cancel() raises.       *)
Fail ==
    /\ job \in {"waiting", "announcing"}
    /\ turn # "cancelled"
    /\ \/ job' = "broken" /\ stream' = "cleared"
       \/ job' \in {"broken", "failing"} /\ UNCHANGED stream
    /\ UNCHANGED <<seq, turn, cast, clientVars, shownVars, pastVars>>

(* speech.cancel() returned; it swallows a cancellation.                   *)
Failed ==
    /\ job = "failing"
    /\ job' = "broken"
    /\ stream' = "cleared"
    /\ UNCHANGED <<seq, turn, cast, clientVars, shownVars, pastVars>>

-----------------------------------------------------------------------------
(* The turn.                                                               *)

(* Another begin() takes the foreground without cancelling, or this turn   *)
(* is cancelled before its task is known.                                  *)
Stray ==
    /\ turn = "current"
    /\ job \notin Final
    /\ turn' = "astray"
    /\ UNCHANGED <<stream, job, seq, cast, clientVars, shownVars, pastVars>>

Cancel ==
    /\ turn = "current"
    /\ job \notin {"none"} \cup Final
    /\ turn' = "cancelled"
    /\ UNCHANGED <<stream, job, seq, cast, clientVars, shownVars, pastVars>>

(* The tasks of a cancelled turn end.                                      *)
Stopped ==
    /\ turn = "cancelled"
    /\ job \notin Final
    /\ job' = "stopped"
    /\ cast' = {}
    /\ UNCHANGED <<stream, seq, turn, clientVars, shownVars, pastVars>>

(* The handler of CancelledError, of this turn or of an earlier one that   *)
(* comes late, clears `_stream`, or another turn sets it to its own.       *)
Taken ==
    /\ stream = "set"
    /\ stream' = "taken"
    /\ UNCHANGED <<job, seq, turn, cast, clientVars, shownVars, pastVars>>

-----------------------------------------------------------------------------
(* The clients.                                                            *)

(* A new session, which no broadcast under way knows, or the old one.      *)
Attach(c) ==
    /\ conn[c] = "away"
    /\ attached < MaxAttach
    /\ attached' = attached + 1
    /\ conn' = [conn EXCEPT ![c] = "attaching"]
    /\ key' = [key EXCEPT ![c] = TRUE]
    /\ \/ /\ key[c]
          /\ UNCHANGED <<cast, shownVars>>
       \/ /\ cast' = cast \ {c}
          /\ text' = [text EXCEPT ![c] = {}]
          /\ done' = [done EXCEPT ![c] = FALSE]
    /\ UNCHANGED <<replyVars, pastVars>>

(* The deltas that are recorded.                                           *)
Parts == {i \in 0..MaxDeltas : i < seq}

(* _send_stream_snapshot: what is recorded replaces what c shows.          *)
Snapshot(c) ==
    /\ text' = [text EXCEPT ![c] = Parts]
    /\ done' = [done EXCEPT ![c] = FALSE]
    /\ served' = [served EXCEPT ![c] = TRUE]
    /\ missed' = [missed EXCEPT ![c] = IF job = "sending" /\ c \notin cast THEN {seq} ELSE {}]
    /\ unended' = [unended EXCEPT ![c] = job = "closing" /\ c \notin cast]

(* The end of _attach: resync_streams.                                     *)
Resync(c) ==
    /\ conn[c] = "attaching"
    /\ conn' = [conn EXCEPT ![c] = "here"]
    /\ \/ stream = "set" /\ Snapshot(c)
       \/ /\ stream # "set"
          /\ served' = [served EXCEPT ![c] = stream # "taken" /\ job \notin Final]
          /\ UNCHANGED <<shownVars, missed, unended>>
    /\ UNCHANGED <<replyVars, cast, key, attached>>

(* stream.sync                                                             *)
Sync(c) ==
    /\ conn[c] = "here"
    /\ stream = "set"
    /\ Snapshot(c)
    /\ UNCHANGED <<replyVars, cast, clientVars>>

Leave(c) ==
    /\ conn[c] # "away"
    /\ conn' = [conn EXCEPT ![c] = "away"]
    /\ UNCHANGED <<replyVars, cast, key, attached, shownVars, pastVars>>

-----------------------------------------------------------------------------

Reply ==
    \/ Begin
    \/ FirstDelta \/ NextDelta \/ Announced \/ Recorded
    \/ Finish \/ Finished \/ Fail \/ Failed
    \/ Stray \/ Cancel \/ Stopped \/ Taken

Next ==
    \/ Reply
    \/ \E c \in Client : Visit(c) \/ Attach(c) \/ Resync(c) \/ Sync(c) \/ Leave(c)

Spec == Init /\ [][Next]_vars

-----------------------------------------------------------------------------
(* What the stream promises.                                               *)

(* "a client that dropped mid-stream gets the active stream's full text    *)
(* back": while no token goes out, an attached client shows every delta    *)
(* recorded but the one that was on its way past it at its latest          *)
(* snapshot, and shows the end of a reply that is complete and of no       *)
(* other, unless its latest snapshot came after the done frame.  A client  *)
(* that attached too late, or while another handler had taken the stream   *)
(* away, shows no delta that is not recorded.                              *)
InSync ==
    job \notin {"sending", "closing"} /\ turn # "cancelled" =>
        \A c \in Client : conn[c] = "here" =>
            /\ text[c] \subseteq Parts
            /\ served[c] => /\ text[c] = Parts \ missed[c]
                            /\ done[c] <=> job = "complete" /\ ~unended[c]

(* "a delta racing the cancel must not leak out": of a turn that is        *)
(* obsolete at most the first token goes out, which had to wait for        *)
(* RESPONDING.                                                             *)
OnlyFirstTokenLate ==
    [][Obsolete /\ job # "sending" /\ job' = "sending" => seq = 0]_vars

-----------------------------------------------------------------------------
(* The inductive invariant.                                                *)

(* A broadcast under way is one of a delta or of the done frame, and is    *)
(* for clients with a session; RESPONDING precedes the first delta.        *)
Broadcasting ==
    /\ job \notin {"sending", "closing"} => cast = {}
    /\ \A c \in Client : c \in cast \/ conn[c] # "away" => key[c]
    /\ job = "announcing" => seq = 0
    /\ job \in {"announcing", "sending"} => seq < MaxDeltas

(* `_stream` waits for the reply to begin, and is gone when it is complete.*)
StreamFollowsJob ==
    /\ stream = "unset" <=> job = "none"
    /\ job = "complete" => stream = "cleared"
    /\ stream = "cleared" => job \in Final
    /\ job = "none" => /\ turn # "cancelled" /\ seq = 0
                       /\ \A c \in Client : text[c] = {} /\ ~done[c]

(* The deltas that c has got, given whether a broadcast has come to it.    *)
Got(c) ==
    {i \in 0..MaxDeltas : i < IF job = "sending" /\ c \notin cast THEN seq + 1 ELSE seq}

(* What c shows.                                                           *)
Shows(c) ==
    /\ text[c] \cup missed[c] \subseteq Got(c)
    /\ unended[c] => job \in Final \/ (job = "closing" /\ c \notin cast)
    /\ conn[c] = "here" /\ served[c] =>
          /\ text[c] = Got(c) \ missed[c]
          /\ done[c] <=> /\ job = "complete" \/ (job = "closing" /\ c \notin cast)
                        /\ ~unended[c]

UpToDate == turn # "cancelled" => \A c \in Client : Shows(c)

IInv ==
    /\ TypeOK
    /\ Broadcasting
    /\ StreamFollowsJob
    /\ UpToDate
=============================================================================
