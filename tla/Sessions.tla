------------------------------ MODULE Sessions ------------------------------
(***************************************************************************)
(* Sessions and their sockets: SessionManager and ReplayLog                *)
(* (server/session.py), the connection handler of WsServer                 *)
(* (server/ws_server.py), and the clients that come back with a resume key *)
(* and the highest seq they have seen.                                     *)
(*                                                                         *)
(* A socket lets one sender write at a time, in the order in which they    *)
(* came, and keeps it until the client has made room: line[k] is that      *)
(* order, and its head, once it has written, may be held up for as long as *)
(* the client is slow.  Nothing else suspends a broadcast or an attach.    *)
(*                                                                         *)
(* A connection has a number, and a session that of the connection which   *)
(* created it: sets of numbers stand for the dict of the sessions and for  *)
(* the log, both ordered by them.  The handshake is complete when Attach   *)
(* happens; one that fails leaves no state.  Frames without a seq are left *)
(* out: they take the same way as the others and nobody resumes from them. *)
(***************************************************************************)
EXTENDS Integers, Sequences, FiniteSetsExt

CONSTANTS
    Client,     \* the clients
    Restless,   \* those whose connection may break
    Caster,     \* the tasks that broadcast
    MaxConns,   \* bound on the connections
    MaxCasts,   \* bound on the broadcasts
    LogSize,    \* REPLAY_MAX_ENTRIES
    Aging       \* TRUE iff 24 hours may pass: RESUME_KEY_TTL, REPLAY_MAX_AGE

ASSUME SessionAssumption ==
    /\ MaxConns \in Nat
    /\ MaxCasts \in Nat
    /\ Restless \subseteq Client
    /\ LogSize \in Nat \ {0}
    /\ Aging \in BOOLEAN
    /\ Caster \cap Int = {}

Conn == 1..MaxConns
None == 0
Ack == 0                        \* the frame hello_ack
MaxSeq == 1 + MaxCasts + MaxConns

VARIABLES
    \* SessionManager and ReplayLog.
    seq,        \* _seq
    log,        \* _entries, by their seqs
    last,       \* _last_seq
    pruned,     \* _pruned_below
    sessions,   \* _sessions
    ws,         \* ws[s]: the socket of a session, kept by dropped ones as well
    \* WsServer and the sockets.
    conns,      \* connections so far
    link,       \* link[k]: a "cut" socket is dead but the server has not noticed
    pc,         \* pc[k]: the connection's handler
    at,         \* at[k]: its session
    todo,       \* todo[k]: the frames its attach has still to send
    line,       \* line[k]: the senders at the socket, the first one writes
    wrote,      \* wrote[k]: the first one has written and waits for room
    casts,      \* broadcasts so far
    cast,       \* cast[b]: a broadcast and the sessions it has still to reach
    \* The clients.
    cur,        \* cur[c]: the connection of the client
    key,        \* key[c]: the session whose resume key it holds
    seen,       \* seen[c]: the highest seq it received
    \* History.
    owed,       \* owed[c]: the durable notifications since the client's session
                \* began that it has not received
    since,      \* since[c]: the last_seen_seq of its last resumption
    overtaken   \* sessions that were resumed while an earlier connection of
                \* theirs still had its handler, or a broadcast in its line

logVars == <<seq, log, last, pruned>>
history == <<owed, since, overtaken>>
vars == <<seq, log, last, pruned, sessions, ws, conns, link, pc, at, todo, line,
          wrote, casts, cast, cur, key, seen, owed, since, overtaken>>

Sender == Caster \cup Conn
Seqs == 0..MaxSeq

TypeOK ==
    /\ seq \in Seqs
    /\ log \in SUBSET Seqs
    /\ last \in Seqs
    /\ pruned \in Seqs
    /\ sessions \in SUBSET Conn
    /\ ws \in [Conn -> Conn \cup {None}]
    /\ conns \in 0..MaxConns
    /\ link \in [Conn -> {"closed", "open", "cut"}]
    /\ pc \in [Conn -> {"none", "attaching", "resyncing", "serving"}]
    /\ at \in [Conn -> Conn \cup {None}]
    /\ todo \in [Conn -> SUBSET Seqs]
    /\ line \in [Conn -> Seq(Sender)]
    /\ wrote \in [Conn -> BOOLEAN]
    /\ casts \in 0..MaxCasts
    /\ cast \in [Caster -> [seq : Seqs, to : Conn \cup {None}, left : SUBSET Conn]]
    /\ cur \in [Client -> Conn \cup {None}]
    /\ key \in [Client -> Conn \cup {None}]
    /\ seen \in [Client -> Seqs]
    /\ owed \in [Client -> SUBSET Seqs]
    /\ since \in [Client -> Seqs]
    /\ overtaken \in SUBSET Conn

Silent == [seq |-> 0, to |-> None, left |-> {}]

(* startup() has broadcast IDLE to nobody.                                 *)
Init ==
    /\ seq = 1
    /\ log = {1}
    /\ last = 1
    /\ pruned = 0
    /\ sessions = {}
    /\ ws = [s \in Conn |-> None]
    /\ conns = 0
    /\ link = [k \in Conn |-> "closed"]
    /\ pc = [k \in Conn |-> "none"]
    /\ at = [k \in Conn |-> None]
    /\ todo = [k \in Conn |-> {}]
    /\ line = [k \in Conn |-> <<>>]
    /\ wrote = [k \in Conn |-> FALSE]
    /\ casts = 0
    /\ cast = [b \in Caster |-> Silent]
    /\ cur = [c \in Client |-> None]
    /\ key = [c \in Client |-> None]
    /\ seen = [c \in Client |-> 0]
    /\ owed = [c \in Client |-> {}]
    /\ since = [c \in Client |-> 0]
    /\ overtaken = {}

-----------------------------------------------------------------------------
(* The first in line has not written yet.                                  *)
Unwritten(k) == line[k] # <<>> /\ ~wrote[k] /\ link[k] # "closed"

(* send() writes without an await when its turn comes, so nothing happens  *)
(* before that.                                                            *)
Settled == \A k \in Conn : ~Unwritten(k)

-----------------------------------------------------------------------------
(* ReplayLog.                                                              *)

(* How old an entry may be, at most, to be pruned for its age.             *)
Ages == IF Aging THEN 0..last ELSE {0}

(* _prune: the entries that are too many or too old go, oldest first.      *)
Kept(entries, old) ==
    {n \in entries : n > old /\ Cardinality({m \in entries : m >= n}) <= LogSize}

(* A slip: the horizon stays.                                              *)
PruneForgets(entries, old) == log' = Kept(entries, old) /\ UNCHANGED pruned

Prune(entries, old) ==
    LET dropped == entries \ Kept(entries, old) IN
    /\ log' = Kept(entries, old)
    /\ pruned' = IF dropped = {} THEN pruned ELSE Max(dropped)

(* A slip: a client that misses just the last pruned entry is let in.      *)
RefusedLate(n) == n < last /\ n + 1 < pruned'

(* tail() returns None: the log cannot prove that nothing is missing.      *)
Refused(n) == n < last /\ n < pruned'

(* tail() after _prune.                                                    *)
ReplayTail(n) == {m \in log' : m > n}

-----------------------------------------------------------------------------
(* SessionManager.                                                         *)

(* detach(): nothing for a session that was dropped.                       *)
Detached(s) == IF s \in sessions THEN [ws EXCEPT ![s] = None] ELSE ws

(* The broadcast loop goes on to the next session that has a socket, as w  *)
(* knows them, and joins the line of that socket.                          *)
FanOut(b, n, left, w, l) ==
    LET reachable == {s \in left : w[s] # None}
        s == Min(reachable) IN
    IF reachable = {}
    THEN /\ cast' = [cast EXCEPT ![b] = Silent]
         /\ line' = l
    ELSE /\ cast' = [cast EXCEPT ![b] = [seq |-> n, to |-> s,
                                         left |-> {t \in left : t > s}]]
         /\ line' = [l EXCEPT ![w[s]] = Append(@, b)]

(* broadcast() of a durable notification.                                  *)
Broadcast(b) ==
    /\ cast[b] = Silent
    /\ casts < MaxCasts
    /\ Settled
    /\ casts' = casts + 1
    /\ seq' = seq + 1
    /\ last' = seq'
    /\ \E old \in Ages : Prune(log \cup {seq'}, old)
    /\ FanOut(b, seq', sessions, ws, line)
    /\ owed' = [c \in Client |-> owed[c] \cup {seq'}]
    /\ UNCHANGED <<sessions, ws, conns, link, pc, at, todo, wrote, cur, key, seen,
                   since, overtaken>>

-----------------------------------------------------------------------------
(* WsServer: the handler of a connection.                                  *)

(* create_session(), for connection k.                                     *)
CreateSession(c, k, others, w) ==
    /\ sessions' = others \cup {k}
    /\ ws' = [w EXCEPT ![k] = k]
    /\ at' = [at EXCEPT ![k] = k]
    /\ todo' = [todo EXCEPT ![k] = {Ack}]
    /\ owed' = [owed EXCEPT ![c] = {}]
    /\ since' = [since EXCEPT ![c] = 0]
    /\ UNCHANGED overtaken

(* A slip: there is one client, so whoever has a socket makes room.        *)
ReattachedAlone(s, k) == [r \in Conn |-> IF r = s THEN k ELSE None]

(* session.ws = ws                                                         *)
Reattached(s, k) == [ws EXCEPT ![s] = k]

(* A handler or a broadcast still holds on to the session's old socket.    *)
InUse(s) == (\E j \in Conn : at[j] = s) \/ \E b \in Caster : cast[b].to = s

(* resume_session() and tail(): connection k takes the session over.       *)
ResumeSession(c, k, s, n) ==
    /\ ws' = Reattached(s, k)
    /\ at' = [at EXCEPT ![k] = s]
    /\ todo' = [todo EXCEPT ![k] = {Ack} \cup ReplayTail(n)]
    /\ since' = [since EXCEPT ![c] = n]
    /\ overtaken' = IF InUse(s) THEN overtaken \cup {s} ELSE overtaken
    /\ UNCHANGED <<sessions, owed>>

(* A slip: a session is not dropped.                                       *)
DropKeeps(s) == sessions

(* drop_session()                                                          *)
Drop(s) == sessions \ {s}

(* _attach up to its first await.  A session whose key has expired, or     *)
(* whose client has been away for longer than the log reaches back, is     *)
(* dropped.                                                                *)
Attach(c) ==
    LET k == conns + 1
        s == key[c] IN
    /\ conns < MaxConns
    /\ cur[c] = None
    /\ Settled
    /\ conns' = k
    /\ cur' = [cur EXCEPT ![c] = k]
    /\ link' = [link EXCEPT ![k] = "open"]
    /\ pc' = [pc EXCEPT ![k] = "attaching"]
    /\ line' = [line EXCEPT ![k] = <<k>>]
    /\ \/ /\ s \notin sessions
          /\ CreateSession(c, k, sessions, ws)
          /\ UNCHANGED <<log, pruned>>
       \/ /\ s \in sessions
          /\ Aging
          /\ CreateSession(c, k, Drop(s), ws)
          /\ UNCHANGED <<log, pruned>>
       \/ /\ s \in sessions
          /\ \E old \in Ages : Prune(log, old)
          /\ IF Refused(seen[c])
             THEN CreateSession(c, k, Drop(s), Reattached(s, k))
             ELSE ResumeSession(c, k, s, seen[c])
    /\ UNCHANGED <<seq, last, wrote, casts, cast, key, seen>>

(* The handler of x raised, or returned: its connection is closed.         *)
Closed(x) ==
    /\ todo' = [todo EXCEPT ![x] = {}]
    /\ pc' = [pc EXCEPT ![x] = "none"]
    /\ link' = [link EXCEPT ![x] = "closed"]
    /\ at' = [at EXCEPT ![x] = None]
    /\ cur' = [c \in Client |-> IF cur[c] = x THEN None ELSE cur[c]]

(* The attach of x goes on: the rest of the tail, then the current state   *)
(* under a new seq, all to the socket the session has by now.              *)
AttachGoesOn(x, l) ==
    LET replayed == todo[x] \ {Min(todo[x])}
        resync == replayed = {} /\ pc[x] = "attaching"
        rest == IF resync THEN {seq + 1} ELSE replayed IN
    /\ seq' = IF resync THEN seq + 1 ELSE seq
    /\ IF rest # {} /\ ws[at[x]] = None
       THEN Closed(x) /\ line' = l
       ELSE /\ pc' = [pc EXCEPT ![x] = CASE rest = {} -> "serving"
                                         [] resync -> "resyncing"
                                         [] OTHER -> @]
            /\ line' = IF rest = {} THEN l ELSE [l EXCEPT ![ws[at[x]]] = Append(@, x)]
            /\ todo' = [todo EXCEPT ![x] = rest]
            /\ UNCHANGED <<link, at, cur>>

(* The ack of a command would go to a socket that can take it.             *)
Answerable(k) == ws[at[k]] \in {j \in Conn : link[j] # "closed"}

(* The end of _handler: the session loses its socket.                      *)
ServingEnds(k) ==
    /\ pc[k] = "serving"
    /\ Settled
    /\ link[k] = "closed" \/ ~Answerable(k)
    /\ ws' = Detached(at[k])
    /\ Closed(k)
    /\ UNCHANGED <<logVars, sessions, conns, line, wrote, casts, cast, key, seen,
                   history>>

-----------------------------------------------------------------------------
(* Sockets and clients.                                                    *)

Frame(x) == IF x \in Caster THEN cast[x].seq ELSE Min(todo[x])

(* The client of connection k receives a frame.                            *)
Receive(k, frame) ==
    LET c == CHOOSE d \in Client : cur[d] = k IN
    /\ seen' = [seen EXCEPT ![c] = IF frame > @ THEN frame ELSE @]
    /\ key' = IF frame = Ack THEN [key EXCEPT ![c] = at[k]] ELSE key
    /\ owed' = [owed EXCEPT ![c] = @ \ {frame}]

(* The first in line writes at once; what a cut socket gets is lost.       *)
Write(k) ==
    /\ Unwritten(k)
    /\ wrote' = [wrote EXCEPT ![k] = TRUE]
    /\ IF link[k] = "open"
       THEN Receive(k, Frame(Head(line[k])))
       ELSE UNCHANGED <<seen, key, owed>>
    /\ UNCHANGED <<logVars, sessions, ws, conns, link, pc, at, todo, line, casts, cast,
                   cur, since, overtaken>>

(* There is room again: the sender goes on.                                *)
Proceed(k) ==
    LET x == Head(line[k])
        l == [line EXCEPT ![k] = Tail(@)] IN
    /\ line[k] # <<>>
    /\ wrote[k]
    /\ Settled
    /\ link[k] # "closed"
    /\ wrote' = [wrote EXCEPT ![k] = FALSE]
    /\ IF x \in Caster
       THEN /\ FanOut(x, cast[x].seq, cast[x].left, ws, l)
            /\ UNCHANGED <<seq, link, pc, at, todo, cur>>
       ELSE AttachGoesOn(x, l) /\ UNCHANGED cast
    /\ UNCHANGED <<log, last, pruned, sessions, ws, conns, casts, key, seen, history>>

(* ConnectionClosed: a broadcast detaches the session and goes on to the   *)
(* next one, an attach ends.                                               *)
SendFails(k) ==
    LET x == Head(line[k])
        l == [line EXCEPT ![k] = Tail(@)] IN
    /\ line[k] # <<>>
    /\ link[k] = "closed"
    /\ Settled
    /\ wrote' = [wrote EXCEPT ![k] = FALSE]
    /\ IF x \in Caster
       THEN /\ ws' = Detached(cast[x].to)
            /\ FanOut(x, cast[x].seq, cast[x].left, ws', l)
            /\ UNCHANGED <<link, pc, at, todo, cur>>
       ELSE Closed(x) /\ line' = l /\ UNCHANGED <<ws, cast>>
    /\ UNCHANGED <<logVars, sessions, conns, casts, key, seen, history>>

(* The client is gone; the server does not know yet ...                    *)
Cut(c) ==
    /\ c \in Restless
    /\ cur[c] # None
    /\ Settled
    /\ link' = [link EXCEPT ![cur[c]] = "cut"]
    /\ cur' = [cur EXCEPT ![c] = None]
    /\ since' = [since EXCEPT ![c] = 0]
    /\ UNCHANGED <<logVars, sessions, ws, conns, pc, at, todo, line, wrote, casts, cast,
                   key, seen, owed, overtaken>>

(* ... until a reset or a missing pong tells it.                           *)
Notice(k) ==
    /\ link[k] = "cut"
    /\ Settled
    /\ link' = [link EXCEPT ![k] = "closed"]
    /\ wrote' = [wrote EXCEPT ![k] = FALSE]
    /\ UNCHANGED <<logVars, sessions, ws, conns, pc, at, todo, line, casts,
                   cast, cur, key, seen, history>>

-----------------------------------------------------------------------------

SocketStep(k) == Write(k) \/ Proceed(k) \/ SendFails(k) \/ Notice(k) \/ ServingEnds(k)

Next ==
    \/ \E b \in Caster : Broadcast(b)
    \/ \E c \in Client : Attach(c) \/ Cut(c)
    \/ \E k \in Conn : SocketStep(k)

Spec == Init /\ [][Next]_vars

-----------------------------------------------------------------------------
(* What the sessions promise.                                              *)

(* A broadcast that has still to write seq n to connection k.              *)
OnItsWay(n, k) ==
    \E b \in Caster :
        /\ cast[b].seq = n
        /\ \/ at[k] \in cast[b].left
           \/ \E i \in DOMAIN line[k] : line[k][i] = b /\ ~(wrote[k] /\ i = 1)

(* For as long as a connection is the session's socket, every durable      *)
(* notification since the client's last_seen_seq has reached the client,   *)
(* is in its replay tail, or is on its way, whatever was pruned, dropped   *)
(* or broadcast while it attached.                                         *)
NoGapWhileAttached ==
    \A c \in Client : LET k == cur[c] IN
        k # None /\ pc[k] # "none" /\ ws[at[k]] = k =>
            \A n \in owed[c] :
                n > since[c] => n \in todo[k] \/ OnItsWay(n, k)

(* Two sessions never share a socket, though a session that is refused its *)
(* replay has taken the socket of the one that replaces it.                *)
OneSessionPerSocket ==
    \A s, t \in sessions : ws[s] = ws[t] /\ ws[s] # None => s = t

(* Sessions and sockets are numbered by the connections so far.            *)
NumberedByConns ==
    /\ \A s \in sessions : s <= conns
    /\ \A s \in Conn : ws[s] <= conns

(* The inductive invariant of OneSessionPerSocket: a new connection is     *)
(* nobody's socket yet.                                                    *)
SocketInv ==
    /\ conns \in 0..MaxConns
    /\ sessions \in SUBSET Conn
    /\ ws \in [Conn -> Conn \cup {None}]
    /\ NumberedByConns
    /\ OneSessionPerSocket

(* Types, and the numbering that keeps sockets and sessions apart.         *)
WellFormed == TypeOK /\ SocketInv

(* A client that is served is attached to its session, unless it came back *)
(* before the server was done with an earlier connection of the session.   *)
DetachedOnlyIfOvertaken ==
    \A k \in Conn : pc[k] = "serving" /\ link[k] = "open" /\ ws[at[k]] # k
                        => at[k] \in overtaken

(* What a client still misses is in the log, or below a horizon that makes *)
(* tail() refuse it; and the log keeps its size.                           *)
LogReachesHorizon ==
    /\ \A c \in Client : \A n \in owed[c] : n > pruned => n \in log
    /\ Cardinality(log) <= LogSize

-----------------------------------------------------------------------------
(* The inductive invariant of the sessions.                                *)

Attaching == {"attaching", "resyncing"}

(* The connections that took a seq for the current state, or never will.   *)
Resynced == {k \in 1..conns : pc[k] # "attaching"}

(* Every connection is counted, and takes one seq at most.                 *)
Counted ==
    /\ seq <= 1 + casts + Cardinality(Resynced)
    /\ \A k \in Conn : k > conns => pc[k] = "none" /\ line[k] = <<>>
    /\ \A k \in Conn : at[k] <= conns
    /\ \A b \in Caster : cast[b].left \cup {cast[b].to} \subseteq 0..conns
    /\ \A c \in Client : cur[c] <= conns /\ key[c] <= conns

(* What the handler of a connection has: a session, frames to send, a      *)
(* socket, and, for as long as that is open, a client.                     *)
Handlers ==
    \A k \in Conn :
        /\ pc[k] = "none" <=> at[k] = None
        /\ pc[k] \in Attaching <=> todo[k] # {}
        /\ pc[k] = "none" => link[k] = "closed"
        /\ link[k] = "open" <=> \E c \in Client : cur[c] = k
        /\ \A c, d \in Client : cur[c] = k /\ cur[d] = k => c = d
        /\ wrote[k] => line[k] # <<>>

(* A sender waits at one socket at most, and has something to send.        *)
InOneLine ==
    /\ \A j, k \in Conn : \A i \in DOMAIN line[j], m \in DOMAIN line[k] :
            line[j][i] = line[k][m] => j = k /\ i = m
    /\ \A k \in Conn : \A i \in DOMAIN line[k] :
            LET x == line[k][i] IN
            IF x \in Caster THEN cast[x].to # None ELSE pc[x] \in Attaching

(* The log is what was broadcast last, above the horizon.                  *)
LogInv ==
    /\ \A n \in log : pruned < n /\ n <= last
    /\ pruned <= last /\ last <= seq
    /\ \A b \in Caster : cast[b].seq <= last
    /\ \A c \in Client : owed[c] \subseteq 1..last
    /\ \A k \in Conn : \A n \in todo[k] : n <= seq

(* The sessions that are a client's: that of its resume key, and that of   *)
(* its connection.                                                         *)
Claims(c) == {s \in Conn : s = key[c] \/ (cur[c] # None /\ at[cur[c]] = s)}

(* A session is known while a client is connected to it, and only ever     *)
(* claimed by one.                                                         *)
ClientInv ==
    /\ \A c \in Client : cur[c] # None => at[cur[c]] \in sessions
    /\ \A c, d \in Client : Claims(c) \cap Claims(d) # {} => c = d

(* Who may take the socket of a session: another handler of the session,   *)
(* or a broadcast at a socket that it had before.                          *)
OvertakenInv ==
    /\ \A j, k \in Conn : at[j] = at[k] /\ at[k] # None => j = k \/ at[k] \in overtaken
    /\ \A j, k \in Conn : \A i \in DOMAIN line[j] :
            /\ line[j][i] \in Caster
            /\ at[k] # None
            /\ cast[line[j][i]].to = at[k]
            /\ link[k] = "open"
            => j = k \/ at[k] \in overtaken
    /\ \A k \in Conn : link[k] = "open" => ws[at[k]] = k \/ at[k] \in overtaken

(* An attach whose session has its socket waits at it.                     *)
OwnSocket ==
    \A k \in Conn : \A i \in DOMAIN line[k] :
        LET x == line[k][i] IN x \notin Caster /\ ws[at[x]] = x => x = k

(* A frame that was written to a client is no longer owed to it.           *)
Paid ==
    \A c \in Client : LET k == cur[c] IN
        k # None /\ wrote[k] => Frame(Head(line[k])) \notin owed[c]

SessionInv ==
    /\ WellFormed
    /\ Counted
    /\ Handlers
    /\ InOneLine
    /\ LogInv
    /\ LogReachesHorizon
    /\ ClientInv
    /\ OvertakenInv
    /\ OwnSocket
    /\ Paid
    /\ NoGapWhileAttached

-----------------------------------------------------------------------------
(* What the comments promise and the code does not keep.                   *)

(* session.py: broadcasts go "to every connected session": a client that   *)
(* is served is attached to its session.                                   *)
ServedIsAttached ==
    \A k \in Conn : pc[k] = "serving" /\ link[k] = "open" => ws[at[k]] = k

(* session.py: "an honest fresh session beats a silent gap": a client that *)
(* has been attached has every durable notification, or will get it.       *)
NoSilentGap ==
    \A c \in Client : LET k == cur[c] IN
        k # None /\ pc[k] = "serving" /\ ws[at[k]] = k =>
            \A n \in owed[c] : OnItsWay(n, k)
=============================================================================
