--------------------------- MODULE SessionsProofs ---------------------------
(***************************************************************************)
(* Proofs about Sessions, for any number of clients, connections and       *)
(* broadcasts: no two sessions share a socket; a client that is served is  *)
(* attached unless its session was overtaken; what a client misses is in   *)
(* the log or below its horizon; and an attached client has every frame it *)
(* is owed in its replay or on its way.                                    *)
(*                                                                         *)
(* The inductive invariant is SessionInv.  Base (types, numbering, who is  *)
(* in which line, the log) keeps itself; each of its other conjuncts is    *)
(* proved from Base and from those before it.                              *)
(***************************************************************************)
EXTENDS Sessions, FiniteSetTheorems, TLAPS

-----------------------------------------------------------------------------
(* Numbers, and the replay log.                                            *)

(* The least and the greatest number of a set.                             *)
LEMMA MinIsLeast ==
    ASSUME NEW T \in SUBSET Nat, T # {}
    PROVE  Min(T) \in T /\ \A n \in T : Min(T) <= n
<1>1. PICK m \in T : \A n \in T : ~(<<n, m>> \in OpToRel(<, Nat))
  BY NatLessThanWellFounded, WFMin
<1>2. \A n \in T : m <= n
  <2>1. ASSUME NEW n \in T, n < m PROVE <<n, m>> \in OpToRel(<, Nat)
    BY <2>1 DEF OpToRel
  <2>2. \A n \in T : ~(n < m)
    BY <1>1, <2>1
  <2>3. m \in Nat /\ \A n \in T : n \in Nat
    OBVIOUS
  <2> QED BY <2>2, <2>3
<1> QED BY <1>2 DEF Min

(* A finite set of numbers has a greatest one.                             *)
LEMMA MaxIsGreatest ==
    ASSUME NEW top \in Nat, NEW T \in SUBSET (0..top), T # {}
    PROVE  Max(T) \in T /\ \A n \in T : n <= Max(T)
<1> DEFINE U == {top - n : n \in T}
<1>1. U \in SUBSET Nat /\ U # {}
  OBVIOUS
<1>2. PICK n \in T : Min(U) = top - n
  BY <1>1, MinIsLeast
<1>3. \A m \in T : m <= n
  <2> SUFFICES ASSUME NEW m \in T PROVE m <= n
    OBVIOUS
  <2>1. Min(U) <= top - m
    BY <1>1, MinIsLeast
  <2> QED BY <1>2, <2>1
<1> QED BY <1>3 DEF Max

(* _prune keeps the youngest entries, and few of them.                     *)
LEMMA KeptAreYoung ==
    ASSUME NEW top \in Nat, NEW entries \in SUBSET (0..top), NEW old \in Nat
    PROVE  /\ Kept(entries, old) \subseteq entries
           /\ \A n \in Kept(entries, old), m \in entries : m >= n => m \in Kept(entries, old)
           /\ Cardinality(Kept(entries, old)) \in 0..LogSize
<1>0. IsFiniteSet(entries)
  <2>1. IsFiniteSet(0..top)
    BY FS_Interval
  <2> QED BY <2>1, FS_Subset
<1>a. entries \in SUBSET Nat /\ \A n \in entries : n \in Nat
  OBVIOUS
<1> DEFINE K == Kept(entries, old)
           From(n) == {m \in entries : m >= n}
<1>1. K \subseteq entries
  BY DEF Kept
<1>2. \A n \in entries : n \in K <=> n > old /\ Cardinality(From(n)) <= LogSize
  BY DEF Kept
<1>3. ASSUME NEW n \in K, NEW m \in entries, m >= n PROVE m \in K
  <2>0. n \in Nat /\ m \in Nat /\ n \in entries
    BY <1>a, <1>1
  <2>1. From(m) \subseteq From(n) /\ From(n) \subseteq entries
    <3>1. \A q \in entries : q >= m => q >= n
      BY <1>a, <1>3, <2>0
    <3> QED BY <3>1
  <2>2. IsFiniteSet(From(n))
    BY <1>0, <2>1, FS_Subset
  <2>3. Cardinality(From(m)) <= Cardinality(From(n))
    BY <2>1, <2>2, FS_Subset
  <2>4. Cardinality(From(n)) \in Nat /\ Cardinality(From(m)) \in Nat
    BY <2>1, <2>2, FS_Subset, FS_CardinalityType
  <2>4a. n > old /\ Cardinality(From(n)) <= LogSize
    BY <1>2, <2>0
  <2>5. m > old /\ Cardinality(From(m)) <= LogSize
    BY <1>3, <2>0, <2>3, <2>4, <2>4a, SessionAssumption
  <2> QED BY <1>2, <2>5
<1>4. Cardinality(K) \in 0..LogSize
  <2>1. CASE K = {}
    BY <2>1, FS_EmptySet, SessionAssumption
  <2>2. CASE K # {}
    <3> DEFINE n == Min(K)
    <3>1. n \in K /\ \A m \in K : n <= m
      <4>1. K \in SUBSET Nat
        BY <1>a, <1>1
      <4> QED BY <2>2, <4>1, MinIsLeast
    <3>2. K \subseteq From(n) /\ From(n) \subseteq entries
      BY <1>1, <3>1
    <3>3. IsFiniteSet(From(n))
      BY <1>0, <3>2, FS_Subset
    <3>4. Cardinality(K) <= Cardinality(From(n)) /\ Cardinality(K) \in Nat /\ Cardinality(From(n)) \in Nat
      BY <3>2, <3>3, FS_Subset, FS_CardinalityType
    <3>5. Cardinality(From(n)) <= LogSize
      BY <1>1, <1>2, <3>1
    <3> QED BY <3>4, <3>5, SessionAssumption
  <2> QED BY <2>1, <2>2
<1> QED BY <1>1, <1>3, <1>4

(* After _prune the log is above the horizon, and an entry that is gone is *)
(* not.                                                                    *)
LEMMA Pruned ==
    ASSUME NEW top \in Nat, NEW entries \in SUBSET (0..top),
           pruned \in 0..top, \A n \in entries : pruned < n,
           NEW old \in Ages, last \in Nat, Prune(entries, old)
    PROVE  /\ log' \subseteq entries
           /\ pruned' \in 0..top /\ pruned <= pruned'
           /\ \A n \in log' : pruned' < n
           /\ \A n \in entries : n > pruned' => n \in log'
           /\ Cardinality(log') \in 0..LogSize
<1> DEFINE dropped == entries \ Kept(entries, old)
<1>0. old \in Nat
  BY DEF Ages
<1>1. /\ log' = Kept(entries, old)
      /\ pruned' = IF dropped = {} THEN pruned ELSE Max(dropped)
  BY DEF Prune
<1>2. /\ log' \subseteq entries
      /\ \A n \in log', m \in entries : m >= n => m \in log'
      /\ Cardinality(log') \in 0..LogSize
  BY <1>0, <1>1, KeptAreYoung
<1>3. CASE dropped = {}
  BY <1>1, <1>2, <1>3
<1>4. CASE dropped # {}
  <2>1. pruned' \in dropped /\ \A n \in dropped : n <= pruned'
    BY <1>1, <1>4, MaxIsGreatest
  <2>2. \A n \in log' : pruned' < n
    BY <1>1, <1>2, <2>1
  <2> QED BY <1>1, <1>2, <2>1, <2>2
<1> QED BY <1>3, <1>4

(* What is known of every state, but for what is owed to whom.             *)
Base == WellFormed /\ Counted /\ Handlers /\ InOneLine /\ LogInv

(* Connections and broadcasts are told apart, and numbers are numbers.     *)
LEMMA Senders ==
    /\ Caster \subseteq Sender /\ Conn \subseteq Sender
    /\ \A x \in Caster : x \notin Conn
    /\ \A x \in Sender : x \notin Caster => x \in Conn
    /\ None \notin Conn /\ Conn \subseteq Nat /\ None \in Nat
    /\ Seqs \subseteq Nat /\ 0 \in Seqs /\ MaxSeq \in Nat
BY SessionAssumption DEF Sender, Conn, None, Seqs, MaxSeq

-----------------------------------------------------------------------------
(* Lines.                                                                  *)

Once(l) == \A j, k \in Conn : \A i \in DOMAIN l[j], m \in DOMAIN l[k] :
              l[j][i] = l[k][m] => j = k /\ i = m

Without(l, x) == \A k \in Conn : \A i \in DOMAIN l[k] : l[k][i] # x

(* The first one leaves a line.                                            *)
Popped(k) == [line EXCEPT ![k] = Tail(@)]

(* Taking the head off a line leaves the others behind it, once each.      *)
LEMMA Leaves ==
    ASSUME line \in [Conn -> Seq(Sender)], Once(line), NEW k \in Conn, line[k] # <<>>
    PROVE  /\ Popped(k) \in [Conn -> Seq(Sender)]
           /\ Head(line[k]) \in Sender /\ Head(line[k]) = line[k][1] /\ 1 \in DOMAIN line[k]
           /\ \A j \in Conn \ {k} : Popped(k)[j] = line[j]
           /\ \A i \in DOMAIN Popped(k)[k] : i \in Nat \ {0} /\ i + 1 \in DOMAIN line[k] /\ Popped(k)[k][i] = line[k][i + 1]
           /\ \A i \in DOMAIN line[k] : i # 1 => i - 1 \in DOMAIN Popped(k)[k] /\ Popped(k)[k][i - 1] = line[k][i]
           /\ Once(Popped(k))
           /\ Without(Popped(k), Head(line[k]))
<1> DEFINE q == line[k]
           l == Popped(k)
<1>1. q \in Seq(Sender) /\ q # <<>>
  OBVIOUS
<1>2. /\ Tail(q) \in Seq(Sender) /\ Head(q) \in Sender /\ Head(q) = q[1] /\ 1 \in DOMAIN q
      /\ DOMAIN q = 1..Len(q) /\ Len(q) \in Nat
      /\ DOMAIN Tail(q) = 1..(Len(q) - 1)
      /\ \A i \in 1..(Len(q) - 1) : Tail(q)[i] = q[i + 1]
  BY <1>1
<1>3. l \in [Conn -> Seq(Sender)] /\ l[k] = Tail(q) /\ \A j \in Conn \ {k} : l[j] = line[j]
  BY <1>2 DEF Popped
<1> HIDE DEF l
<1>4. \A i \in DOMAIN l[k] : i \in Nat \ {0} /\ i + 1 \in DOMAIN q /\ l[k][i] = q[i + 1]
  BY <1>2, <1>3
<1>5. \A i \in DOMAIN q : i # 1 => i - 1 \in DOMAIN l[k] /\ l[k][i - 1] = q[i]
  BY <1>2, <1>3
<1>6. Once(l)
  <2> SUFFICES ASSUME NEW j \in Conn, NEW m \in Conn, NEW i \in DOMAIN l[j], NEW n \in DOMAIN l[m],
                      l[j][i] = l[m][n]
               PROVE  j = m /\ i = n
    BY DEF Once
  <2>1. j = k => i \in Nat /\ i + 1 \in DOMAIN line[j] /\ l[j][i] = line[j][i + 1]
    BY <1>4
  <2>2. m = k => n \in Nat /\ n + 1 \in DOMAIN line[m] /\ l[m][n] = line[m][n + 1]
    BY <1>4
  <2>3. j # k => i \in DOMAIN line[j] /\ l[j][i] = line[j][i]
    BY <1>3
  <2>4. m # k => n \in DOMAIN line[m] /\ l[m][n] = line[m][n]
    BY <1>3
  <2>5. j = m
    BY <2>1, <2>2, <2>3, <2>4 DEF Once
  <2>6. CASE j = k
    <3>1. i + 1 = n + 1
      BY <2>1, <2>2, <2>5, <2>6 DEF Once
    <3> QED BY <2>1, <2>2, <2>5, <2>6, <3>1
  <2>7. CASE j # k
    BY <2>3, <2>4, <2>5, <2>7 DEF Once
  <2> QED BY <2>5, <2>6, <2>7
<1>7. Without(l, q[1])
  <2> SUFFICES ASSUME NEW j \in Conn, NEW i \in DOMAIN l[j], l[j][i] = q[1] PROVE FALSE
    BY DEF Without
  <2>1. CASE j = k
    <3>1. i + 1 = 1
      BY <1>2, <1>4, <2>1 DEF Once
    <3> QED BY <1>4, <2>1, <3>1
  <2>2. CASE j # k
    BY <1>2, <1>3, <2>2 DEF Once
  <2> QED BY <2>1, <2>2
<1> QED BY <1>2, <1>3, <1>4, <1>5, <1>6, <1>7 DEF l

(* One more joins a line.                                                  *)
LEMMA Joins ==
    ASSUME NEW l \in [Conn -> Seq(Sender)], Once(l), NEW k \in Conn, NEW x \in Sender, Without(l, x),
           line' = [l EXCEPT ![k] = Append(@, x)]
    PROVE  /\ line' \in [Conn -> Seq(Sender)]
           /\ \A j \in Conn \ {k} : line'[j] = l[j]
           /\ \A i \in DOMAIN l[k] : i \in DOMAIN line'[k] /\ line'[k][i] = l[k][i]
           /\ \E e \in DOMAIN line'[k] :
                 /\ line'[k][e] = x
                 /\ e = 1 <=> l[k] = <<>>
                 /\ \A i \in DOMAIN line'[k] : i # e => i \in DOMAIN l[k]
           /\ line'[k] # <<>>
           /\ Once(line')
<1> DEFINE q == l[k]
           e == Len(q) + 1
<1>1. q \in Seq(Sender)
  OBVIOUS
<1>2. /\ Append(q, x) \in Seq(Sender)
      /\ DOMAIN q = 1..Len(q) /\ Len(q) \in Nat
      /\ DOMAIN Append(q, x) = 1..e
      /\ \A i \in 1..Len(q) : Append(q, x)[i] = q[i]
      /\ Append(q, x)[e] = x
      /\ e = 1 <=> q = <<>>
  BY <1>1
<1>3. /\ line' \in [Conn -> Seq(Sender)] /\ line'[k] = Append(q, x)
      /\ \A j \in Conn \ {k} : line'[j] = l[j]
  BY <1>2
<1>4. \A i \in DOMAIN q : i \in DOMAIN line'[k] /\ line'[k][i] = q[i]
  BY <1>2, <1>3
<1>5. /\ e \in DOMAIN line'[k] /\ line'[k][e] = x
      /\ \A i \in DOMAIN line'[k] : i # e => i \in DOMAIN q
  BY <1>2, <1>3
<1>6. line'[k] # <<>>
  BY <1>1, <1>3
<1>7. Once(line')
  <2> SUFFICES ASSUME NEW j \in Conn, NEW m \in Conn, NEW i \in DOMAIN line'[j],
                      NEW n \in DOMAIN line'[m], line'[j][i] = line'[m][n]
               PROVE  j = m /\ i = n
    BY DEF Once
  <2>1. line'[j][i] = x => j = k /\ i = e
    BY <1>3, <1>4, <1>5 DEF Without
  <2>2. line'[m][n] = x => m = k /\ n = e
    BY <1>3, <1>4, <1>5 DEF Without
  <2>3. line'[j][i] # x => i \in DOMAIN l[j] /\ l[j][i] = line'[j][i]
    BY <1>3, <1>4, <1>5
  <2>4. line'[m][n] # x => n \in DOMAIN l[m] /\ l[m][n] = line'[m][n]
    BY <1>3, <1>4, <1>5
  <2> QED BY <2>1, <2>2, <2>3, <2>4 DEF Once
<1> HIDE DEF e
<1> QED BY <1>2, <1>3, <1>4, <1>5, <1>6, <1>7

-----------------------------------------------------------------------------
(* The numbers that were given.                                            *)

(* The seqs that are counted so far are fewer than MaxSeq.                 *)
LEMMA SeqFits ==
    ASSUME conns \in 0..MaxConns, casts \in 0..MaxCasts, seq \in Nat,
           seq <= 1 + casts + Cardinality(Resynced)
    PROVE  /\ IsFiniteSet(Resynced) /\ Cardinality(Resynced) \in 0..conns
           /\ seq \in Seqs /\ seq <= 1 + casts + MaxConns
<1>1. IsFiniteSet(1..conns) /\ Cardinality(1..conns) = conns
  BY FS_Interval
<1>2. Resynced \subseteq 1..conns
  BY DEF Resynced
<1>3. IsFiniteSet(Resynced) /\ Cardinality(Resynced) <= conns
  <2> DEFINE I == 1..conns
  <2>1. IsFiniteSet(I) /\ Cardinality(I) = conns /\ Resynced \in SUBSET I
    BY <1>1, <1>2
  <2> HIDE DEF I
  <2> QED BY <2>1, FS_Subset
<1>4. Cardinality(Resynced) \in Nat
  BY <1>3, FS_CardinalityType
<1> QED BY <1>3, <1>4, SessionAssumption DEF Seqs, MaxSeq

(* The connections that took their seq: one more, or none.                 *)
LEMMA ResyncedGrows ==
    ASSUME conns' \in Nat, Resynced \subseteq Resynced'
    PROVE  Cardinality(Resynced) \in Nat /\ Cardinality(Resynced') \in Nat
           /\ Cardinality(Resynced) <= Cardinality(Resynced')
<1> DEFINE R == Resynced'
           n == conns'
<1>1. IsFiniteSet(1..n) /\ R \subseteq 1..n
  <2>1. n \in Int /\ 1 \in Int
    OBVIOUS
  <2> QED BY <2>1, FS_Interval DEF Resynced
<1> HIDE DEF R, n
<1>2. IsFiniteSet(R)
  BY <1>1, FS_Subset
<1>3. Resynced \subseteq R
  BY DEF R
<1>4. IsFiniteSet(Resynced) /\ Cardinality(Resynced) <= Cardinality(R)
  BY <1>2, <1>3, FS_Subset
<1>5. Cardinality(R) \in Nat /\ Cardinality(Resynced) \in Nat
  BY <1>2, <1>4, FS_CardinalityType
<1> QED BY <1>4, <1>5 DEF R

(* A connection takes its seq.                                             *)
LEMMA OneMoreResynced ==
    ASSUME conns \in Nat, conns' = conns, NEW x \in 1..conns, pc[x] = "attaching",
           pc'[x] # "attaching", \A k \in 1..conns : k # x => pc'[k] = pc[k]
    PROVE  Cardinality(Resynced') = Cardinality(Resynced) + 1
<1>1. Resynced' = Resynced \cup {x} /\ x \notin Resynced
  BY DEF Resynced
<1>2. IsFiniteSet(Resynced)
  <2>1. IsFiniteSet(1..conns) /\ Resynced \subseteq 1..conns
    BY FS_Interval DEF Resynced
  <2> QED BY <2>1, FS_Subset
<1> QED BY <1>1, <1>2, FS_AddElement

-----------------------------------------------------------------------------
(* The numbering of connections and sockets.                               *)

(* The initial state has no session and no socket.                         *)
LEMMA NoSocketsAtFirst == ASSUME Init PROVE SocketInv
  BY SessionAssumption DEF Init, SocketInv, NumberedByConns, OneSessionPerSocket, Conn, None

(* Taking sockets away keeps the invariant: detach() in the handler's      *)
(* finally and in a broadcast that failed.                                 *)
LEMMA DetachedKeeps ==
    ASSUME SocketInv, NEW s, ws' = Detached(s), UNCHANGED <<sessions, conns>>
    PROVE  SocketInv'
<1>1. /\ ws' \in [Conn -> Conn \cup {None}]
      /\ \A r \in Conn : ws'[r] \in {ws[r], None}
  BY DEF Detached, SocketInv
<1>2. None <= conns
  BY DEF None, SocketInv
<1>3. NumberedByConns'
  BY <1>1, <1>2 DEF SocketInv, NumberedByConns
<1>4. OneSessionPerSocket'
  BY <1>1 DEF SocketInv, OneSessionPerSocket
<1> QED BY <1>1, <1>3, <1>4 DEF SocketInv

(* A new session gets a socket nobody has, whatever socket the session it  *)
(* replaces has got in the meantime.                                       *)
LEMMA CreateSessionKeeps ==
    ASSUME SocketInv, conns < MaxConns, NEW k, k = conns + 1,
           conns' = k, NEW c, NEW s, NEW others, NEW w,
           CreateSession(c, k, others, w),
           \/ w = ws /\ others \subseteq sessions
           \/ w = Reattached(s, k) /\ others = sessions \ {s}
    PROVE  SocketInv'
<1>1. k \in Conn /\ k \notin sessions /\ conns' \in 0..MaxConns
  BY SessionAssumption DEF SocketInv, NumberedByConns, Conn
<1>2. /\ w \in [Conn -> Conn \cup {None}]
      /\ \A r \in Conn : w[r] \in {ws[r], k}
      /\ \A r \in others : w[r] = ws[r]
      /\ others \subseteq sessions
  BY <1>1 DEF SocketInv, Reattached
<1>3. /\ ws' \in [Conn -> Conn \cup {None}]
      /\ ws'[k] = k
      /\ \A r \in Conn : ws'[r] \in {ws[r], k}
      /\ \A r \in others : ws'[r] = ws[r]
      /\ sessions' = others \cup {k}
      /\ sessions' \in SUBSET Conn
  BY <1>1, <1>2 DEF CreateSession, SocketInv
<1>4. NumberedByConns'
  <2>1. \A r \in sessions' : r <= conns'
    BY <1>1, <1>2, <1>3 DEF SocketInv, NumberedByConns, Conn
  <2>2. ASSUME NEW r \in Conn PROVE ws'[r] <= conns'
    BY <1>3, <2>2 DEF SocketInv, NumberedByConns, Conn, None
  <2> QED BY <2>1, <2>2 DEF NumberedByConns
<1>5. OneSessionPerSocket'
  <2> SUFFICES ASSUME NEW r \in sessions', NEW t \in sessions',
                      ws'[r] = ws'[t], ws'[r] # None
               PROVE  r = t
    BY DEF OneSessionPerSocket
  <2>1. \A q \in others : ws'[q] # k
    BY <1>2, <1>3 DEF SocketInv, NumberedByConns, Conn, None
  <2> QED BY <1>2, <1>3, <2>1 DEF SocketInv, OneSessionPerSocket
<1> QED BY <1>1, <1>3, <1>4, <1>5 DEF SocketInv

(* A session that is resumed gets a socket nobody has.                     *)
LEMMA ResumeSessionKeeps ==
    ASSUME SocketInv, conns < MaxConns, NEW k, k = conns + 1,
           conns' = k, NEW c, NEW s \in sessions, NEW n, ResumeSession(c, k, s, n)
    PROVE  SocketInv'
<1>1. k \in Conn /\ conns' \in 0..MaxConns /\ s \in Conn
  BY SessionAssumption DEF SocketInv, Conn
<1>2. /\ ws' \in [Conn -> Conn \cup {None}]
      /\ ws'[s] = k
      /\ \A r \in Conn \ {s} : ws'[r] = ws[r]
      /\ sessions' = sessions
  BY <1>1 DEF ResumeSession, Reattached, SocketInv
<1>3. NumberedByConns'
  <2>1. \A r \in sessions' : r <= conns'
    BY <1>1, <1>2 DEF SocketInv, NumberedByConns, Conn
  <2>2. ASSUME NEW r \in Conn PROVE ws'[r] <= conns'
    BY <1>2, <2>2 DEF SocketInv, NumberedByConns, Conn, None
  <2> QED BY <2>1, <2>2 DEF NumberedByConns
<1>4. OneSessionPerSocket'
  <2>1. \A r \in Conn : ws[r] # k
    BY DEF SocketInv, NumberedByConns, Conn, None
  <2> QED BY <1>1, <1>2, <2>1 DEF SocketInv, OneSessionPerSocket
<1> QED BY <1>1, <1>2, <1>3, <1>4 DEF SocketInv

(* Every step keeps the invariant.                                         *)
LEMMA SocketStepKeeps ==
    ASSUME SocketInv, [Next]_vars PROVE SocketInv'
<1>0. ASSUME UNCHANGED <<sessions, ws, conns>> PROVE SocketInv'
  BY <1>0 DEF SocketInv, NumberedByConns, OneSessionPerSocket
<1>1. ASSUME NEW b \in Caster, Broadcast(b) PROVE SocketInv'
  BY <1>0, <1>1 DEF Broadcast
<1>2. ASSUME NEW c \in Client, Attach(c) PROVE SocketInv'
  <2> DEFINE k == conns + 1
             s == key[c]
  <2>0. conns < MaxConns /\ conns' = k
    BY <1>2 DEF Attach
  <2>1. CASE CreateSession(c, k, sessions, ws)
    BY <2>0, <2>1, CreateSessionKeeps
  <2>2. CASE CreateSession(c, k, Drop(s), ws)
    BY <2>0, <2>2, CreateSessionKeeps DEF Drop
  <2>3. CASE CreateSession(c, k, Drop(s), Reattached(s, k))
    BY <2>0, <2>3, CreateSessionKeeps DEF Drop
  <2>4. CASE s \in sessions /\ ResumeSession(c, k, s, seen[c])
    BY <2>0, <2>4, ResumeSessionKeeps
  <2> QED BY <1>2, <2>1, <2>2, <2>3, <2>4 DEF Attach
<1>3. ASSUME NEW c \in Client, Cut(c) PROVE SocketInv'
  BY <1>0, <1>3 DEF Cut
<1>4. ASSUME NEW k \in Conn, SocketStep(k) PROVE SocketInv'
  <2>1. CASE Write(k)
    BY <1>0, <2>1 DEF Write
  <2>2. CASE Proceed(k)
    BY <1>0, <2>2 DEF Proceed
  <2>3. CASE SendFails(k)
    BY <1>0, <2>3, DetachedKeeps DEF SendFails
  <2>4. CASE Notice(k)
    BY <1>0, <2>4 DEF Notice
  <2>5. CASE ServingEnds(k)
    BY <2>5, DetachedKeeps DEF ServingEnds
  <2> QED BY <1>4, <2>1, <2>2, <2>3, <2>4, <2>5 DEF SocketStep
<1>5. CASE UNCHANGED vars
  BY <1>0, <1>5 DEF vars
<1> QED BY <1>1, <1>2, <1>3, <1>4, <1>5 DEF Next

(* Two sessions never share a socket (session.py:106-119): what is sent to *)
(* one client of the core never reaches it in the name of another session  *)
(* that is still known, however resumptions, refused replays, expired keys *)
(* and failing sends overlap.                                              *)
THEOREM OneSessionPerSocketHolds ==
    Spec => []OneSessionPerSocket
<1>1. Init => SocketInv
  BY NoSocketsAtFirst
<1>2. SocketInv /\ [Next]_vars => SocketInv'
  BY SocketStepKeeps
<1>3. SocketInv => OneSessionPerSocket
  BY DEF SocketInv
<1> QED BY <1>1, <1>2, <1>3, PTL DEF Spec

-----------------------------------------------------------------------------
(* Base: broadcasts.                                                       *)

(* The broadcast of b of frame n went on to the next session of left that  *)
(* has a socket, and is in the line of that one, or is over.               *)
Went(b, n, left, w, l) ==
    /\ cast' \in [Caster -> [seq : Seqs, to : Conn \cup {None}, left : SUBSET Conn]]
    /\ \A d \in Caster \ {b} : cast'[d] = cast[d]
    /\ cast'[b].seq \in {0, n}
    /\ cast'[b].to \in left \cup {None}
    /\ cast'[b].left \subseteq left
    /\ line' \in [Conn -> Seq(Sender)]
    /\ Once(line')
    /\ \A k \in Conn : \A i \in DOMAIN l[k] : i \in DOMAIN line'[k] /\ line'[k][i] = l[k][i]
    /\ \A k \in Conn : \A i \in DOMAIN line'[k] : line'[k][i] = b \/ i \in DOMAIN l[k]
    /\ \A k \in Conn : line'[k] = <<>> => l[k] = <<>>
    /\ \A k \in Conn : line'[k] # l[k] => \E s \in left : w[s] = k
    /\ \A k \in Conn : \A i \in DOMAIN line'[k] :
          line'[k][i] = b => cast'[b].to \in left /\ w[cast'[b].to] = k
    /\ \A t \in left : w[t] # None =>
          /\ cast'[b].seq = n
          /\ \/ t \in cast'[b].left
             \/ \E i \in DOMAIN line'[w[t]] : line'[w[t]][i] = b /\ (i = 1 => l[w[t]] = <<>>)

(* The broadcast of b goes on to its next session, if there is one.        *)
LEMMA CasterJoins ==
    ASSUME cast \in [Caster -> [seq : Seqs, to : Conn \cup {None}, left : SUBSET Conn]],
           NEW b \in Caster, NEW n \in Seqs, NEW left \in SUBSET Conn,
           NEW w \in [Conn -> Conn \cup {None}],
           NEW l \in [Conn -> Seq(Sender)], Once(l), Without(l, b),
           FanOut(b, n, left, w, l)
    PROVE  Went(b, n, left, w, l)
<1> USE DEF Went
<1>0. Silent \in [seq : Seqs, to : Conn \cup {None}, left : SUBSET Conn]
  BY Senders DEF Silent
<1>1. CASE /\ \A s \in left : w[s] = None
           /\ cast' = [cast EXCEPT ![b] = Silent]
           /\ line' = l
  <2>1. /\ cast' \in [Caster -> [seq : Seqs, to : Conn \cup {None}, left : SUBSET Conn]]
        /\ \A d \in Caster \ {b} : cast'[d] = cast[d]
        /\ cast'[b].seq = 0 /\ cast'[b].to = None /\ cast'[b].left = {}
    BY <1>0, <1>1 DEF Silent
  <2>2. \A k \in Conn : \A i \in DOMAIN line'[k] : line'[k][i] # b
    BY <1>1 DEF Without
  <2> QED BY <1>1, <2>1, <2>2
<1>2. ASSUME NEW s \in left,
             w[s] \in Conn,
             \A t \in left : w[t] # None => t = s \/ t > s,
             cast' = [cast EXCEPT ![b] = [seq |-> n, to |-> s, left |-> {t \in left : t > s}]],
             line' = [l EXCEPT ![w[s]] = Append(@, b)]
      PROVE  /\ cast' \in [Caster -> [seq : Seqs, to : Conn \cup {None}, left : SUBSET Conn]]
             /\ \A d \in Caster \ {b} : cast'[d] = cast[d]
             /\ cast'[b].seq = n
             /\ cast'[b].to = s
             /\ cast'[b].left = {t \in left : t > s}
             /\ line' \in [Conn -> Seq(Sender)]
             /\ Once(line')
             /\ \A k \in Conn : \A i \in DOMAIN l[k] : i \in DOMAIN line'[k] /\ line'[k][i] = l[k][i]
             /\ \A k \in Conn : \A i \in DOMAIN line'[k] : line'[k][i] = b \/ i \in DOMAIN l[k]
             /\ \A k \in Conn : line'[k] = <<>> => l[k] = <<>>
             /\ \A k \in Conn : line'[k] # l[k] => w[s] = k
             /\ \A k \in Conn : \A i \in DOMAIN line'[k] : line'[k][i] = b => w[s] = k
             /\ \E i \in DOMAIN line'[w[s]] : line'[w[s]][i] = b /\ (i = 1 => l[w[s]] = <<>>)
  <2>0. [seq |-> n, to |-> s, left |-> {t \in left : t > s}]
             \in [seq : Seqs, to : Conn \cup {None}, left : SUBSET Conn]
    OBVIOUS
  <2>1. /\ cast' \in [Caster -> [seq : Seqs, to : Conn \cup {None}, left : SUBSET Conn]]
        /\ \A d \in Caster \ {b} : cast'[d] = cast[d]
        /\ cast'[b].seq = n
        /\ cast'[b].to = s
        /\ cast'[b].left = {t \in left : t > s}
    BY <1>2, <2>0
  <2> DEFINE j == w[s]
  <2>2. j \in Conn /\ b \in Sender /\ line' = [l EXCEPT ![j] = Append(@, b)]
    BY <1>2, Senders
  <2> HIDE DEF j
  <2>3. /\ line' \in [Conn -> Seq(Sender)]
        /\ \A k \in Conn \ {j} : line'[k] = l[k]
        /\ \A i \in DOMAIN l[j] : i \in DOMAIN line'[j] /\ line'[j][i] = l[j][i]
        /\ \E e \in DOMAIN line'[j] :
              /\ line'[j][e] = b
              /\ e = 1 <=> l[j] = <<>>
              /\ \A i \in DOMAIN line'[j] : i # e => i \in DOMAIN l[j]
        /\ line'[j] # <<>>
        /\ Once(line')
    BY <2>2, Joins
  <2>4. \A k \in Conn : \A i \in DOMAIN line'[k] : line'[k][i] = b => j = k
    BY <2>3 DEF Without
  <2>5. \A k \in Conn : line'[k] = <<>> => l[k] = <<>>
    BY <2>3
  <2>6. \A k \in Conn : \A i \in DOMAIN l[k] : i \in DOMAIN line'[k] /\ line'[k][i] = l[k][i]
    BY <2>3
  <2>7. \A k \in Conn : \A i \in DOMAIN line'[k] : line'[k][i] = b \/ i \in DOMAIN l[k]
    BY <2>3
  <2>8. \A k \in Conn : line'[k] # l[k] => j = k
    BY <2>3
  <2>9. \E i \in DOMAIN line'[j] : line'[j][i] = b /\ (i = 1 => l[j] = <<>>)
    BY <2>3
  <2> QED BY <2>1, <2>3, <2>4, <2>5, <2>6, <2>7, <2>8, <2>9 DEF j
<1> DEFINE reachable == {s \in left : w[s] # None}
<1>3. CASE reachable = {}
  <2>1. /\ \A s \in left : w[s] = None
        /\ cast' = [cast EXCEPT ![b] = Silent]
        /\ line' = l
    BY <1>3 DEF FanOut
  <2> QED BY <1>1, <2>1
<1>4. CASE reachable # {}
  <2> DEFINE s == Min(reachable)
  <2>1. /\ s \in left /\ w[s] \in Conn
        /\ \A t \in left : w[t] # None => t = s \/ t > s
    <3>1. reachable \in SUBSET Nat
      BY Senders
    <3>2. s \in reachable /\ \A t \in reachable : s <= t
      BY <1>4, <3>1, MinIsLeast
    <3> HIDE DEF s
    <3>3. \A t \in reachable : t = s \/ t > s
      BY <3>1, <3>2
    <3> QED BY <3>2, <3>3
  <2>1a. /\ cast' = [cast EXCEPT ![b] = [seq |-> n, to |-> s, left |-> {t \in left : t > s}]]
        /\ line' = [l EXCEPT ![w[s]] = Append(@, b)]
    BY <1>4 DEF FanOut
  <2> HIDE DEF s
  <2>2. /\ cast' \in [Caster -> [seq : Seqs, to : Conn \cup {None}, left : SUBSET Conn]]
        /\ \A d \in Caster \ {b} : cast'[d] = cast[d]
        /\ line' \in [Conn -> Seq(Sender)]
        /\ Once(line')
        /\ \A k \in Conn : \A i \in DOMAIN l[k] : i \in DOMAIN line'[k] /\ line'[k][i] = l[k][i]
        /\ \A k \in Conn : \A i \in DOMAIN line'[k] : line'[k][i] = b \/ i \in DOMAIN l[k]
        /\ \A k \in Conn : line'[k] = <<>> => l[k] = <<>>
    BY <1>2, <2>1, <2>1a
  <2>3. /\ cast'[b].seq = n
        /\ cast'[b].to = s
        /\ cast'[b].left = {t \in left : t > s}
        /\ \A k \in Conn : line'[k] # l[k] => w[s] = k
        /\ \A k \in Conn : \A i \in DOMAIN line'[k] : line'[k][i] = b => w[s] = k
    BY <1>2, <2>1, <2>1a
  <2>4. \E i \in DOMAIN line'[w[s]] : line'[w[s]][i] = b /\ (i = 1 => l[w[s]] = <<>>)
    BY <1>2, <2>1, <2>1a
  <2>5. \A t \in left : w[t] # None => t = s \/ t \in cast'[b].left
    BY <2>1, <2>3
  <2>6. \A t \in left : w[t] # None =>
                 /\ cast'[b].seq = n
                 /\ \/ t \in cast'[b].left
                    \/ \E i \in DOMAIN line'[w[t]] : line'[w[t]][i] = b /\ (i = 1 => l[w[t]] = <<>>)
    BY <2>3, <2>4, <2>5
  <2>7. cast'[b].left \subseteq left
    BY <2>3
  <2>8. \A k \in Conn : line'[k] # l[k] => \E t \in left : w[t] = k
    BY <2>1, <2>3
  <2>9. \A k \in Conn : \A i \in DOMAIN line'[k] :
                 line'[k][i] = b => cast'[b].to \in left /\ w[cast'[b].to] = k
    BY <2>1, <2>3
  <2> HIDE DEF reachable
  <2> QED BY <2>1, <2>2, <2>3, <2>6, <2>7, <2>8, <2>9
<1> QED BY <1>3, <1>4

(* Who is in a line has something to send.                                 *)
LEMMA LinesAreOnce ==
    InOneLine <=> /\ Once(line)
                  /\ \A k \in Conn : \A i \in DOMAIN line[k] :
                        /\ line[k][i] \in Caster => cast[line[k][i]].to # None
                        /\ line[k][i] \notin Caster => pc[line[k][i]] \in Attaching
BY DEF InOneLine, Once

(* A broadcast that has nothing to send is in no line.                     *)
LEMMA SilentIsNowhere ==
    ASSUME InOneLine, NEW b \in Caster, cast[b] = Silent
    PROVE  Without(line, b)
BY LinesAreOnce DEF Without, Silent

(* The counters are natural numbers.                                       *)
LEMMA Numbers ==
    ASSUME TypeOK
    PROVE  /\ seq \in Nat /\ last \in Nat /\ pruned \in Nat /\ log \in SUBSET Nat
           /\ conns \in Nat /\ conns \in 0..MaxConns /\ casts \in Nat /\ casts \in 0..MaxCasts
BY SessionAssumption, Senders DEF TypeOK

(* So are the numbers of connections.                                      *)
LEMMA ConnNumbers ==
    ASSUME TypeOK
    PROVE  /\ \A k \in Conn : k \in Nat /\ at[k] \in Nat /\ ws[k] \in Nat
           /\ \A b \in Caster : cast[b].to \in Nat /\ cast[b].seq \in Nat
           /\ \A c \in Client : cur[c] \in Nat /\ key[c] \in Nat
<1>1. Conn \cup {None} \subseteq Nat /\ Seqs \subseteq Nat
  BY Senders
<1>2. /\ at \in [Conn -> Conn \cup {None}] /\ ws \in [Conn -> Conn \cup {None}]
      /\ cast \in [Caster -> [seq : Seqs, to : Conn \cup {None}, left : SUBSET Conn]]
      /\ cur \in [Client -> Conn \cup {None}] /\ key \in [Client -> Conn \cup {None}]
  BY DEF TypeOK
<1>3. \A b \in Caster : cast[b].to \in Conn \cup {None} /\ cast[b].seq \in Seqs
  BY <1>2
<1> QED BY <1>1, <1>2, <1>3

(* Who is in a line is a sender.                                           *)
LEMMA InLinesAreSenders ==
    ASSUME line \in [Conn -> Seq(Sender)]
    PROVE  \A k \in Conn : \A i \in DOMAIN line[k] :
              line[k][i] \in Sender /\ (line[k][i] \notin Caster => line[k][i] \in Conn)
<1>1. \A k \in Conn : \A i \in DOMAIN line[k] : line[k][i] \in Sender
  OBVIOUS
<1> QED BY <1>1, Senders

(* The log after a broadcast.                                              *)
LEMMA BroadcastPrunes ==
    ASSUME TypeOK, LogInv, NEW b \in Caster, Broadcast(b), NEW n, n = seq + 1
    PROVE  /\ n \in Nat \ {0} /\ seq \in Nat /\ last <= seq
           /\ log' \subseteq log \cup {n}
           /\ pruned' \in 0..n /\ pruned <= pruned'
           /\ \A m \in log' : pruned' < m
           /\ \A m \in log \cup {n} : m > pruned' => m \in log'
           /\ Cardinality(log') \in 0..LogSize
<1>1. /\ seq \in Nat /\ pruned \in Nat /\ last \in Nat /\ log \in SUBSET Nat
      /\ seq = n - 1 /\ n \in Nat \ {0} /\ last <= n - 1 /\ pruned <= n - 1
  BY Numbers DEF LogInv
<1>2. log \cup {n} \in SUBSET (0..n)
  BY <1>1 DEF LogInv
<1>3. pruned \in 0..n /\ \A m \in log \cup {n} : pruned < m
  BY <1>1 DEF LogInv
<1>4. last' = n /\ \E old \in Ages : Prune(log \cup {n}, old)
  BY DEF Broadcast
<1>5. PICK old \in Ages : Prune(log \cup {n}, old)
  BY <1>4
<1>6. n \in Nat
  BY <1>1
<1>7. /\ log' \subseteq log \cup {n}
      /\ pruned' \in 0..n /\ pruned <= pruned'
      /\ \A m \in log' : pruned' < m
      /\ \A m \in log \cup {n} : m > pruned' => m \in log'
      /\ Cardinality(log') \in 0..LogSize
  BY <1>1, <1>2, <1>3, <1>5, <1>6, Pruned
<1> QED BY <1>1, <1>7 DEF LogInv

(* A broadcast keeps Base.                                                 *)
LEMMA BroadcastBase ==
    ASSUME Base, NEW b \in Caster, Broadcast(b) PROVE Base'
<1> USE DEF Base, WellFormed
<1>1. PICK n : n = seq + 1
  OBVIOUS
<1>2. /\ cast[b] = Silent /\ casts < MaxCasts
      /\ casts' = casts + 1 /\ seq' = n /\ last' = n
      /\ \E old \in Ages : Prune(log \cup {n}, old)
      /\ FanOut(b, n, sessions, ws, line)
      /\ owed' = [c \in Client |-> owed[c] \cup {n}]
      /\ UNCHANGED <<sessions, ws, conns, link, pc, at, todo, wrote, cur, key, seen, since, overtaken>>
  BY <1>1 DEF Broadcast
<1>3. /\ casts' \in 0..MaxCasts /\ n \in Seqs /\ n \in Nat \ {0}
      /\ Resynced' = Resynced
      /\ seq' <= 1 + casts' + Cardinality(Resynced')
      /\ seq = n - 1 /\ seq \in Nat
  <2>1. Resynced' = Resynced
    BY <1>2 DEF Resynced
  <2>2. seq \in Nat /\ conns \in 0..MaxConns /\ casts \in 0..MaxCasts
    BY Numbers
  <2>3. Cardinality(Resynced) \in 0..conns /\ seq <= 1 + casts + Cardinality(Resynced)
    BY <2>2, SeqFits DEF Counted
  <2>4. casts + 1 \in 0..MaxCasts
    BY <1>2, <2>2, SessionAssumption
  <2>5. n <= 1 + (casts + 1) + Cardinality(Resynced) /\ n \in Nat \ {0}
    BY <1>1, <2>2, <2>3
  <2>6. n \in Seqs
    BY <1>2, <2>2, <2>3, <2>5, SessionAssumption DEF Seqs, MaxSeq
  <2> QED BY <1>1, <1>2, <2>1, <2>2, <2>4, <2>5, <2>6
<1>4. /\ log' \subseteq log \cup {n}
      /\ pruned' \in 0..n
      /\ \A m \in log' : pruned' < m
  BY <1>1, BroadcastPrunes
<1>5. Without(line, b) /\ Once(line)
  BY <1>2, SilentIsNowhere, LinesAreOnce
<1>6. /\ cast' \in [Caster -> [seq : Seqs, to : Conn \cup {None}, left : SUBSET Conn]]
      /\ \A d \in Caster \ {b} : cast'[d] = cast[d]
      /\ cast'[b].seq \in {0, n}
      /\ cast'[b].to \in sessions \cup {None} /\ cast'[b].left \subseteq sessions
      /\ line' \in [Conn -> Seq(Sender)]
      /\ Once(line')
      /\ \A k \in Conn : \A i \in DOMAIN line[k] : i \in DOMAIN line'[k] /\ line'[k][i] = line[k][i]
      /\ \A k \in Conn : \A i \in DOMAIN line'[k] : line'[k][i] = b \/ i \in DOMAIN line[k]
      /\ \A k \in Conn : line'[k] = <<>> => line[k] = <<>>
      /\ \A k \in Conn : line'[k] # line[k] => \E s \in sessions : ws[s] = k
      /\ \A k \in Conn : \A i \in DOMAIN line'[k] : line'[k][i] = b => cast'[b].to \in sessions
  <2>1. /\ cast \in [Caster -> [seq : Seqs, to : Conn \cup {None}, left : SUBSET Conn]]
        /\ sessions \in SUBSET Conn /\ ws \in [Conn -> Conn \cup {None}]
        /\ line \in [Conn -> Seq(Sender)] /\ n \in Seqs
        /\ Once(line) /\ Without(line, b) /\ FanOut(b, n, sessions, ws, line)
    BY <1>2, <1>3, <1>5 DEF TypeOK
  <2>2. Went(b, n, sessions, ws, line)
    BY <2>1, CasterJoins
  <2> QED BY <2>2 DEF Went
<1>7. SocketInv'
  BY <1>2 DEF SocketInv, NumberedByConns, OneSessionPerSocket
<1>8. TypeOK'
  <2>1. owed' \in [Client -> SUBSET Seqs]
    <3>1. \A c \in Client : owed[c] \cup {n} \in SUBSET Seqs
      BY <1>3 DEF TypeOK
    <3> QED BY <1>2, <3>1
  <2>2. log' \in SUBSET Seqs /\ pruned' \in Seqs
    <3>1. 0..n \subseteq Seqs
      BY <1>3, Senders DEF Seqs
    <3> QED BY <1>3, <1>4, <3>1 DEF TypeOK
  <2> QED BY <1>2, <1>3, <1>6, <2>1, <2>2 DEF TypeOK
<1>9. Counted'
  <2>0. \A s \in sessions : s \in Nat /\ s <= conns /\ ws[s] \in Nat /\ ws[s] <= conns
    BY Senders DEF TypeOK, SocketInv, NumberedByConns
  <2>1. \A k \in Conn : k > conns => line'[k] = line[k]
    BY <1>6, <2>0, Numbers, Senders
  <2>2. cast'[b].left \cup {cast'[b].to} \subseteq 0..conns
    <3>1. sessions \cup {None} \subseteq 0..conns
      BY <2>0, Numbers DEF None
    <3> QED BY <1>6, <3>1
  <2>3. \A d \in Caster : cast'[d].left \cup {cast'[d].to} \subseteq 0..conns
    BY <1>6, <2>2 DEF Counted
  <2> QED BY <1>2, <1>3, <2>1, <2>3 DEF Counted
<1>10. Handlers'
  BY <1>2, <1>6 DEF Handlers
<1>11. InOneLine'
  <2> SUFFICES ASSUME NEW k \in Conn, NEW i \in DOMAIN line'[k]
               PROVE  /\ line'[k][i] \in Caster => cast'[line'[k][i]].to # None
                      /\ line'[k][i] \notin Caster => pc[line'[k][i]] \in Attaching
    BY <1>2, <1>6 DEF InOneLine, Once
  <2>1. CASE line'[k][i] = b
    BY <1>6, <2>1, Senders DEF SocketInv
  <2>2. CASE line'[k][i] # b
    <3>1. i \in DOMAIN line[k] /\ line'[k][i] = line[k][i]
      BY <1>6, <2>2
    <3>2. /\ line[k][i] \in Caster => cast[line[k][i]].to # None
          /\ line[k][i] \notin Caster => pc[line[k][i]] \in Attaching
      BY <3>1, LinesAreOnce
    <3> QED BY <1>6, <2>2, <3>1, <3>2
  <2> QED BY <2>1, <2>2
<1>12. LogInv'
  <2>1. last' = n /\ seq' = n /\ last \in Nat /\ last <= n /\ pruned' <= n
    BY <1>2, <1>3, <1>4, Numbers DEF LogInv
  <2>2. \A m \in log' : m <= n
    BY <1>3, <1>4, <2>1, Numbers DEF LogInv
  <2>3. ASSUME NEW d \in Caster PROVE cast'[d].seq <= n
    <3>1. cast[d].seq \in Nat /\ cast[d].seq <= last
      BY Senders DEF TypeOK, LogInv
    <3> QED BY <1>3, <1>6, <2>1, <3>1
  <2>4. \A c \in Client : owed'[c] \subseteq 1..n
    BY <1>2, <1>3, <2>1 DEF TypeOK, LogInv
  <2>5. \A k \in Conn : \A m \in todo'[k] : m <= n
    BY <1>2, <1>3, Senders DEF TypeOK, LogInv
  <2>6. pruned' <= last' /\ last' <= seq'
    BY <2>1, <1>3
  <2> QED BY <1>4, <2>1, <2>2, <2>3, <2>4, <2>5, <2>6 DEF LogInv
<1> QED BY <1>7, <1>8, <1>9, <1>10, <1>11, <1>12

-----------------------------------------------------------------------------
(* A new connection.                                                       *)

(* The first connection of a session, or one that it is resumed with.      *)
LEMMA NewConnectionBase ==
    ASSUME Base, SocketInv', NEW k \in Conn, k = conns + 1, conns' = k, NEW c \in Client, NEW s \in Conn, s <= k,
           cur[c] = None,
           cur' = [cur EXCEPT ![c] = k],
           link' = [link EXCEPT ![k] = "open"],
           pc' = [pc EXCEPT ![k] = "attaching"],
           line' = [line EXCEPT ![k] = <<k>>],
           at' = [at EXCEPT ![k] = s],
           todo'[k] # {}, todo' = [todo EXCEPT ![k] = todo'[k]], todo'[k] \subseteq 0..seq,
           log' \subseteq log, pruned' \in 0..last, \A n \in log' : pruned' < n,
           owed' \in [Client -> SUBSET Seqs], \A d \in Client : owed'[d] \subseteq owed[d],
           since' \in [Client -> Seqs], overtaken' \in SUBSET Conn,
           UNCHANGED <<seq, last, wrote, casts, cast, key, seen>>
    PROVE  Base'
<1> USE DEF Base, WellFormed
<1>1. /\ k \in Nat \ {0} /\ conns \in Nat /\ k > conns /\ k \in Sender /\ k \notin Caster
      /\ s # None
  BY Numbers, Senders
<1>2. /\ line[k] = <<>> /\ pc[k] = "none" /\ at[k] = None /\ todo[k] = {} /\ wrote[k] = FALSE
  <2>1. line[k] = <<>> /\ pc[k] = "none"
    BY <1>1 DEF Counted
  <2>2. at[k] = None /\ todo[k] = {}
    BY <2>1 DEF Handlers, Attaching
  <2>3. wrote[k] \in BOOLEAN
    BY DEF TypeOK
  <2> QED BY <2>1, <2>2, <2>3 DEF Handlers
<1>3. Once(line) /\ Without(line, k)
  <2>1. pc[k] \notin Attaching
    BY <1>2 DEF Attaching
  <2> QED BY <1>1, <2>1, LinesAreOnce DEF Without
<1>4. line' = [line EXCEPT ![k] = Append(@, k)]
  BY <1>2
<1>5. /\ line' \in [Conn -> Seq(Sender)]
      /\ \A j \in Conn \ {k} : line'[j] = line[j]
      /\ \A i \in DOMAIN line'[k] : line'[k][i] = k
      /\ line'[k] # <<>>
      /\ Once(line')
  <2>1. line \in [Conn -> Seq(Sender)]
    BY DEF TypeOK
  <2>2. /\ line' \in [Conn -> Seq(Sender)]
        /\ \A j \in Conn \ {k} : line'[j] = line[j]
        /\ line'[k] # <<>>
        /\ Once(line')
    <3> HIDE DEF Base, WellFormed
    <3> QED BY ONLY <1>1, <1>3, <1>4, <2>1, k \in Conn, Joins
  <2>3. line'[k] = <<k>>
    BY <2>1
  <2> QED BY <2>2, <2>3
<1>6. TypeOK'
  <2>1. pruned' \in Seqs /\ 0..seq \subseteq Seqs
    BY Numbers, Senders DEF TypeOK, Seqs
  <2>2. todo' \in [Conn -> SUBSET Seqs]
    BY <2>1 DEF TypeOK
  <2>3. conns' \in 0..MaxConns /\ sessions' \in SUBSET Conn /\ ws' \in [Conn -> Conn \cup {None}]
    BY DEF SocketInv
  <2>4. /\ cur' \in [Client -> Conn \cup {None}]
        /\ link' \in [Conn -> {"closed", "open", "cut"}]
        /\ pc' \in [Conn -> {"none", "attaching", "resyncing", "serving"}]
        /\ at' \in [Conn -> Conn \cup {None}]
    BY DEF TypeOK
  <2> QED BY <1>5, <2>1, <2>2, <2>3, <2>4 DEF TypeOK
<1>7. Counted'
  <2>1. Resynced' = Resynced
    <3>1. \A j \in 1..conns : j \in Conn /\ j # k
      BY <1>1, Numbers, SessionAssumption DEF Conn
    <3>2. 1..conns' = (1..conns) \cup {k}
      BY <1>1
    <3>3. \A j \in 1..conns : pc'[j] = pc[j]
      BY <3>1 DEF TypeOK
    <3>4. pc'[k] = "attaching"
      BY DEF TypeOK
    <3> QED BY <3>2, <3>3, <3>4 DEF Resynced
  <2>2. ASSUME NEW j \in Conn, j > k PROVE pc'[j] = "none" /\ line'[j] = <<>>
    <3>1. j > conns /\ j # k
      BY <1>1, <2>2, Senders
    <3> QED BY <1>5, <3>1 DEF Counted, TypeOK
  <2>3. \A j \in Conn : at'[j] <= k
    <3>1. \A j \in Conn : at[j] \in Nat /\ at[j] <= conns
      BY ConnNumbers DEF Counted
    <3> QED BY <1>1, <3>1 DEF TypeOK
  <2>4. \A b \in Caster : cast[b].left \cup {cast[b].to} \subseteq 0..k
    <3>1. 0..conns \subseteq 0..k
      BY <1>1
    <3> QED BY <3>1 DEF Counted
  <2>5. \A d \in Client : cur'[d] <= k /\ key[d] <= k
    <3>1. \A d \in Client : cur[d] \in Nat /\ cur[d] <= conns /\ key[d] \in Nat /\ key[d] <= conns
      BY ConnNumbers DEF Counted
    <3> QED BY <1>1, <3>1 DEF TypeOK
  <2> QED BY <2>1, <2>2, <2>3, <2>4, <2>5 DEF Counted
<1>8. Handlers'
  <2> SUFFICES ASSUME NEW j \in Conn
               PROVE  /\ pc'[j] = "none" <=> at'[j] = None
                      /\ pc'[j] \in Attaching <=> todo'[j] # {}
                      /\ pc'[j] = "none" => link'[j] = "closed"
                      /\ link'[j] = "open" <=> \E d \in Client : cur'[d] = j
                      /\ \A d, e \in Client : cur'[d] = j /\ cur'[e] = j => d = e
                      /\ wrote'[j] => line'[j] # <<>>
    BY DEF Handlers
  <2>1. CASE j = k
    <3>1. cur'[c] = k /\ \A d \in Client : cur'[d] = k => d = c
      <4>1. \A d \in Client : cur[d] # k
        BY <1>1, ConnNumbers DEF Counted
      <4> QED BY <4>1 DEF TypeOK
    <3> QED BY <1>1, <1>2, <1>5, <2>1, <3>1 DEF TypeOK, Attaching
  <2>2. CASE j # k
    <3>1. \A d \in Client : cur'[d] = j <=> cur[d] = j
      BY <2>2, Senders DEF TypeOK
    <3>2. UNCHANGED <<pc[j], at[j], todo[j], link[j], wrote[j], line[j]>>
      BY <1>5, <2>2 DEF TypeOK
    <3> QED BY <3>1, <3>2 DEF Handlers
  <2> QED BY <2>1, <2>2
<1>9. InOneLine'
  <2> SUFFICES ASSUME NEW j \in Conn, NEW i \in DOMAIN line'[j]
               PROVE  /\ line'[j][i] \in Caster => cast[line'[j][i]].to # None
                      /\ line'[j][i] \notin Caster => pc'[line'[j][i]] \in Attaching
    BY <1>5 DEF InOneLine, Once
  <2>1. CASE j = k
    BY <1>1, <1>5, <2>1 DEF TypeOK, Attaching
  <2>2. CASE j # k
    BY <1>3, <1>5, <2>2, LinesAreOnce DEF TypeOK, Without
  <2> QED BY <2>1, <2>2
<1>10. LogInv'
  <2>1. \A j \in Conn : \A n \in todo'[j] : n <= seq
    BY Numbers DEF LogInv, TypeOK
  <2>2. pruned' <= last
    BY Numbers
  <2> QED BY <2>1, <2>2 DEF LogInv
<1> QED BY <1>6, <1>7, <1>8, <1>9, <1>10

(* The log after an attach.                                                *)
LEMMA AttachPrunes ==
    ASSUME TypeOK, LogInv, NEW c \in Client, Attach(c)
    PROVE  /\ log' \subseteq log
           /\ pruned' \in 0..last /\ pruned <= pruned'
           /\ \A n \in log' : pruned' < n
           /\ \A n \in log : n > pruned' => n \in log'
           /\ Cardinality(log) <= LogSize => Cardinality(log') <= LogSize
<1>1. /\ pruned \in 0..last /\ pruned \in Nat /\ log \in SUBSET (0..last) /\ \A n \in log : pruned < n
      /\ last \in Nat
  BY Numbers DEF LogInv
<1>2. CASE UNCHANGED <<log, pruned>>
  BY <1>1, <1>2
<1>3. CASE \E old \in Ages : Prune(log, old)
  <2>1. PICK old \in Ages : Prune(log, old)
    BY <1>3
  <2>2. /\ log' \subseteq log
        /\ pruned' \in 0..last /\ pruned <= pruned'
        /\ \A n \in log' : pruned' < n
        /\ \A n \in log : n > pruned' => n \in log'
        /\ Cardinality(log') \in 0..LogSize
    BY <1>1, <2>1, Pruned
  <2> QED BY <2>2, SessionAssumption
<1> QED BY <1>2, <1>3 DEF Attach

(* An attach keeps Base.                                                   *)
LEMMA AttachBase ==
    ASSUME Base, SocketInv', NEW c \in Client, Attach(c) PROVE Base'
<1> DEFINE k == conns + 1
           s == key[c]
<1>0. TypeOK /\ LogInv
  BY DEF Base, WellFormed
<1>1. /\ k \in Conn /\ conns' = k /\ cur[c] = None
      /\ cur' = [cur EXCEPT ![c] = k]
      /\ link' = [link EXCEPT ![k] = "open"]
      /\ pc' = [pc EXCEPT ![k] = "attaching"]
      /\ line' = [line EXCEPT ![k] = <<k>>]
      /\ UNCHANGED <<seq, last, wrote, casts, cast, key, seen>>
  <2>1. k \in Conn
    BY <1>0, Numbers, SessionAssumption DEF Attach, Conn
  <2> QED BY <2>1 DEF Attach
<1>2. /\ log' \subseteq log /\ pruned' \in 0..last /\ \A n \in log' : pruned' < n
  BY <1>0, AttachPrunes
<1>3. /\ key[c] \in Nat /\ key[c] <= conns /\ conns \in Nat /\ seq \in Nat /\ k <= k
  BY <1>0, ConnNumbers, Numbers DEF Base, Counted
<1> HIDE DEF k
<1>4. ASSUME NEW others, NEW w, CreateSession(c, k, others, w) PROVE Base'
  <2>1. /\ at' = [at EXCEPT ![k] = k] /\ todo' = [todo EXCEPT ![k] = {Ack}]
        /\ owed' = [owed EXCEPT ![c] = {}] /\ since' = [since EXCEPT ![c] = 0]
        /\ UNCHANGED overtaken
    BY <1>4 DEF CreateSession
  <2>2. /\ todo'[k] = {Ack} /\ Ack \in 0..seq
    BY <1>0, <1>1, <1>3, <2>1 DEF TypeOK, Ack
  <2>3. /\ owed' \in [Client -> SUBSET Seqs] /\ \A d \in Client : owed'[d] \subseteq owed[d]
        /\ since' \in [Client -> Seqs] /\ overtaken' \in SUBSET Conn
    BY <1>0, <2>1, Senders DEF TypeOK
  <2> QED BY <1>1, <1>2, <1>3, <2>1, <2>2, <2>3, NewConnectionBase DEF k
<1>5. ASSUME s \in sessions, ResumeSession(c, k, s, seen[c]) PROVE Base'
  <2>1. /\ at' = [at EXCEPT ![k] = s] /\ todo' = [todo EXCEPT ![k] = {Ack} \cup ReplayTail(seen[c])]
        /\ since' = [since EXCEPT ![c] = seen[c]] /\ UNCHANGED owed
        /\ overtaken' \in {overtaken, overtaken \cup {s}}
    BY <1>5 DEF ResumeSession
  <2>2. /\ todo'[k] = {Ack} \cup ReplayTail(seen[c])
    BY <1>0, <1>1, <2>1 DEF TypeOK
  <2>3. todo'[k] \subseteq 0..seq /\ todo'[k] # {}
    <3>1. log \subseteq 0..seq
      BY <1>0, Numbers DEF LogInv
    <3>2. Ack \in 0..seq
      BY <1>3 DEF Ack
    <3>3. ReplayTail(seen[c]) \subseteq log
      BY <1>2 DEF ReplayTail
    <3> QED BY <2>2, <3>1, <3>2, <3>3
  <2>4. s \in Conn /\ s <= k
    BY <1>0, <1>3, <1>5 DEF TypeOK, k
  <2>5. /\ owed' \in [Client -> SUBSET Seqs] /\ \A d \in Client : owed'[d] \subseteq owed[d]
        /\ since' \in [Client -> Seqs] /\ overtaken' \in SUBSET Conn
    BY <1>0, <2>1, <2>4 DEF TypeOK
  <2> QED BY <1>1, <1>2, <1>3, <2>1, <2>2, <2>3, <2>4, <2>5, NewConnectionBase DEF k
<1> QED BY <1>4, <1>5 DEF Attach, k

(* A client that goes away keeps Base.                                     *)
LEMMA CutBase == ASSUME Base, NEW c \in Client, Cut(c) PROVE Base'
<1> USE DEF Base, WellFormed
<1>1. /\ cur[c] # None /\ cur[c] \in Conn
      /\ link' = [link EXCEPT ![cur[c]] = "cut"]
      /\ cur' = [cur EXCEPT ![c] = None]
      /\ since' = [since EXCEPT ![c] = 0]
      /\ UNCHANGED <<logVars, sessions, ws, conns, pc, at, todo, line, wrote, casts, cast,
                     key, seen, owed, overtaken>>
  BY DEF Cut, TypeOK
<1>2. TypeOK'
  BY <1>1, Senders DEF TypeOK, logVars
<1>3. Counted'
  <2>1. Resynced' = Resynced /\ seq' = seq
    BY <1>1 DEF Resynced, logVars
  <2>2. \A d \in Client : cur'[d] <= conns
    BY <1>1, Numbers DEF Counted, TypeOK, None
  <2> QED BY <1>1, <2>1, <2>2 DEF Counted
<1>4. Handlers'
  <2>1. link[cur[c]] = "open" /\ pc[cur[c]] # "none"
    BY <1>1 DEF Handlers
  <2>2. ASSUME NEW j \in Conn
        PROVE  /\ link'[j] = "open" <=> \E d \in Client : cur'[d] = j
               /\ \A d, e \in Client : cur'[d] = j /\ cur'[e] = j => d = e
    <3>0. /\ cur'[c] = None /\ None # j
          /\ \A d \in Client \ {c} : cur'[d] = cur[d]
      BY <1>1, Senders DEF TypeOK
    <3>1. CASE j = cur[c]
      <4>1. link'[j] = "cut" /\ \A d \in Client : cur'[d] # j
        BY <1>1, <3>0, <3>1 DEF Handlers, TypeOK
      <4> QED BY <4>1
    <3>2. CASE j # cur[c]
      <4>1. link'[j] = link[j] /\ \A d \in Client : cur'[d] = j <=> cur[d] = j
        BY <1>1, <3>0, <3>2 DEF TypeOK
      <4> QED BY <4>1 DEF Handlers
    <3> QED BY <3>1, <3>2
  <2> QED BY <1>1, <2>1, <2>2 DEF Handlers, TypeOK
<1> QED BY <1>1, <1>2, <1>3, <1>4 DEF SocketInv, NumberedByConns, OneSessionPerSocket, InOneLine,
          LogInv, logVars

-----------------------------------------------------------------------------
(* Base: sends and receipts.                                               *)

(* Who is first in line, and what it writes.                               *)
LEMMA FirstInLine ==
    ASSUME Base, NEW k \in Conn, line[k] # <<>>, NEW x, x = Head(line[k])
    PROVE  /\ x \in Sender /\ x = line[k][1] /\ 1 \in DOMAIN line[k]
           /\ Frame(x) \in Seqs
           /\ x \in Caster => cast[x].to \in Conn /\ Frame(x) = cast[x].seq
           /\ x \notin Caster =>
                 /\ x \in Conn /\ x <= conns /\ pc[x] \in Attaching /\ at[x] \in Conn
                 /\ Frame(x) = Min(todo[x]) /\ Min(todo[x]) \in todo[x]
<1> USE DEF Base, WellFormed
<1>1. x \in Sender /\ x = line[k][1] /\ 1 \in DOMAIN line[k]
  <2>1. line[k] \in Seq(Sender)
    BY DEF TypeOK
  <2> QED BY <2>1
<1>2. CASE x \in Caster
  <2>1. cast[x].to # None
    BY <1>1, <1>2, LinesAreOnce
  <2> QED BY <1>1, <1>2, <2>1 DEF TypeOK, Frame
<1>3. CASE x \notin Caster
  <2>1. x \in Conn /\ pc[x] \in Attaching
    BY <1>1, <1>3, LinesAreOnce, Senders
  <2>2. todo[x] # {} /\ pc[x] # "none" /\ todo[x] \in SUBSET Seqs
    <3>1. todo[x] # {} /\ pc[x] # "none"
      BY <2>1 DEF Handlers, Attaching
    <3> QED BY <2>1, <3>1 DEF TypeOK
  <2>3. x <= conns
    BY <2>1, <2>2, Numbers, Senders DEF Counted
  <2>4. at[x] \in Conn
    <3>1. at[x] # None
      BY <2>1, <2>2 DEF Handlers
    <3>2. at[x] \in Conn \cup {None}
      BY <2>1 DEF TypeOK
    <3> QED BY <3>1, <3>2
  <2>5. Min(todo[x]) \in todo[x]
    <3>1. todo[x] \in SUBSET Nat
      BY <2>2, Senders
    <3> QED BY <2>2, <3>1, MinIsLeast
  <2> QED BY <1>1, <1>3, <2>1, <2>2, <2>3, <2>4, <2>5 DEF Frame
<1> QED BY <1>2, <1>3

(* What the client of a connection gets out of a write.                    *)
LEMMA WriteDelivers ==
    ASSUME Base, NEW k \in Conn, Write(k)
    PROVE  /\ seen' \in [Client -> Seqs]
           /\ key' \in [Client -> Conn \cup {None}] /\ \A c \in Client : key'[c] \in {key[c], at[k]}
           /\ owed' \in [Client -> SUBSET Seqs] /\ \A c \in Client : owed'[c] \subseteq owed[c]
           /\ \A c \in Client : cur[c] = k =>
                 Frame(Head(line[k])) \notin owed'[c]
           /\ \A c \in Client : key'[c] # key[c] => cur[c] = k /\ key'[c] = at[k]
<1> USE DEF Base, WellFormed
<1> DEFINE f == Frame(Head(line[k]))
<1>0. TypeOK /\ f \in Seqs
  BY FirstInLine DEF Write, Unwritten
<1> HIDE DEF f
<1>1. CASE link[k] = "open"
  <2>1. Receive(k, f)
    BY <1>1 DEF Write, f
  <2>2. PICK c : c = CHOOSE d \in Client : cur[d] = k
    OBVIOUS
  <2>3. c \in Client /\ cur[c] = k /\ \A d \in Client : cur[d] = k => d = c
    BY <1>1, <2>2 DEF Handlers
  <2>4. /\ seen' = [seen EXCEPT ![c] = IF f > @ THEN f ELSE @]
        /\ key' = IF f = Ack THEN [key EXCEPT ![c] = at[k]] ELSE key
        /\ owed' = [owed EXCEPT ![c] = @ \ {f}]
    BY <2>1, <2>2 DEF Receive
  <2> QED BY <1>0, <2>3, <2>4 DEF TypeOK, f
<1>2. CASE link[k] # "open"
  <2>1. UNCHANGED <<seen, key, owed>>
    BY <1>2 DEF Write
  <2> QED BY <1>0, <1>2, <2>1 DEF TypeOK, Handlers
<1> QED BY <1>1, <1>2

(* A write keeps Base.                                                     *)
LEMMA WriteBase == ASSUME Base, NEW k \in Conn, Write(k) PROVE Base'
<1> USE DEF Base, WellFormed
<1>1. /\ line[k] # <<>>
      /\ wrote' = [wrote EXCEPT ![k] = TRUE]
      /\ UNCHANGED <<logVars, sessions, ws, conns, link, pc, at, todo, line, casts, cast,
                     cur, since, overtaken>>
  BY DEF Write, Unwritten
<1>2. /\ seen' \in [Client -> Seqs]
      /\ key' \in [Client -> Conn \cup {None}] /\ \A c \in Client : key'[c] \in {key[c], at[k]}
      /\ owed' \in [Client -> SUBSET Seqs] /\ \A c \in Client : owed'[c] \subseteq owed[c]
  BY WriteDelivers
<1>3. TypeOK'
  <2>1. wrote' \in [Conn -> BOOLEAN]
    BY <1>1 DEF TypeOK
  <2> QED BY <1>1, <1>2, <2>1 DEF TypeOK, logVars
<1>4. Counted'
  <2>1. Resynced' = Resynced /\ seq' = seq
    BY <1>1 DEF Resynced, logVars
  <2>2. \A c \in Client : key'[c] <= conns
    BY <1>2 DEF Counted
  <2> QED BY <1>1, <2>1, <2>2 DEF Counted
<1>5. Handlers'
  BY <1>1 DEF Handlers, TypeOK
<1>6. InOneLine'
  BY <1>1 DEF InOneLine
<1>7. LogInv'
  <2>1. \A c \in Client : owed'[c] \subseteq 1..last
    BY <1>2 DEF LogInv
  <2> QED BY <1>1, <2>1 DEF LogInv, logVars
<1> QED BY <1>1, <1>3, <1>4, <1>5, <1>6, <1>7 DEF SocketInv, NumberedByConns, OneSessionPerSocket

(* A handler that sees its client gone keeps Base.                         *)
LEMMA NoticeBase == ASSUME Base, NEW k \in Conn, Notice(k) PROVE Base'
<1> USE DEF Base, WellFormed
<1>1. /\ link[k] = "cut"
      /\ link' = [link EXCEPT ![k] = "closed"]
      /\ wrote' = [wrote EXCEPT ![k] = FALSE]
      /\ UNCHANGED <<logVars, sessions, ws, conns, pc, at, todo, line, casts,
                     cast, cur, key, seen, history>>
  BY DEF Notice
<1>2. TypeOK'
  BY <1>1 DEF TypeOK, logVars, history
<1>3. Counted'
  BY <1>1 DEF Counted, Resynced, logVars
<1>4. Handlers'
  BY <1>1 DEF Handlers, TypeOK
<1> QED BY <1>1, <1>2, <1>3, <1>4 DEF SocketInv, NumberedByConns, OneSessionPerSocket, InOneLine,
          LogInv, logVars, history

(* What is left of a connection whose handler is done.                     *)
LEMMA ClosedLeaves ==
    ASSUME Base, NEW x \in Conn, Closed(x)
    PROVE  /\ todo' \in [Conn -> SUBSET Seqs]
           /\ pc' \in [Conn -> {"none", "attaching", "resyncing", "serving"}]
           /\ link' \in [Conn -> {"closed", "open", "cut"}]
           /\ at' \in [Conn -> Conn \cup {None}]
           /\ cur' \in [Client -> Conn \cup {None}]
           /\ pc'[x] = "none" /\ at'[x] = None /\ todo'[x] = {} /\ link'[x] = "closed"
           /\ \A c \in Client : cur'[c] # x /\ cur'[c] \in {cur[c], None}
           /\ \A c \in Client : cur[c] # x => cur'[c] = cur[c]
           /\ \A k \in Conn \ {x} : UNCHANGED <<pc[k], at[k], todo[k], link[k]>>
           /\ \A k \in Conn : /\ pc'[k] = "none" <=> at'[k] = None
                              /\ pc'[k] \in Attaching <=> todo'[k] # {}
                              /\ pc'[k] = "none" => link'[k] = "closed"
                              /\ link'[k] = "open" <=> \E c \in Client : cur'[c] = k
                              /\ \A c, d \in Client : cur'[c] = k /\ cur'[d] = k => c = d
           /\ \A k \in Conn : at'[k] <= conns
           /\ \A c \in Client : cur'[c] <= conns
           /\ \A k \in Conn : k > conns => pc'[k] = "none"
<1> USE DEF Base, WellFormed
<1>1. /\ todo' \in [Conn -> SUBSET Seqs]
      /\ pc' \in [Conn -> {"none", "attaching", "resyncing", "serving"}]
      /\ link' \in [Conn -> {"closed", "open", "cut"}]
      /\ at' \in [Conn -> Conn \cup {None}]
      /\ cur' \in [Client -> Conn \cup {None}]
  BY DEF Closed, TypeOK
<1>2. /\ pc'[x] = "none" /\ at'[x] = None /\ todo'[x] = {} /\ link'[x] = "closed"
      /\ \A k \in Conn \ {x} : UNCHANGED <<pc[k], at[k], todo[k], link[k]>>
  BY DEF Closed, TypeOK
<1>3. /\ \A c \in Client : cur'[c] # x /\ cur'[c] \in {cur[c], None}
      /\ \A c \in Client : cur[c] # x => cur'[c] = cur[c]
  BY Senders DEF Closed
<1>4. ASSUME NEW k \in Conn
      PROVE  /\ pc'[k] = "none" <=> at'[k] = None
             /\ pc'[k] \in Attaching <=> todo'[k] # {}
             /\ pc'[k] = "none" => link'[k] = "closed"
             /\ link'[k] = "open" <=> \E c \in Client : cur'[c] = k
             /\ \A c, d \in Client : cur'[c] = k /\ cur'[d] = k => c = d
             /\ at'[k] <= conns
             /\ k > conns => pc'[k] = "none"
  <2>1. CASE k = x
    BY <1>2, <1>3, <2>1, Numbers DEF Attaching, None
  <2>2. CASE k # x
    <3>1. \A c \in Client : cur'[c] = k <=> cur[c] = k
      BY <1>3, <2>2, Senders
    <3> QED BY <1>2, <2>2, <3>1 DEF Handlers, Counted
  <2> QED BY <2>1, <2>2
<1>5. \A c \in Client : cur'[c] <= conns
  BY <1>3, Numbers DEF Counted, None
<1> QED BY <1>1, <1>2, <1>3, <1>4, <1>5

(* A handler that is done keeps Base.                                      *)
LEMMA ServingEndsBase == ASSUME Base, SocketInv', NEW k \in Conn, ServingEnds(k) PROVE Base'
<1> USE DEF Base, WellFormed
<1>1. /\ pc[k] = "serving" /\ Closed(k)
      /\ UNCHANGED <<seq, log, last, pruned, sessions, conns, line, wrote, casts, cast, key, seen,
                     owed, since, overtaken>>
  BY DEF ServingEnds, logVars, history
<1>2. \A j \in Conn : pc[j] \in Attaching => j # k
  BY <1>1 DEF Attaching
<1>3. TypeOK'
  <2>1. sessions' \in SUBSET Conn /\ ws' \in [Conn -> Conn \cup {None}]
    BY DEF SocketInv
  <2> QED BY <1>1, <2>1, ClosedLeaves DEF TypeOK
<1>4. Counted'
  <2>1. Resynced' = Resynced
    <3>1. 1..conns \subseteq Conn
      BY Numbers, SessionAssumption DEF Conn
    <3>2. \A j \in 1..conns : pc'[j] # "attaching" <=> pc[j] # "attaching"
      BY <1>1, <3>1, ClosedLeaves
    <3> QED BY <1>1, <3>2 DEF Resynced
  <2> QED BY <1>1, <2>1, ClosedLeaves DEF Counted
<1>5. Handlers'
  BY <1>1, ClosedLeaves DEF Handlers
<1>6. InOneLine'
  <2>1. \A j \in Conn : pc[j] \in Attaching => pc'[j] \in Attaching
    BY <1>1, <1>2, ClosedLeaves
  <2>3. \A j \in Conn : \A i \in DOMAIN line[j] : line[j][i] \notin Caster => line[j][i] \in Conn
    BY InLinesAreSenders DEF TypeOK
  <2> QED BY <1>1, <2>1, <2>3 DEF InOneLine
<1>7. LogInv'
  <2>1. \A j \in Conn : todo'[j] \subseteq todo[j]
    BY <1>1, ClosedLeaves
  <2> QED BY <1>1, <2>1 DEF LogInv
<1> QED BY <1>3, <1>4, <1>5, <1>6, <1>7

-----------------------------------------------------------------------------
(* Base: a sender that goes on.                                            *)

(* Who is still in line was in line.                                       *)
LEMMA StillInLine ==
    ASSUME Base, NEW k \in Conn, line[k] # <<>>, NEW x, x = Head(line[k])
    PROVE  /\ Popped(k) \in [Conn -> Seq(Sender)] /\ Once(Popped(k)) /\ Without(Popped(k), x)
           /\ \A j \in Conn \ {k} : Popped(k)[j] = line[j]
           /\ \A j \in Conn : j > conns => Popped(k)[j] = <<>>
           /\ \A i \in DOMAIN Popped(k)[k] : i \in Nat \ {0} /\ i + 1 \in DOMAIN line[k]
                                           /\ Popped(k)[k][i] = line[k][i + 1]
           /\ \A j \in Conn : \A i \in DOMAIN Popped(k)[j] :
                 /\ Popped(k)[j][i] \in Caster => cast[Popped(k)[j][i]].to # None
                 /\ Popped(k)[j][i] \notin Caster =>
                       Popped(k)[j][i] \in Conn /\ pc[Popped(k)[j][i]] \in Attaching
<1> DEFINE l == Popped(k)
<1>1. /\ line \in [Conn -> Seq(Sender)] /\ Once(line)
      /\ \A j \in Conn : j > conns => line[j] = <<>>
      /\ \A j \in Conn : \A i \in DOMAIN line[j] :
            /\ line[j][i] \in Caster => cast[line[j][i]].to # None
            /\ line[j][i] \notin Caster => line[j][i] \in Conn /\ pc[line[j][i]] \in Attaching
  <2>1. line \in [Conn -> Seq(Sender)] /\ InOneLine
    BY DEF Base, WellFormed, TypeOK
  <2> QED BY <2>1, LinesAreOnce, InLinesAreSenders DEF Base, Counted
<1>2. /\ l \in [Conn -> Seq(Sender)] /\ Once(l) /\ Without(l, x)
      /\ \A j \in Conn \ {k} : l[j] = line[j]
      /\ \A i \in DOMAIN l[k] : i \in Nat \ {0} /\ i + 1 \in DOMAIN line[k] /\ l[k][i] = line[k][i + 1]
  BY <1>1, Leaves
<1> HIDE DEF l
<1>3. \A j \in Conn : \A i \in DOMAIN l[j] : \E m \in DOMAIN line[j] : l[j][i] = line[j][m]
  BY <1>2
<1>4. \A j \in Conn : j > conns => l[j] = <<>>
  BY <1>1, <1>2
<1>5. \A j \in Conn : \A i \in DOMAIN l[j] :
         /\ l[j][i] \in Caster => cast[l[j][i]].to # None
         /\ l[j][i] \notin Caster => l[j][i] \in Conn /\ pc[l[j][i]] \in Attaching
  BY <1>1, <1>3
<1> QED BY <1>2, <1>4, <1>5 DEF l

(* A broadcast goes on.                                                    *)
LEMMA CasterMovesBase ==
    ASSUME Base, SocketInv', NEW k \in Conn, line[k] # <<>>, NEW x \in Caster, x = Head(line[k]),
           NEW l, l = Popped(k), NEW w, w = ws',
           wrote' = [wrote EXCEPT ![k] = FALSE],
           FanOut(x, cast[x].seq, cast[x].left, w, l),
           UNCHANGED <<seq, log, last, pruned, sessions, conns, link, pc, at, todo, casts, cur, key,
                       seen, owed, since, overtaken>>
    PROVE  Base'
<1>0. Base /\ TypeOK
  BY DEF Base, WellFormed
<1>1. /\ l \in [Conn -> Seq(Sender)] /\ Once(l) /\ Without(l, x)
      /\ \A j \in Conn \ {k} : l[j] = line[j]
      /\ \A j \in Conn : j > conns => l[j] = <<>>
      /\ \A j \in Conn : \A i \in DOMAIN l[j] :
            /\ l[j][i] \in Caster => cast[l[j][i]].to # None
            /\ l[j][i] \notin Caster => l[j][i] \in Conn /\ pc[l[j][i]] \in Attaching
  BY StillInLine
<1>2. /\ cast[x].seq \in Seqs /\ cast[x].left \in SUBSET Conn /\ w \in [Conn -> Conn \cup {None}]
      /\ cast \in [Caster -> [seq : Seqs, to : Conn \cup {None}, left : SUBSET Conn]]
  BY <1>0 DEF TypeOK, SocketInv
<1>3. Went(x, cast[x].seq, cast[x].left, w, l)
  BY <1>1, <1>2, CasterJoins
<1>4. /\ cast' \in [Caster -> [seq : Seqs, to : Conn \cup {None}, left : SUBSET Conn]]
      /\ \A d \in Caster \ {x} : cast'[d] = cast[d]
      /\ cast'[x].seq \in {0, cast[x].seq}
      /\ cast'[x].to \in cast[x].left \cup {None}
      /\ cast'[x].left \subseteq cast[x].left
      /\ line' \in [Conn -> Seq(Sender)]
      /\ Once(line')
      /\ \A j \in Conn : \A i \in DOMAIN l[j] : i \in DOMAIN line'[j] /\ line'[j][i] = l[j][i]
      /\ \A j \in Conn : \A i \in DOMAIN line'[j] : line'[j][i] = x \/ i \in DOMAIN l[j]
      /\ \A j \in Conn : line'[j] = <<>> => l[j] = <<>>
      /\ \A j \in Conn : line'[j] # l[j] => \E s \in cast[x].left : w[s] = j
      /\ \A j \in Conn : \A i \in DOMAIN line'[j] : line'[j][i] = x => cast'[x].to \in cast[x].left
  BY <1>3 DEF Went
<1>5. TypeOK'
  <2>1. wrote' \in [Conn -> BOOLEAN]
    BY <1>0 DEF TypeOK
  <2>2. ws' \in [Conn -> Conn \cup {None}]
    BY DEF SocketInv
  <2> QED BY <1>0, <1>4, <2>1, <2>2 DEF TypeOK
<1>6. Counted'
  <2>1. Resynced' = Resynced
    BY DEF Resynced
  <2>2. \A j \in Conn : j > conns => line'[j] = <<>>
    <3>1. \A s \in Conn : ws'[s] <= conns
      BY DEF SocketInv, NumberedByConns
    <3>2. \A s \in Conn : ws'[s] \in Nat
      BY <1>2, Senders
    <3>3. \A j \in Conn : j > conns => line'[j] = l[j]
      BY <1>0, <1>2, <1>4, <3>1, <3>2, Numbers, Senders
    <3> QED BY <1>1, <3>3
  <2>3. \A b \in Caster : cast'[b].left \cup {cast'[b].to} \subseteq 0..conns
    <3>1. \A b \in Caster : cast[b].left \cup {cast[b].to} \subseteq 0..conns
      BY DEF Base, Counted
    <3>2. None \in 0..conns
      BY <1>0, Numbers DEF None
    <3>3. cast'[x].left \cup {cast'[x].to} \subseteq 0..conns
      BY <1>4, <3>1, <3>2
    <3>4. \A b \in Caster \ {x} : cast'[b].left \cup {cast'[b].to} \subseteq 0..conns
      BY <1>4, <3>1
    <3> QED BY <3>3, <3>4
  <2> QED BY <2>1, <2>2, <2>3 DEF Base, Counted
<1>7. Handlers'
  <2>1. \A j \in Conn : wrote'[j] => line'[j] # <<>>
    BY <1>0, <1>1, <1>4 DEF Base, Handlers, TypeOK
  <2> QED BY <2>1 DEF Base, Handlers
<1>8. InOneLine'
  <2> SUFFICES ASSUME NEW j \in Conn, NEW i \in DOMAIN line'[j]
               PROVE  /\ line'[j][i] \in Caster => cast'[line'[j][i]].to # None
                      /\ line'[j][i] \notin Caster => pc[line'[j][i]] \in Attaching
    BY <1>4 DEF InOneLine, Once
  <2>1. CASE line'[j][i] = x
    BY <1>2, <1>4, <2>1, Senders
  <2>2. CASE line'[j][i] # x
    <3>1. i \in DOMAIN l[j] /\ line'[j][i] = l[j][i]
      BY <1>4, <2>2
    <3>2. /\ l[j][i] \in Caster => cast[l[j][i]].to # None
          /\ l[j][i] \notin Caster => pc[l[j][i]] \in Attaching
      BY <1>1, <3>1
    <3>3. \A d \in Caster : d # x => cast'[d].to = cast[d].to
      BY <1>4
    <3> QED BY <2>2, <3>1, <3>2, <3>3
  <2> QED BY <2>1, <2>2
<1>9. LogInv'
  <2>1. \A b \in Caster : cast[b].seq <= last
    BY DEF Base, LogInv
  <2>2. 0 <= last
    BY <1>0, Numbers
  <2>3. \A b \in Caster : cast'[b].seq <= last
    BY <1>4, <2>1, <2>2
  <2> QED BY <2>3 DEF Base, LogInv
<1> QED BY <1>5, <1>6, <1>7, <1>8, <1>9 DEF Base, WellFormed

(* A seq for the current state of a connection is the first one it takes.  *)
LEMMA SeqStaysCounted ==
    ASSUME Base, NEW x \in Conn, x <= conns, UNCHANGED <<conns, casts>>,
           \A j \in Conn \ {x} : pc'[j] = pc[j],
           \/ seq' = seq /\ (pc'[x] # "attaching" \/ pc'[x] = pc[x])
           \/ seq' = seq + 1 /\ pc[x] = "attaching" /\ pc'[x] # "attaching"
    PROVE  seq' \in Seqs /\ seq <= seq' /\ seq' <= 1 + casts + Cardinality(Resynced')
<1>0. TypeOK /\ seq <= 1 + casts + Cardinality(Resynced)
  BY DEF Base, WellFormed, Counted
<1>1. /\ seq \in Nat /\ conns \in Nat /\ conns \in 0..MaxConns /\ casts \in Nat /\ casts \in 0..MaxCasts
      /\ x \in 1..conns /\ 1..conns \subseteq Conn
  BY <1>0, Numbers, Senders, SessionAssumption DEF Conn
<1>2. Resynced \subseteq Resynced'
  BY <1>1 DEF Resynced
<1>3. Cardinality(Resynced) \in Nat /\ Cardinality(Resynced') \in Nat
      /\ Cardinality(Resynced) <= Cardinality(Resynced')
  BY <1>1, <1>2, ResyncedGrows
<1>4. seq' \in Nat /\ seq <= seq' /\ seq' <= 1 + casts + Cardinality(Resynced')
  <2>1. CASE seq' = seq
    BY <1>0, <1>1, <1>3, <2>1
  <2>2. CASE seq' = seq + 1 /\ pc[x] = "attaching" /\ pc'[x] # "attaching"
    <3>1. Cardinality(Resynced') = Cardinality(Resynced) + 1
      BY <1>1, <2>2, OneMoreResynced
    <3> QED BY <1>0, <1>1, <1>3, <2>2, <3>1
  <2> QED BY <2>1, <2>2
<1>5. Cardinality(Resynced') \in 0..conns
  <2>1. IsFiniteSet(1..conns) /\ Cardinality(1..conns) = conns
    BY <1>1, FS_Interval
  <2>2. Resynced' \in SUBSET (1..conns)
    BY DEF Resynced
  <2>3. Cardinality(Resynced') <= conns
    <3> DEFINE I == 1..conns
    <3>1. IsFiniteSet(I) /\ Cardinality(I) = conns /\ Resynced' \in SUBSET I
      BY <2>1, <2>2
    <3> HIDE DEF I
    <3> QED BY <3>1, FS_Subset
  <2> QED BY <1>1, <1>3, <2>3
<1> QED BY <1>1, <1>4, <1>5, SessionAssumption DEF Seqs, MaxSeq

(* An attach ends.                                                         *)
LEMMA AttachEndsBase ==
    ASSUME Base, NEW k \in Conn, line[k] # <<>>, NEW x, x = Head(line[k]), x \notin Caster,
           wrote' = [wrote EXCEPT ![k] = FALSE],
           Closed(x), line' = Popped(k),
           seq' = seq \/ (seq' = seq + 1 /\ pc[x] = "attaching"),
           UNCHANGED <<log, last, pruned, sessions, ws, conns, casts, cast, key, seen,
                       owed, since, overtaken>>
    PROVE  Base'
<1>0. Base /\ TypeOK
  BY DEF Base, WellFormed
<1>1. x \in Conn /\ x <= conns /\ pc[x] \in Attaching
  BY FirstInLine
<1>2. /\ Popped(k) \in [Conn -> Seq(Sender)] /\ Once(Popped(k)) /\ Without(Popped(k), x)
      /\ \A j \in Conn \ {k} : Popped(k)[j] = line[j]
      /\ \A j \in Conn : j > conns => Popped(k)[j] = <<>>
      /\ \A j \in Conn : \A i \in DOMAIN Popped(k)[j] :
            /\ Popped(k)[j][i] \in Caster => cast[Popped(k)[j][i]].to # None
            /\ Popped(k)[j][i] \notin Caster =>
                  Popped(k)[j][i] \in Conn /\ pc[Popped(k)[j][i]] \in Attaching
  BY StillInLine
<1>3. /\ pc'[x] = "none" /\ at'[x] = None /\ todo'[x] = {} /\ link'[x] = "closed"
      /\ \A j \in Conn \ {x} : UNCHANGED <<pc[j], at[j], todo[j], link[j]>>
  BY <1>1, ClosedLeaves
<1>4. seq' \in Seqs /\ seq <= seq' /\ seq' <= 1 + casts + Cardinality(Resynced')
  BY <1>1, <1>3, SeqStaysCounted
<1>5. TypeOK'
  <2>1. wrote' \in [Conn -> BOOLEAN] /\ line' \in [Conn -> Seq(Sender)]
    BY <1>0, <1>2 DEF TypeOK
  <2> QED BY <1>0, <1>1, <1>4, <2>1, ClosedLeaves DEF TypeOK
<1>6. Counted'
  <2>1. \A j \in Conn : j > conns => pc'[j] = "none" /\ line'[j] = <<>>
    BY <1>1, <1>2, ClosedLeaves
  <2>2. (\A j \in Conn : at'[j] <= conns) /\ \A c \in Client : cur'[c] <= conns
    BY <1>1, ClosedLeaves
  <2> QED BY <1>4, <2>1, <2>2 DEF Base, Counted
<1>7. Handlers'
  <2>1. \A j \in Conn : wrote'[j] => line'[j] # <<>>
    BY <1>0, <1>2 DEF Base, Handlers, TypeOK
  <2> QED BY <1>1, <2>1, ClosedLeaves DEF Handlers
<1>8. InOneLine'
  <2> SUFFICES ASSUME NEW j \in Conn, NEW i \in DOMAIN line'[j]
               PROVE  /\ line'[j][i] \in Caster => cast'[line'[j][i]].to # None
                      /\ line'[j][i] \notin Caster => pc'[line'[j][i]] \in Attaching
    BY <1>2 DEF InOneLine, Once
  <2> QED BY <1>2, <1>3 DEF Without
<1>9. LogInv'
  <2>1. \A j \in Conn : todo'[j] \subseteq todo[j]
    BY <1>1, <1>3
  <2>2. last <= seq /\ last \in Nat /\ seq \in Nat /\ seq' \in Nat
    BY <1>0, <1>4, Numbers, Senders DEF Base, LogInv
  <2>3. \A j \in Conn : \A n \in todo'[j] : n <= seq'
    <3>1. \A j \in Conn : \A n \in todo'[j] : n <= seq /\ n \in Nat
      BY <1>0, <2>1, Senders DEF Base, LogInv, TypeOK
    <3> QED BY <1>4, <2>2, <3>1
  <2>4. last <= seq'
    BY <1>4, <2>2
  <2> QED BY <2>3, <2>4 DEF Base, LogInv
<1> QED BY <1>5, <1>6, <1>7, <1>8, <1>9 DEF Base, WellFormed, SocketInv, NumberedByConns,
                                            OneSessionPerSocket

(* An attach has sent its frames, or goes on to the next one: it joins the *)
(* line of the socket the session has by now.                              *)
AttachMoves(k, x, rest, p) ==
    /\ todo' = [todo EXCEPT ![x] = rest]
    /\ pc' = [pc EXCEPT ![x] = p]
    /\ todo[x] \subseteq rest \cup {Min(todo[x])}
    /\ \/ rest \subseteq todo[x] /\ seq' = seq /\ p \in {pc[x], "serving"}
       \/ rest = {seq'} /\ seq' = seq + 1 /\ pc[x] = "attaching" /\ p = "resyncing"
    /\ \/ rest = {} /\ p = "serving" /\ line' = Popped(k)
       \/ /\ rest # {} /\ p \in Attaching /\ ws[at[x]] # None
          /\ line' = [Popped(k) EXCEPT ![ws[at[x]]] = Append(@, x)]

(* Its move keeps Base.                                                    *)
LEMMA AttachMovesBase ==
    ASSUME Base, NEW k \in Conn, line[k] # <<>>, NEW x, x = Head(line[k]), x \notin Caster,
           wrote' = [wrote EXCEPT ![k] = FALSE],
           NEW rest, NEW p, AttachMoves(k, x, rest, p),
           UNCHANGED <<log, last, pruned, sessions, ws, conns, link, at, casts, cast, cur, key, seen,
                       owed, since, overtaken>>
    PROVE  Base'
<1>0. Base /\ TypeOK
  BY DEF Base, WellFormed
<1>1. x \in Conn /\ x <= conns /\ pc[x] \in Attaching /\ at[x] \in Conn
  BY FirstInLine
<1>a. PICK l : l = Popped(k)
  OBVIOUS
<1>2. /\ l \in [Conn -> Seq(Sender)] /\ Once(l) /\ Without(l, x)
      /\ \A j \in Conn \ {k} : l[j] = line[j]
      /\ \A j \in Conn : j > conns => l[j] = <<>>
      /\ \A j \in Conn : \A i \in DOMAIN l[j] :
            /\ l[j][i] \in Caster => cast[l[j][i]].to # None
            /\ l[j][i] \notin Caster =>
                  l[j][i] \in Conn /\ pc[l[j][i]] \in Attaching
  BY <1>a, StillInLine
<1>3. /\ p \in {"attaching", "resyncing", "serving"}
      /\ pc' \in [Conn -> {"none", "attaching", "resyncing", "serving"}]
      /\ pc'[x] = p /\ \A j \in Conn \ {x} : pc'[j] = pc[j]
  BY <1>0, <1>1 DEF TypeOK, Attaching, AttachMoves
<1>4. seq' \in Seqs /\ seq <= seq' /\ seq' <= 1 + casts + Cardinality(Resynced')
  <2>1. \/ seq' = seq /\ (p # "attaching" \/ p = pc[x])
        \/ seq' = seq + 1 /\ pc[x] = "attaching" /\ p # "attaching"
    BY DEF AttachMoves
  <2> QED BY <1>1, <1>3, <2>1, SeqStaysCounted
<1>5. /\ todo' \in [Conn -> SUBSET Seqs] /\ todo'[x] = rest
      /\ \A j \in Conn \ {x} : todo'[j] = todo[j]
  <2>1. rest \in SUBSET Seqs
    BY <1>0, <1>1, <1>4 DEF TypeOK, AttachMoves
  <2> QED BY <1>0, <1>1, <2>1 DEF TypeOK, AttachMoves
<1>6. /\ line' \in [Conn -> Seq(Sender)] /\ Once(line')
      /\ \A j \in Conn : \A i \in DOMAIN line'[j] :
            \/ line'[j][i] = x /\ rest # {}
            \/ i \in DOMAIN l[j] /\ line'[j][i] = l[j][i] /\ line'[j][i] # x
      /\ \A j \in Conn : line'[j] = <<>> => l[j] = <<>>
      /\ \A j \in Conn : j > conns => line'[j] = <<>>
  <2>1. CASE rest = {} /\ line' = l
    BY <1>2, <2>1 DEF Without
  <2>2. CASE /\ rest # {} /\ ws[at[x]] # None
             /\ line' = [l EXCEPT ![ws[at[x]]] = Append(@, x)]
    <3> DEFINE t == ws[at[x]]
    <3>1. t \in Conn /\ x \in Sender
      BY <1>0, <1>1, <2>2, Senders DEF TypeOK
    <3>2. t <= conns
      BY <1>1 DEF Base, WellFormed, SocketInv, NumberedByConns
    <3>3. line' = [l EXCEPT ![t] = Append(@, x)]
      BY <2>2
    <3> HIDE DEF t
    <3>4. /\ line' \in [Conn -> Seq(Sender)]
          /\ \A j \in Conn \ {t} : line'[j] = l[j]
          /\ \A i \in DOMAIN l[t] : i \in DOMAIN line'[t] /\ line'[t][i] = l[t][i]
          /\ \E e \in DOMAIN line'[t] :
                /\ line'[t][e] = x
                /\ e = 1 <=> l[t] = <<>>
                /\ \A i \in DOMAIN line'[t] : i # e => i \in DOMAIN l[t]
          /\ line'[t] # <<>>
          /\ Once(line')
      BY ONLY <1>2, <3>1, <3>3, Joins
    <3>5. \A j \in Conn : \A i \in DOMAIN line'[j] :
            \/ line'[j][i] = x
            \/ i \in DOMAIN l[j] /\ line'[j][i] = l[j][i] /\ line'[j][i] # x
      BY <3>4
    <3>6. \A j \in Conn : j > conns => j # t
      <4>1. t \in Nat /\ conns \in Nat /\ Conn \subseteq Nat
        BY <1>0, <3>1, Numbers, Senders
      <4> QED BY ONLY <3>2, <4>1
    <3>7. \A j \in Conn : line'[j] = <<>> => l[j] = <<>>
      BY <3>4
    <3>8. \A j \in Conn : j > conns => line'[j] = <<>>
      BY <1>2, <3>4, <3>6
    <3> QED BY ONLY <2>2, <3>4, <3>5, <3>7, <3>8
  <2> QED BY <1>a, <2>1, <2>2 DEF AttachMoves
<1>7. TypeOK'
  <2>1. wrote' \in [Conn -> BOOLEAN]
    BY <1>0 DEF TypeOK
  <2> QED BY <1>0, <1>3, <1>4, <1>5, <1>6, <2>1 DEF TypeOK
<1>8. Counted'
  <2>1. \A j \in Conn : j > conns => pc'[j] = "none"
    BY <1>0, <1>1, <1>3, Numbers, Senders DEF Base, Counted
  <2> QED BY <1>4, <1>6, <2>1 DEF Base, Counted
<1>9. Handlers'
  <2>1. \A j \in Conn : wrote'[j] => line'[j] # <<>>
    BY <1>0, <1>2, <1>6 DEF Base, Handlers, TypeOK
  <2>2. pc'[x] # "none" /\ pc[x] # "none" /\ (pc'[x] \in Attaching <=> todo'[x] # {})
    <3>1. p = "serving" <=> rest = {}
      BY DEF AttachMoves, Attaching
    <3> QED BY <1>1, <1>3, <1>5, <3>1 DEF Attaching
  <2>3. ASSUME NEW j \in Conn
        PROVE  /\ pc'[j] = "none" <=> pc[j] = "none"
               /\ pc'[j] \in Attaching <=> todo'[j] # {}
    BY <1>3, <1>5, <2>2 DEF Base, Handlers
  <2> QED BY <2>1, <2>3 DEF Base, Handlers
<1>10. InOneLine'
  <2> SUFFICES ASSUME NEW j \in Conn, NEW i \in DOMAIN line'[j]
               PROVE  /\ line'[j][i] \in Caster => cast'[line'[j][i]].to # None
                      /\ line'[j][i] \notin Caster => pc'[line'[j][i]] \in Attaching
    BY <1>6 DEF InOneLine, Once
  <2>1. CASE line'[j][i] = x
    <3>1. rest # {} => p \in Attaching
      BY DEF AttachMoves
    <3> QED BY <1>3, <1>6, <2>1, <3>1
  <2>2. CASE line'[j][i] # x
    <3>1. i \in DOMAIN l[j] /\ line'[j][i] = l[j][i] /\ cast' = cast
      BY <1>6, <2>2
    <3>2. /\ l[j][i] \in Caster => cast[l[j][i]].to # None
          /\ l[j][i] \notin Caster => l[j][i] \in Conn /\ pc[l[j][i]] \in Attaching
      BY <1>2, <3>1
    <3> QED BY <1>3, <2>2, <3>1, <3>2
  <2> QED BY <2>1, <2>2
<1>11. LogInv'
  <2>1. last <= seq /\ last \in Nat /\ seq \in Nat /\ seq' \in Nat
    BY <1>0, <1>4, Numbers, Senders DEF Base, LogInv
  <2>2. \A j \in Conn : \A n \in todo[j] : n <= seq /\ n \in Nat
    BY <1>0, Senders DEF Base, LogInv, TypeOK
  <2>3. \A j \in Conn : \A n \in todo'[j] : n <= seq'
    <3>1. \A j \in Conn : \A n \in todo'[j] : n = seq' \/ (n <= seq /\ n \in Nat)
      <4>1. \A n \in rest : n = seq' \/ n \in todo[x]
        BY DEF AttachMoves
      <4> QED BY <1>1, <1>5, <2>2, <4>1
    <3> QED BY <1>4, <2>1, <3>1
  <2>4. last <= seq'
    BY <1>4, <2>1
  <2> QED BY <2>3, <2>4 DEF Base, LogInv
<1> QED BY <1>7, <1>8, <1>9, <1>10, <1>11 DEF Base, WellFormed, SocketInv, NumberedByConns,
                                            OneSessionPerSocket

(* What the attach of x does when it goes on: it ends, or it moves.        *)
LEMMA AttachGoesOnOr ==
    ASSUME Base, NEW k \in Conn, line[k] # <<>>, NEW x, x = Head(line[k]), x \notin Caster,
           AttachGoesOn(x, Popped(k))
    PROVE  \/ /\ Closed(x) /\ line' = Popped(k)
              /\ seq' = seq \/ (seq' = seq + 1 /\ pc[x] = "attaching")
           \/ /\ UNCHANGED <<link, at, cur>>
              /\ \E rest, p : AttachMoves(k, x, rest, p)
<1> DEFINE replayed == todo[x] \ {Min(todo[x])}
           resync == replayed = {} /\ pc[x] = "attaching"
           rest == IF resync THEN {seq + 1} ELSE replayed
           p == CASE rest = {} -> "serving"
                  [] resync -> "resyncing"
                  [] OTHER -> pc[x]
<1>1. x \in Conn /\ pc[x] \in Attaching
  BY FirstInLine
<1>2. seq' = IF resync THEN seq + 1 ELSE seq
  BY DEF AttachGoesOn
<1>3. CASE rest # {} /\ ws[at[x]] = None
  <2>1. Closed(x) /\ line' = Popped(k)
    BY <1>3 DEF AttachGoesOn
  <2> QED BY <1>2, <2>1
<1>4. CASE ~(rest # {} /\ ws[at[x]] = None)
  <2>1. /\ pc' = [pc EXCEPT ![x] = p]
        /\ line' = IF rest = {} THEN Popped(k) ELSE [Popped(k) EXCEPT ![ws[at[x]]] = Append(@, x)]
        /\ todo' = [todo EXCEPT ![x] = rest]
        /\ UNCHANGED <<link, at, cur>>
    <3>1. pc \in [Conn -> {"none", "attaching", "resyncing", "serving"}]
      BY DEF Base, WellFormed, TypeOK
    <3> QED BY <1>1, <1>4, <3>1 DEF AttachGoesOn
  <2>2. \/ rest \subseteq todo[x] /\ seq' = seq /\ p \in {pc[x], "serving"}
        \/ rest = {seq'} /\ seq' = seq + 1 /\ pc[x] = "attaching" /\ p = "resyncing"
    <3>1. CASE resync
      BY <1>2, <3>1
    <3>2. CASE ~resync
      BY <1>2, <3>2
    <3> QED BY <3>1, <3>2
  <2>3. \/ rest = {} /\ p = "serving" /\ line' = Popped(k)
        \/ /\ rest # {} /\ p \in Attaching /\ ws[at[x]] # None
           /\ line' = [Popped(k) EXCEPT ![ws[at[x]]] = Append(@, x)]
    <3>1. CASE rest = {}
      BY <2>1, <3>1
    <3>2. CASE rest # {}
      BY <1>1, <1>4, <2>1, <3>2 DEF Attaching
    <3> QED BY <3>1, <3>2
  <2>4. todo[x] \subseteq rest \cup {Min(todo[x])}
    OBVIOUS
  <2>5. AttachMoves(k, x, rest, p)
    <3> HIDE DEF rest, p
    <3> QED BY <2>1, <2>2, <2>3, <2>4 DEF AttachMoves
  <2> QED BY <2>1, <2>5
<1> QED BY <1>3, <1>4

(* A sender that goes on keeps Base.                                       *)
LEMMA ProceedBase == ASSUME Base, SocketInv', NEW k \in Conn, Proceed(k) PROVE Base'
<1>1. PICK x : x = Head(line[k])
  OBVIOUS
<1>2. /\ line[k] # <<>>
      /\ wrote' = [wrote EXCEPT ![k] = FALSE]
      /\ UNCHANGED <<log, last, pruned, sessions, ws, conns, casts, key, seen, owed, since, overtaken>>
  BY DEF Proceed, history
<1>3. CASE x \in Caster
  <2>1. /\ FanOut(x, cast[x].seq, cast[x].left, ws, Popped(k))
        /\ UNCHANGED <<seq, link, pc, at, todo, cur>>
    BY <1>1, <1>3 DEF Proceed, Popped
  <2>2. PICK w, l : w = ws' /\ l = Popped(k)
    OBVIOUS
  <2>3. FanOut(x, cast[x].seq, cast[x].left, w, l)
    <3>1. w = ws
      BY <1>2, <2>2
    <3> QED BY <2>1, <2>2, <3>1
  <2> QED BY <1>1, <1>2, <1>3, <2>1, <2>2, <2>3, CasterMovesBase
<1>4. CASE x \notin Caster
  <2>1. AttachGoesOn(x, Popped(k)) /\ UNCHANGED cast
    BY <1>1, <1>4 DEF Proceed, Popped
  <2>2. CASE /\ Closed(x) /\ line' = Popped(k)
             /\ seq' = seq \/ (seq' = seq + 1 /\ pc[x] = "attaching")
    BY <1>1, <1>2, <1>4, <2>1, <2>2, AttachEndsBase
  <2>3. CASE /\ UNCHANGED <<link, at, cur>>
             /\ \E rest, p : AttachMoves(k, x, rest, p)
    <3>1. PICK rest, p : AttachMoves(k, x, rest, p)
      BY <2>3
    <3> QED BY <1>1, <1>2, <1>4, <2>1, <2>3, <3>1, AttachMovesBase
  <2> QED BY <1>1, <1>2, <1>4, <2>1, <2>2, <2>3, AttachGoesOnOr
<1> QED BY <1>3, <1>4

(* A sender whose send failed keeps Base.                                  *)
LEMMA SendFailsBase == ASSUME Base, SocketInv', NEW k \in Conn, SendFails(k) PROVE Base'
<1>1. PICK x : x = Head(line[k])
  OBVIOUS
<1>2. /\ line[k] # <<>>
      /\ wrote' = [wrote EXCEPT ![k] = FALSE]
      /\ UNCHANGED <<seq, log, last, pruned, sessions, conns, casts, key, seen, owed, since, overtaken>>
  BY DEF SendFails, history, logVars
<1>3. CASE x \in Caster
  <2>1. /\ FanOut(x, cast[x].seq, cast[x].left, ws', Popped(k))
        /\ UNCHANGED <<link, pc, at, todo, cur>>
    BY <1>1, <1>3 DEF SendFails, Popped
  <2>2. PICK w, l : w = ws' /\ l = Popped(k)
    OBVIOUS
  <2>3. FanOut(x, cast[x].seq, cast[x].left, w, l)
    BY <2>1, <2>2
  <2> QED BY <1>1, <1>2, <1>3, <2>1, <2>2, <2>3, CasterMovesBase
<1>4. CASE x \notin Caster
  <2>1. Closed(x) /\ line' = Popped(k) /\ UNCHANGED <<ws, cast>>
    BY <1>1, <1>4 DEF SendFails, Popped
  <2> QED BY <1>1, <1>2, <1>4, <2>1, AttachEndsBase
<1> QED BY <1>3, <1>4

(* Base holds at first.                                                    *)
LEMMA BaseAtFirst == ASSUME Init PROVE Base
<1>1. TypeOK
  <2>1. Silent \in [seq : Seqs, to : Conn \cup {None}, left : SUBSET Conn]
    BY Senders DEF Silent
  <2>2. 0 \in Seqs /\ 1 \in Seqs /\ 0 \in 0..MaxConns /\ 0 \in 0..MaxCasts
    BY SessionAssumption DEF Seqs, MaxSeq
  <2> QED BY <2>1, <2>2 DEF Init, TypeOK
<1>2. SocketInv
  BY NoSocketsAtFirst
<1>3. Counted
  <2>1. Cardinality(Resynced) \in Nat
    <3>1. conns \in 0..MaxConns /\ casts \in 0..MaxCasts /\ conns = 0
      BY <1>1 DEF TypeOK, Init
    <3>2. Resynced = {}
      BY <3>1 DEF Resynced
    <3> QED BY <3>2, FS_EmptySet
  <2>2. seq <= 1 + casts + Cardinality(Resynced)
    BY <2>1 DEF Init
  <2>3. /\ \A k \in Conn : k > conns => pc[k] = "none" /\ line[k] = <<>>
        /\ \A k \in Conn : at[k] <= conns
        /\ \A b \in Caster : cast[b].left \cup {cast[b].to} \subseteq 0..conns
        /\ \A c \in Client : cur[c] <= conns /\ key[c] <= conns
    BY DEF Init, None, Silent
  <2> QED BY <2>2, <2>3 DEF Counted
<1>4. Handlers
  BY Senders DEF Init, Handlers, Attaching
<1>5. InOneLine
  BY DEF Init, InOneLine
<1>6. LogInv
  BY DEF Init, LogInv, Silent
<1> QED BY <1>1, <1>2, <1>3, <1>4, <1>5, <1>6 DEF Base, WellFormed

(* Every step keeps Base.                                                  *)
LEMMA BaseKeeps == ASSUME Base, [Next]_vars PROVE Base'
<1>0. SocketInv'
  BY SocketStepKeeps DEF Base, WellFormed
<1>1. CASE UNCHANGED vars
  <2>1. UNCHANGED <<seq, log, last, pruned, sessions, ws, conns, link, pc, at, todo, line, wrote,
                    casts, cast, cur, key, seen, owed, since, overtaken>>
    BY <1>1 DEF vars
  <2>2. TypeOK'
    BY <2>1 DEF Base, WellFormed, TypeOK
  <2>3. Counted' /\ Handlers' /\ InOneLine' /\ LogInv'
    BY <2>1 DEF Base, Counted, Resynced, Handlers, InOneLine, LogInv
  <2> QED BY <1>0, <2>2, <2>3 DEF Base, WellFormed
<1>2. ASSUME NEW k \in Conn, SocketStep(k) PROVE Base'
  BY <1>0, <1>2, WriteBase, ProceedBase, SendFailsBase, NoticeBase, ServingEndsBase DEF SocketStep
<1> QED BY <1>0, <1>1, <1>2, BroadcastBase, AttachBase, CutBase DEF Next

-----------------------------------------------------------------------------
(* What clients miss.                                                      *)

(* Whatever a step prunes is below the horizon it leaves.                  *)
LEMMA HorizonKeeps ==
    ASSUME Base, LogReachesHorizon, [Next]_vars PROVE LogReachesHorizon'
<1>0. TypeOK /\ LogInv
  BY DEF Base, WellFormed
<1>1. ASSUME NEW b \in Caster, Broadcast(b) PROVE LogReachesHorizon'
  <2>1. PICK n : n = seq + 1
    OBVIOUS
  <2>2. /\ pruned' \in 0..n /\ pruned <= pruned' /\ pruned \in Nat
        /\ \A m \in log \cup {n} : m > pruned' => m \in log'
        /\ Cardinality(log') \in 0..LogSize
    BY <1>0, <1>1, <2>1, BroadcastPrunes, Numbers
  <2>3. owed' = [c \in Client |-> owed[c] \cup {n}]
    BY <1>1, <2>1 DEF Broadcast
  <2>4. ASSUME NEW c \in Client, NEW m \in owed'[c], m > pruned' PROVE m \in log'
    <3>1. m \in owed[c] => m \in Nat
      BY <1>0, Senders DEF TypeOK
    <3>2. m \in owed[c] => m > pruned
      BY <2>2, <2>4, <3>1
    <3>3. m \in log \cup {n}
      BY <2>3, <3>2 DEF LogReachesHorizon
    <3> QED BY <2>2, <2>4, <3>3
  <2> QED BY <2>2, <2>4, SessionAssumption DEF LogReachesHorizon
<1>2. ASSUME NEW c \in Client, Attach(c) PROVE LogReachesHorizon'
  <2>1. /\ pruned' \in 0..last /\ pruned <= pruned' /\ pruned \in Nat
        /\ \A n \in log : n > pruned' => n \in log'
        /\ Cardinality(log') <= LogSize
    BY <1>0, <1>2, AttachPrunes, Numbers DEF LogReachesHorizon
  <2>2. \A d \in Client : owed'[d] \subseteq owed[d]
    <3>1. owed' = [owed EXCEPT ![c] = {}] \/ owed' = owed
      BY <1>2 DEF Attach, CreateSession, ResumeSession
    <3> QED BY <1>0, <3>1 DEF TypeOK
  <2>3. ASSUME NEW d \in Client, NEW m \in owed'[d], m > pruned' PROVE m \in log'
    <3>1. m \in owed[d] /\ m \in Nat
      BY <1>0, <2>2, <2>3, Senders DEF TypeOK
    <3> QED BY <2>1, <2>3, <3>1 DEF LogReachesHorizon
  <2> QED BY <2>1, <2>3 DEF LogReachesHorizon
<1>3. ASSUME UNCHANGED <<log, pruned>>, \A c \in Client : owed'[c] \subseteq owed[c]
      PROVE  LogReachesHorizon'
  BY <1>3 DEF LogReachesHorizon
<1>4. ASSUME NEW k \in Conn, SocketStep(k) PROVE LogReachesHorizon'
  <2>1. CASE Write(k)
    BY <1>3, <2>1, WriteDelivers DEF Write, logVars
  <2>2. CASE Proceed(k)
    BY <1>3, <2>2 DEF Proceed, history
  <2>3. CASE SendFails(k)
    BY <1>3, <2>3 DEF SendFails, logVars, history
  <2>4. CASE Notice(k)
    BY <1>3, <2>4 DEF Notice, logVars, history
  <2>5. CASE ServingEnds(k)
    BY <1>3, <2>5 DEF ServingEnds, logVars, history
  <2> QED BY <1>4, <2>1, <2>2, <2>3, <2>4, <2>5 DEF SocketStep
<1>5. ASSUME NEW c \in Client, Cut(c) PROVE LogReachesHorizon'
  BY <1>3, <1>5 DEF Cut, logVars
<1>6. CASE UNCHANGED vars
  BY <1>3, <1>6 DEF vars
<1> QED BY <1>1, <1>2, <1>4, <1>5, <1>6 DEF Next

-----------------------------------------------------------------------------
(* Whose session it is.                                                    *)

(* No client gets a session that was not its own already.                  *)
LEMMA ClaimsShrink ==
    ASSUME ClientInv, UNCHANGED sessions,
           \A c \in Client : cur'[c] # None => cur'[c] = cur[c] /\ at'[cur[c]] = at[cur[c]],
           \A c \in Client : key'[c] = key[c] \/ (cur[c] # None /\ key'[c] = at[cur[c]])
    PROVE  ClientInv'
<1>1. \A c \in Client : Claims(c)' \subseteq Claims(c)
  BY DEF Claims
<1>2. ASSUME NEW c \in Client, NEW d \in Client, (Claims(c) \cap Claims(d))' # {} PROVE c = d
  <2>1. Claims(c) \cap Claims(d) # {}
    BY <1>1, <1>2
  <2> QED BY <2>1 DEF ClientInv
<1>3. \A c \in Client : cur'[c] # None => at'[cur'[c]] \in sessions'
  BY DEF ClientInv
<1> QED BY <1>2, <1>3 DEF ClientInv

(* A new session is nobody else's; a resumed one was the client's.         *)
LEMMA AttachClients ==
    ASSUME Base, ClientInv, NEW c \in Client, Attach(c) PROVE ClientInv'
<1>0. TypeOK /\ SocketInv /\ Counted
  BY DEF Base, WellFormed
<1>1. PICK k : k = conns + 1
  OBVIOUS
<1>2. PICK s : s = key[c]
  OBVIOUS
<1>3. /\ k \in Conn /\ k # None /\ cur[c] = None
      /\ cur' = [cur EXCEPT ![c] = k]
      /\ UNCHANGED key
      /\ \/ CreateSession(c, k, sessions, ws)
         \/ CreateSession(c, k, Drop(s), ws)
         \/ CreateSession(c, k, Drop(s), Reattached(s, k))
         \/ s \in sessions /\ ResumeSession(c, k, s, seen[c])
  <2>1. k \in Conn
    BY <1>0, <1>1, Numbers, SessionAssumption DEF Attach, Conn
  <2> QED BY <1>1, <1>2, <2>1, Senders DEF Attach
<1>4. /\ cur'[c] = k
      /\ \A d \in Client \ {c} : cur'[d] = cur[d] /\ cur[d] # k
      /\ \A d \in Client : key[d] # k /\ (cur[d] # None => cur[d] \in Conn /\ at[cur[d]] # k)
  <2>1. \A d \in Client : cur[d] \in Conn \cup {None} /\ cur[d] <= conns /\ key[d] <= conns
    BY <1>0 DEF TypeOK, Counted
  <2>2. \A j \in Conn : at[j] <= conns
    BY <1>0 DEF Counted
  <2>3. conns \in Nat /\ \A d \in Client : cur[d] \in Nat /\ key[d] \in Nat
    BY <1>0, Numbers, ConnNumbers
  <2>4. \A j \in Conn : at[j] \in Nat
    BY <1>0, ConnNumbers
  <2>5. \A d \in Client : key[d] # k /\ cur[d] # k
    BY <1>1, <2>1, <2>3
  <2>6. \A j \in Conn : at[j] # k
    BY <1>1, <2>2, <2>3, <2>4
  <2> QED BY <1>0, <1>3, <2>1, <2>5, <2>6 DEF TypeOK
<1>5. ASSUME NEW others \in SUBSET sessions, NEW w, CreateSession(c, k, others, w),
             sessions \ {s} \subseteq others
      PROVE  ClientInv'
  <2>1. /\ sessions' = others \cup {k}
        /\ at'[k] = k /\ \A j \in Conn \ {k} : at'[j] = at[j]
    BY <1>0, <1>3, <1>5 DEF CreateSession, TypeOK
  <2>2. ASSUME NEW d \in Client, cur'[d] # None PROVE at'[cur'[d]] \in sessions'
    <3>1. CASE d = c
      BY <1>4, <2>1, <3>1
    <3>2. CASE d # c
      <4>1. at'[cur'[d]] = at[cur[d]] /\ at[cur[d]] \in sessions /\ at[cur[d]] \in Conn
        BY <1>0, <1>4, <2>1, <2>2, <3>2 DEF ClientInv, TypeOK
      <4>2. at[cur[d]] # s
        <5>1. at[cur[d]] \in Claims(d)
          BY <1>4, <2>2, <3>2, <4>1 DEF Claims
        <5>2. s \in Conn => s \in Claims(c)
          BY <1>2 DEF Claims
        <5> QED BY <3>2, <4>1, <5>1, <5>2 DEF ClientInv
      <4> QED BY <1>5, <2>1, <4>1, <4>2
    <3> QED BY <3>1, <3>2
  <2>3. Claims(c)' \subseteq Claims(c) \cup {k}
    BY <1>3, <1>4, <2>1 DEF Claims
  <2>4. \A d \in Client \ {c} : Claims(d)' \subseteq Claims(d) /\ k \notin Claims(d)
    BY <1>3, <1>4, <2>1 DEF Claims
  <2>5. ASSUME NEW d \in Client, NEW e \in Client, (Claims(d) \cap Claims(e))' # {} PROVE d = e
    <3>1. d # c /\ e # c => Claims(d) \cap Claims(e) # {}
      BY <2>4, <2>5
    <3>2. d = c /\ e # c => Claims(d) \cap Claims(e) # {}
      BY <2>3, <2>4, <2>5
    <3>3. d # c /\ e = c => Claims(d) \cap Claims(e) # {}
      BY <2>3, <2>4, <2>5
    <3> QED BY <3>1, <3>2, <3>3 DEF ClientInv
  <2> QED BY <2>2, <2>5 DEF ClientInv
<1>6. ASSUME s \in sessions, ResumeSession(c, k, s, seen[c]) PROVE ClientInv'
  <2>1. /\ sessions' = sessions
        /\ at'[k] = s /\ \A j \in Conn \ {k} : at'[j] = at[j]
    BY <1>0, <1>3, <1>6 DEF ResumeSession, TypeOK
  <2>2. \A d \in Client : cur'[d] # None => at'[cur'[d]] \in sessions'
    BY <1>4, <1>6, <2>1 DEF ClientInv
  <2>3. \A d \in Client : Claims(d)' \subseteq Claims(d)
    BY <1>2, <1>3, <1>4, <2>1 DEF Claims
  <2>4. ASSUME NEW d \in Client, NEW e \in Client, (Claims(d) \cap Claims(e))' # {} PROVE d = e
    <3>1. Claims(d) \cap Claims(e) # {}
      BY <2>3, <2>4
    <3> QED BY <3>1 DEF ClientInv
  <2> QED BY <2>2, <2>4 DEF ClientInv
<1> QED BY <1>3, <1>5, <1>6 DEF Drop

(* Every step keeps the claims apart.                                      *)
LEMMA ClientsKeep ==
    ASSUME Base, ClientInv, [Next]_vars PROVE ClientInv'
<1>0. TypeOK
  BY DEF Base, WellFormed
<1>a. \A c \in Client : cur[c] # None => cur[c] \in Conn
  BY <1>0 DEF TypeOK
<1>1. ASSUME UNCHANGED <<sessions, at, cur, key>> PROVE ClientInv'
  BY <1>1, ClaimsShrink
<1>2. ASSUME NEW b \in Caster, Broadcast(b) PROVE ClientInv'
  BY <1>1, <1>2 DEF Broadcast
<1>3. ASSUME NEW c \in Client, Cut(c) PROVE ClientInv'
  <2>1. UNCHANGED <<sessions, at, key>> /\ cur' = [cur EXCEPT ![c] = None]
    BY <1>3 DEF Cut
  <2>2. \A d \in Client : cur'[d] # None => cur'[d] = cur[d]
    BY <1>0, <2>1 DEF TypeOK
  <2> QED BY <2>1, <2>2, ClaimsShrink
<1>4. ASSUME NEW x \in Conn, Closed(x), UNCHANGED <<sessions, key>> PROVE ClientInv'
  <2>1. \A c \in Client : cur'[c] # None => cur'[c] = cur[c] /\ cur[c] # x
    BY <1>4, ClosedLeaves
  <2>2. \A j \in Conn \ {x} : at'[j] = at[j]
    BY <1>4, ClosedLeaves
  <2>3. \A c \in Client : cur'[c] # None => cur'[c] = cur[c] /\ at'[cur[c]] = at[cur[c]]
    BY <1>a, <2>1, <2>2
  <2> QED BY <1>4, <2>3, ClaimsShrink
<1>5. ASSUME NEW k \in Conn, Write(k) PROVE ClientInv'
  <2>1. UNCHANGED <<sessions, at, cur>>
    BY <1>5 DEF Write
  <2>2. \A c \in Client : key'[c] = key[c] \/ (cur[c] # None /\ key'[c] = at[cur[c]])
    BY <1>5, WriteDelivers, Senders
  <2> QED BY <2>1, <2>2, ClaimsShrink
<1>6. ASSUME NEW k \in Conn, Proceed(k) PROVE ClientInv'
  <2>1. PICK x : x = Head(line[k])
    OBVIOUS
  <2>2. line[k] # <<>> /\ UNCHANGED <<sessions, key>>
    BY <1>6 DEF Proceed
  <2>3. CASE x \in Caster
    BY <1>1, <1>6, <2>1, <2>2, <2>3 DEF Proceed
  <2>4. CASE x \notin Caster
    <3>1. AttachGoesOn(x, Popped(k))
      BY <1>6, <2>1, <2>4 DEF Proceed, Popped
    <3>2. x \in Conn
      BY <2>1, <2>2, <2>4, FirstInLine
    <3>3. Closed(x) \/ UNCHANGED <<at, cur>>
      BY <2>1, <2>2, <2>4, <3>1, AttachGoesOnOr
    <3> QED BY <1>1, <1>4, <2>2, <3>2, <3>3
  <2> QED BY <2>3, <2>4
<1>7. ASSUME NEW k \in Conn, SendFails(k) PROVE ClientInv'
  <2>1. PICK x : x = Head(line[k])
    OBVIOUS
  <2>2. line[k] # <<>> /\ UNCHANGED <<sessions, key>>
    BY <1>7 DEF SendFails
  <2>3. CASE x \in Caster
    BY <1>1, <1>7, <2>1, <2>2, <2>3 DEF SendFails
  <2>4. CASE x \notin Caster
    <3>1. x \in Conn
      BY <2>1, <2>2, <2>4, FirstInLine
    <3>2. Closed(x)
      BY <1>7, <2>1, <2>4 DEF SendFails
    <3> QED BY <1>4, <2>2, <3>1, <3>2
  <2> QED BY <2>3, <2>4
<1>8. ASSUME NEW k \in Conn, SocketStep(k) PROVE ClientInv'
  <2>1. CASE Notice(k)
    BY <1>1, <2>1 DEF Notice
  <2>2. CASE ServingEnds(k)
    BY <1>4, <2>2 DEF ServingEnds
  <2> QED BY <1>5, <1>6, <1>7, <1>8, <2>1, <2>2 DEF SocketStep
<1>9. CASE UNCHANGED vars
  BY <1>1, <1>9 DEF vars
<1> QED BY <1>2, <1>3, <1>8, <1>9, AttachClients DEF Next

-----------------------------------------------------------------------------
(* Who takes the socket of a session.                                      *)

(* The broadcasts in the lines are those that were there, or at the socket *)
(* of the session they go to.                                              *)
CastersBelong ==
    \A j \in Conn : \A i \in DOMAIN line'[j] :
        LET b == line'[j][i] IN
        b \in Caster => \/ ws'[cast'[b].to] = j
                        \/ cast'[b].to = cast[b].to /\ \E m \in DOMAIN line[j] : line[j][m] = b

(* No attach has joined a line.                                            *)
NoAttachJoins ==
    \A j \in Conn : \A i \in DOMAIN line'[j] :
        line'[j][i] \in Caster \/ \E m \in DOMAIN line[j] : line[j][m] = line'[j][i]

(* Where nobody takes a socket and only broadcasts join a line, nothing is *)
(* overtaken that was not.                                                 *)
LEMMA OvertakenStays ==
    ASSUME OvertakenInv, CastersBelong, UNCHANGED overtaken,
           \A k \in Conn : at'[k] \in {at[k], None},
           \A k \in Conn : link'[k] = "open" => link[k] = "open" /\ at'[k] = at[k],
           \A k \in Conn : link'[k] = "open" => ws'[at[k]] = ws[at[k]] \/ at[k] \in overtaken
    PROVE  OvertakenInv'
<1>1. \A j, k \in Conn : at'[j] = at'[k] /\ at'[k] # None => j = k \/ at'[k] \in overtaken
  BY DEF OvertakenInv
<1>2. \A k \in Conn : link'[k] = "open" => ws'[at'[k]] = k \/ at'[k] \in overtaken
  BY DEF OvertakenInv
<1>3. ASSUME NEW j \in Conn, NEW k \in Conn, NEW i \in DOMAIN line'[j],
             line'[j][i] \in Caster, at'[k] # None,
             cast'[line'[j][i]].to = at'[k], link'[k] = "open"
      PROVE  j = k \/ at'[k] \in overtaken
  <2>1. PICK b \in Caster : b = line'[j][i]
    BY <1>3
  <2>2. CASE ws'[cast'[b].to] = j
    BY <1>2, <1>3, <2>1, <2>2
  <2>3. CASE cast'[b].to = cast[b].to /\ \E m \in DOMAIN line[j] : line[j][m] = b
    <3>1. PICK m \in DOMAIN line[j] : line[j][m] = b
      BY <2>3
    <3>2. cast[b].to = at[k] /\ at[k] # None /\ link[k] = "open" /\ at'[k] = at[k]
      BY <1>3, <2>1, <2>3
    <3> QED BY <2>1, <3>1, <3>2 DEF OvertakenInv
  <2> QED BY <2>1, <2>2, <2>3 DEF CastersBelong
<1> QED BY <1>1, <1>2, <1>3 DEF OvertakenInv

(* Nobody joins a line.                                                    *)
LEMMA CastersStay ==
    ASSUME Base, UNCHANGED cast, line' = line \/ \E k \in Conn : line[k] # <<>> /\ line' = Popped(k)
    PROVE  CastersBelong /\ NoAttachJoins
<1>1. CASE line' = line
  BY <1>1 DEF CastersBelong, NoAttachJoins
<1>2. ASSUME NEW k \in Conn, line[k] # <<>>, line' = Popped(k) PROVE CastersBelong /\ NoAttachJoins
  <2>1. PICK x : x = Head(line[k])
    OBVIOUS
  <2>2. /\ \A j \in Conn \ {k} : line'[j] = line[j]
        /\ \A i \in DOMAIN line'[k] : i + 1 \in DOMAIN line[k] /\ line'[k][i] = line[k][i + 1]
    BY <1>2, <2>1, StillInLine
  <2> QED BY <2>2 DEF CastersBelong, NoAttachJoins
<1> QED BY <1>1, <1>2

(* A broadcast that goes on joins the line of a session's socket.          *)
LEMMA CasterBelongs ==
    ASSUME Base, NEW b \in Caster, NEW n, NEW left, NEW w, w = ws', NEW l, Went(b, n, left, w, l),
           l = line \/ \E k \in Conn : line[k] # <<>> /\ l = Popped(k)
    PROVE  CastersBelong /\ NoAttachJoins
<1>1. \A j \in Conn : \A i \in DOMAIN l[j] : \E m \in DOMAIN line[j] : line[j][m] = l[j][i]
  <2>1. CASE l = line
    BY <2>1
  <2>2. ASSUME NEW k \in Conn, line[k] # <<>>, l = Popped(k)
        PROVE  \A j \in Conn : \A i \in DOMAIN l[j] : \E m \in DOMAIN line[j] : line[j][m] = l[j][i]
    <3>1. PICK x : x = Head(line[k])
      OBVIOUS
    <3>2. /\ \A j \in Conn \ {k} : l[j] = line[j]
          /\ \A i \in DOMAIN l[k] : i + 1 \in DOMAIN line[k] /\ l[k][i] = line[k][i + 1]
      BY <2>2, <3>1, StillInLine
    <3> QED BY <3>2
  <2> QED BY <2>1, <2>2
<1>2. /\ \A d \in Caster \ {b} : cast'[d] = cast[d]
      /\ \A j \in Conn : \A i \in DOMAIN l[j] : i \in DOMAIN line'[j] /\ line'[j][i] = l[j][i]
      /\ \A j \in Conn : \A i \in DOMAIN line'[j] : line'[j][i] = b \/ i \in DOMAIN l[j]
      /\ \A j \in Conn : \A i \in DOMAIN line'[j] : line'[j][i] = b => w[cast'[b].to] = j
  BY DEF Went
<1>a. NoAttachJoins
  BY <1>1, <1>2 DEF NoAttachJoins
<1> SUFFICES ASSUME NEW j \in Conn, NEW i \in DOMAIN line'[j], NEW d \in Caster, d = line'[j][i]
             PROVE  \/ ws'[cast'[d].to] = j
                    \/ cast'[d].to = cast[d].to /\ \E m \in DOMAIN line[j] : line[j][m] = d
  BY <1>a DEF CastersBelong
<1>3. CASE d = b
  BY <1>2, <1>3
<1>4. CASE d # b
  <2>1. i \in DOMAIN l[j] /\ d = l[j][i]
    BY <1>2, <1>4
  <2> QED BY <1>1, <1>2, <1>4, <2>1
<1> QED BY <1>3, <1>4

(* An attach that goes on joins the line of its session's socket.          *)
AttachJoined(k, x) ==
    /\ \A j \in Conn : \A i \in DOMAIN line'[j] :
          \/ line'[j][i] = x /\ ws[at[x]] = j
          \/ \E m \in DOMAIN line[j] : line[j][m] = line'[j][i]
    /\ \A j \in Conn : \A i \in DOMAIN Popped(k)[j] :
          i \in DOMAIN line'[j] /\ line'[j][i] = Popped(k)[j][i]

(* An attach that goes on keeps OvertakenInv.                              *)
LEMMA AttachJoins ==
    ASSUME Base, NEW k \in Conn, line[k] # <<>>, NEW x, x = Head(line[k]),
           x \notin Caster, NEW rest, NEW p, AttachMoves(k, x, rest, p)
    PROVE  AttachJoined(k, x)
<1> USE DEF AttachJoined
<1>1. PICK l : l = Popped(k)
  OBVIOUS
<1>2. /\ l \in [Conn -> Seq(Sender)] /\ Once(l) /\ Without(l, x)
      /\ \A j \in Conn \ {k} : l[j] = line[j]
      /\ \A i \in DOMAIN l[k] : i + 1 \in DOMAIN line[k] /\ l[k][i] = line[k][i + 1]
  BY <1>1, StillInLine
<1>3. \A j \in Conn : \A i \in DOMAIN l[j] : \E m \in DOMAIN line[j] : line[j][m] = l[j][i]
  BY <1>2
<1>4. CASE line' = Popped(k)
  BY <1>1, <1>3, <1>4
<1>5. CASE ws[at[x]] # None /\ line' = [Popped(k) EXCEPT ![ws[at[x]]] = Append(@, x)]
  <2> DEFINE t == ws[at[x]]
  <2>1. t \in Conn /\ x \in Sender
    BY <1>5, FirstInLine DEF Base, WellFormed, TypeOK
  <2>2. line' = [l EXCEPT ![t] = Append(@, x)]
    BY <1>1, <1>5
  <2> HIDE DEF t
  <2>3. /\ line' \in [Conn -> Seq(Sender)]
        /\ \A j \in Conn \ {t} : line'[j] = l[j]
        /\ \A i \in DOMAIN l[t] : i \in DOMAIN line'[t] /\ line'[t][i] = l[t][i]
        /\ \E e \in DOMAIN line'[t] :
              /\ line'[t][e] = x
              /\ e = 1 <=> l[t] = <<>>
              /\ \A i \in DOMAIN line'[t] : i # e => i \in DOMAIN l[t]
        /\ line'[t] # <<>>
        /\ Once(line')
    BY ONLY <1>2, <2>1, <2>2, Joins
  <2>4. \A j \in Conn : \A i \in DOMAIN line'[j] :
           (line'[j][i] = x /\ t = j) \/ (i \in DOMAIN l[j] /\ line'[j][i] = l[j][i])
    BY <2>3
  <2>5. \A j \in Conn : \A i \in DOMAIN l[j] : i \in DOMAIN line'[j] /\ line'[j][i] = l[j][i]
    BY <2>3
  <2> QED BY <1>1, <1>3, <2>4, <2>5 DEF t
<1> QED BY <1>4, <1>5 DEF AttachMoves

(* An attach is no broadcast.                                              *)
LEMMA AttachBelongs ==
    ASSUME Base, UNCHANGED cast, NEW k \in Conn, line[k] # <<>>, NEW x, x = Head(line[k]),
           x \notin Caster, NEW rest, NEW p, AttachMoves(k, x, rest, p)
    PROVE  CastersBelong
<1>1. AttachJoined(k, x)
  BY AttachJoins
<1> QED BY <1>1 DEF CastersBelong, AttachJoined

(* What a broadcast does with the lines.                                   *)
LEMMA BroadcastGoes ==
    ASSUME Base, NEW b \in Caster, Broadcast(b), NEW n, n = seq + 1
    PROVE  Went(b, n, sessions, ws, line)
<1>1. TypeOK /\ InOneLine /\ LogInv
  BY DEF Base, WellFormed
<1>2. cast[b] = Silent /\ FanOut(b, n, sessions, ws, line)
  BY DEF Broadcast
<1>3. Without(line, b) /\ Once(line)
  BY <1>1, <1>2, SilentIsNowhere, LinesAreOnce
<1>4. n \in Seqs
  <2>1. /\ casts \in Nat /\ casts + 1 \in 0..MaxCasts /\ conns \in 0..MaxConns /\ seq \in Nat
    BY <1>1, Numbers, SessionAssumption DEF Broadcast
  <2>2. Cardinality(Resynced) \in 0..conns /\ seq <= 1 + casts + Cardinality(Resynced)
    BY <1>1, Numbers, SeqFits DEF Base, Counted
  <2> QED BY <2>1, <2>2, SessionAssumption DEF Seqs, MaxSeq
<1>5. /\ cast \in [Caster -> [seq : Seqs, to : Conn \cup {None}, left : SUBSET Conn]]
      /\ sessions \in SUBSET Conn /\ ws \in [Conn -> Conn \cup {None}]
      /\ line \in [Conn -> Seq(Sender)]
  BY <1>1 DEF TypeOK
<1> QED BY <1>2, <1>3, <1>4, <1>5, CasterJoins

(* What a broadcast that goes on does with them.                           *)
LEMMA CasterGoes ==
    ASSUME Base, NEW k \in Conn, line[k] # <<>>, NEW x \in Caster, x = Head(line[k]),
           NEW w \in [Conn -> Conn \cup {None}], NEW l, l = Popped(k),
           FanOut(x, cast[x].seq, cast[x].left, w, l)
    PROVE  Went(x, cast[x].seq, cast[x].left, w, l)
<1>1. l \in [Conn -> Seq(Sender)] /\ Once(l) /\ Without(l, x)
  BY StillInLine
<1>2. /\ cast[x].seq \in Seqs /\ cast[x].left \in SUBSET Conn
      /\ cast \in [Caster -> [seq : Seqs, to : Conn \cup {None}, left : SUBSET Conn]]
  BY DEF Base, WellFormed, TypeOK
<1> QED BY <1>1, <1>2, CasterJoins

(* A sender that goes on keeps OvertakenInv.                               *)
LEMMA ProceedOvertaken ==
    ASSUME Base, OvertakenInv, NEW k \in Conn, Proceed(k) PROVE OvertakenInv'
<1>1. PICK x : x = Head(line[k])
  OBVIOUS
<1>2. line[k] # <<>> /\ UNCHANGED <<ws, overtaken>>
  BY DEF Proceed, history
<1>3. CASE x \in Caster
  <2>1. /\ FanOut(x, cast[x].seq, cast[x].left, ws, Popped(k))
        /\ UNCHANGED <<link, at>>
    BY <1>1, <1>3 DEF Proceed, Popped
  <2>2. PICK w, l : w = ws' /\ l = Popped(k)
    OBVIOUS
  <2>3. FanOut(x, cast[x].seq, cast[x].left, w, l) /\ w \in [Conn -> Conn \cup {None}]
    <3>1. w = ws
      BY <1>2, <2>2
    <3> QED BY <2>1, <2>2, <3>1 DEF Base, WellFormed, TypeOK
  <2>4. CastersBelong
    BY <1>1, <1>2, <1>3, <2>2, <2>3, CasterGoes, CasterBelongs
  <2> QED BY <1>2, <2>1, <2>4, OvertakenStays
<1>4. CASE x \notin Caster
  <2>1. AttachGoesOn(x, Popped(k)) /\ UNCHANGED cast
    BY <1>1, <1>4 DEF Proceed, Popped
  <2>2. CASE Closed(x) /\ line' = Popped(k)
    <3>1. CastersBelong
      BY <1>2, <2>1, <2>2, CastersStay
    <3>2. x \in Conn
      BY <1>1, <1>2, <1>4, FirstInLine
    <3>3. /\ at'[x] = None /\ link'[x] = "closed"
          /\ \A j \in Conn \ {x} : at'[j] = at[j] /\ link'[j] = link[j]
      BY <2>2, <3>2, ClosedLeaves
    <3> QED BY <1>2, <3>1, <3>3, OvertakenStays
  <2>3. CASE UNCHANGED <<link, at, cur>> /\ \E rest, p : AttachMoves(k, x, rest, p)
    <3>1. PICK rest, p : AttachMoves(k, x, rest, p)
      BY <2>3
    <3>2. CastersBelong
      BY <1>1, <1>2, <1>4, <2>1, <3>1, AttachBelongs
    <3> QED BY <1>2, <2>3, <3>2, OvertakenStays
  <2> QED BY <1>1, <1>2, <1>4, <2>1, <2>2, <2>3, AttachGoesOnOr
<1> QED BY <1>3, <1>4

(* A sender whose send failed detaches a session of its own, or an overtaken*)
(* one.                                                                    *)
LEMMA SendFailsOvertaken ==
    ASSUME Base, OvertakenInv, NEW k \in Conn, SendFails(k) PROVE OvertakenInv'
<1>1. PICK x : x = Head(line[k])
  OBVIOUS
<1>2. line[k] # <<>> /\ UNCHANGED <<sessions, overtaken>> /\ link[k] = "closed"
  BY DEF SendFails, history
<1>3. CASE x \in Caster
  <2>1. /\ FanOut(x, cast[x].seq, cast[x].left, ws', Popped(k))
        /\ ws' = Detached(cast[x].to)
        /\ UNCHANGED <<link, at>>
    BY <1>1, <1>3 DEF SendFails, Popped
  <2>2. PICK w, l : w = ws' /\ l = Popped(k)
    OBVIOUS
  <2>3. /\ w \in [Conn -> Conn \cup {None}]
        /\ \A s \in Conn : s # cast[x].to => ws'[s] = ws[s]
    <3>1. ws \in [Conn -> Conn \cup {None}]
      BY DEF Base, WellFormed, TypeOK
    <3> QED BY <2>1, <2>2, <3>1 DEF Detached
  <2>4. FanOut(x, cast[x].seq, cast[x].left, w, l)
    BY <2>1, <2>2
  <2>5. CastersBelong
    BY <1>1, <1>2, <1>3, <2>2, <2>3, <2>4, CasterGoes, CasterBelongs
  <2>6. ASSUME NEW j \in Conn, link'[j] = "open"
        PROVE  ws'[at[j]] = ws[at[j]] \/ at[j] \in overtaken
    <3>1. link[j] = "open" /\ j # k
      BY <1>2, <2>1, <2>6
    <3>2. at[j] \in Conn /\ at[j] # None
      <4>1. at[j] # None
        BY <3>1 DEF Base, Handlers
      <4> QED BY <4>1 DEF Base, WellFormed, TypeOK
    <3>3. CASE at[j] # cast[x].to
      BY <2>3, <3>2, <3>3
    <3>4. CASE at[j] = cast[x].to
      <4>1. 1 \in DOMAIN line[k] /\ line[k][1] = x
        BY <1>1, <1>2, FirstInLine
      <4> QED BY <1>3, <3>1, <3>2, <3>4, <4>1 DEF OvertakenInv
    <3> QED BY <3>3, <3>4
  <2> QED BY <1>2, <2>1, <2>5, <2>6, OvertakenStays
<1>4. CASE x \notin Caster
  <2>1. Closed(x) /\ line' = Popped(k) /\ UNCHANGED <<ws, cast>>
    BY <1>1, <1>4 DEF SendFails, Popped
  <2>2. CastersBelong
    BY <1>2, <2>1, CastersStay
  <2>3. x \in Conn
    BY <1>1, <1>2, <1>4, FirstInLine
  <2>4. /\ at'[x] = None /\ link'[x] = "closed"
        /\ \A j \in Conn \ {x} : at'[j] = at[j] /\ link'[j] = link[j]
    BY <2>1, <2>3, ClosedLeaves
  <2> QED BY <1>2, <2>1, <2>2, <2>4, OvertakenStays
<1> QED BY <1>3, <1>4

(* So does a handler that is done.                                         *)
LEMMA ServingEndsOvertaken ==
    ASSUME Base, OvertakenInv, NEW k \in Conn, ServingEnds(k) PROVE OvertakenInv'
<1>1. /\ pc[k] = "serving" /\ ws' = Detached(at[k]) /\ Closed(k)
      /\ UNCHANGED <<line, cast, overtaken>>
  BY DEF ServingEnds, history
<1>2. CastersBelong
  BY <1>1, CastersStay
<1>3. /\ at'[k] = None /\ link'[k] = "closed"
      /\ \A j \in Conn \ {k} : at'[j] = at[j] /\ link'[j] = link[j]
  BY <1>1, ClosedLeaves
<1>4. ASSUME NEW j \in Conn, link'[j] = "open"
      PROVE  ws'[at[j]] = ws[at[j]] \/ at[j] \in overtaken
  <2>1. link[j] = "open" /\ j # k
    BY <1>3, <1>4
  <2>2. at[j] \in Conn /\ at[j] # None
    <3>1. at[j] # None
      BY <2>1 DEF Base, Handlers
    <3> QED BY <3>1 DEF Base, WellFormed, TypeOK
  <2>3. CASE at[j] = at[k]
    BY <2>1, <2>2, <2>3 DEF OvertakenInv
  <2>4. CASE at[j] # at[k]
    <3>1. ws \in [Conn -> Conn \cup {None}]
      BY DEF Base, WellFormed, TypeOK
    <3> QED BY <1>1, <2>2, <2>4, <3>1 DEF Detached
  <2> QED BY <2>3, <2>4
<1> QED BY <1>1, <1>2, <1>3, <1>4, OvertakenStays

(* What an attach does, in short.                                          *)
LEMMA AttachDoes ==
    ASSUME Base, NEW c \in Client, Attach(c), NEW k, k = conns + 1, NEW s, s = key[c]
    PROVE  /\ k \in Conn /\ k \notin Caster /\ k # None /\ cur[c] = None
           /\ cur'[c] = k /\ \A d \in Client \ {c} : cur'[d] = cur[d] /\ cur[d] # k
           /\ link'[k] = "open" /\ pc'[k] = "attaching" /\ line'[k] = <<k>>
           /\ \A j \in Conn \ {k} : UNCHANGED <<link[j], pc[j], line[j], at[j], todo[j]>>
           /\ line[k] = <<>> /\ ~wrote[k]
           /\ conns' = k
           /\ \A j \in Conn : ws'[j] \in {ws[j], k}
           /\ \A j \in Conn : at[j] # k /\ ws[j] # k
           /\ \A j \in Conn : \A i \in DOMAIN line[j] : line[j][i] # k
           /\ \A b \in Caster : cast[b].to # k
           /\ UNCHANGED <<seq, last, wrote, casts, cast, key, seen>>
           /\ \/ /\ at'[k] = k /\ ws'[k] = k /\ k \in sessions'
                 /\ todo'[k] = {Ack} /\ UNCHANGED overtaken
                 /\ \A j \in Conn \ {k, s} : ws'[j] = ws[j]
                 /\ s \notin sessions => \A j \in Conn \ {k} : ws'[j] = ws[j]
                 /\ s # k
                 /\ owed'[c] = {} /\ \A d \in Client \ {c} : owed'[d] = owed[d]
                 /\ \A d \in Client \ {c} : since'[d] = since[d]
              \/ /\ s \in sessions /\ s # k
                 /\ at'[k] = s /\ ws'[s] = k /\ sessions' = sessions /\ ~Refused(seen[c])
                 /\ todo'[k] = {Ack} \cup ReplayTail(seen[c])
                 /\ \A j \in Conn \ {s} : ws'[j] = ws[j]
                 /\ owed' = owed
                 /\ since'[c] = seen[c] /\ \A d \in Client \ {c} : since'[d] = since[d]
                 /\ overtaken \subseteq overtaken'
                 /\ InUse(s) => s \in overtaken'
<1>0. TypeOK /\ SocketInv /\ Counted /\ Handlers /\ InOneLine
  BY DEF Base, WellFormed
<1>1. k \in Conn /\ k \notin Caster /\ k # None /\ conns \in Nat /\ k > conns
  <2>1. conns \in Nat /\ k \in Conn
    BY <1>0, Numbers, SessionAssumption DEF Attach, Conn
  <2> QED BY <2>1, Senders
<1>2. /\ \A d \in Client : cur[d] # k /\ key[d] # k
      /\ \A j \in Conn : at[j] # k /\ ws[j] # k
      /\ \A b \in Caster : cast[b].to # k
      /\ \A r \in sessions : r # k
  <2>1. /\ \A j \in Conn : at[j] \in Nat /\ at[j] <= conns /\ ws[j] \in Nat /\ ws[j] <= conns
    BY <1>0, ConnNumbers DEF Counted, SocketInv, NumberedByConns
  <2>2. \A d \in Client : cur[d] \in Nat /\ cur[d] <= conns /\ key[d] \in Nat /\ key[d] <= conns
    BY <1>0, ConnNumbers DEF Counted
  <2>3. \A b \in Caster : cast[b].to \in 0..conns
    BY <1>0 DEF Counted
  <2>4. \A r \in sessions : r \in Nat /\ r <= conns
    BY <1>0, Senders DEF SocketInv, NumberedByConns
  <2>5. \A j \in Conn : at[j] # k /\ ws[j] # k
    BY <1>1, <2>1
  <2> QED BY <1>1, <2>2, <2>3, <2>4, <2>5
<1>3. /\ cur[c] = None /\ conns' = k
      /\ cur'[c] = k /\ \A d \in Client \ {c} : cur'[d] = cur[d]
      /\ link'[k] = "open" /\ pc'[k] = "attaching" /\ line'[k] = <<k>>
      /\ \A j \in Conn \ {k} : UNCHANGED <<link[j], pc[j], line[j]>>
      /\ UNCHANGED <<seq, last, wrote, casts, cast, key, seen>>
  BY <1>0, <1>1 DEF Attach, TypeOK
<1>4. /\ line[k] = <<>> /\ ~wrote[k]
      /\ \A j \in Conn : \A i \in DOMAIN line[j] : line[j][i] # k
  <2>1. line[k] = <<>> /\ pc[k] = "none"
    BY <1>0, <1>1 DEF Counted
  <2>2. wrote[k] \in BOOLEAN
    BY <1>0, <1>1 DEF TypeOK
  <2>3. pc[k] \notin Attaching
    BY <2>1 DEF Attaching
  <2>4. \A j \in Conn : \A i \in DOMAIN line[j] : line[j][i] # k
    BY <1>0, <1>1, <2>3, LinesAreOnce
  <2> QED BY <1>0, <1>1, <2>1, <2>2, <2>4 DEF Handlers
<1>5. ASSUME NEW others, NEW w, CreateSession(c, k, others, w),
             w = ws \/ (s \in sessions /\ w = Reattached(s, k))
      PROVE  /\ at'[k] = k /\ ws'[k] = k /\ k \in sessions'
             /\ \A j \in Conn : ws'[j] \in {ws[j], k}
             /\ \A j \in Conn \ {k} : UNCHANGED <<at[j], todo[j]>>
             /\ todo'[k] = {Ack} /\ UNCHANGED overtaken
             /\ \A j \in Conn \ {k, s} : ws'[j] = ws[j]
             /\ s \notin sessions => \A j \in Conn \ {k} : ws'[j] = ws[j]
             /\ owed'[c] = {} /\ \A d \in Client \ {c} : owed'[d] = owed[d]
             /\ \A d \in Client \ {c} : since'[d] = since[d]
  <2>1. /\ w \in [Conn -> Conn \cup {None}]
        /\ \A j \in Conn \ {s} : w[j] = ws[j]
        /\ s \notin sessions => w = ws
        /\ \A j \in Conn : w[j] \in {ws[j], k}
    BY <1>0, <1>1, <1>5 DEF TypeOK, Reattached
  <2>2. /\ sessions' = others \cup {k} /\ ws' = [w EXCEPT ![k] = k] /\ at' = [at EXCEPT ![k] = k]
        /\ todo' = [todo EXCEPT ![k] = {Ack}] /\ owed' = [owed EXCEPT ![c] = {}]
        /\ since' = [since EXCEPT ![c] = 0] /\ UNCHANGED overtaken
    BY <1>5 DEF CreateSession
  <2>3. /\ ws'[k] = k /\ \A j \in Conn \ {k} : ws'[j] = w[j]
    BY <1>1, <2>1, <2>2
  <2>4. /\ at'[k] = k /\ todo'[k] = {Ack} /\ \A j \in Conn \ {k} : UNCHANGED <<at[j], todo[j]>>
    BY <1>0, <1>1, <2>2 DEF TypeOK
  <2>5. /\ owed'[c] = {} /\ \A d \in Client \ {c} : owed'[d] = owed[d] /\ since'[d] = since[d]
    BY <1>0, <2>2 DEF TypeOK
  <2>6. k \in sessions' /\ UNCHANGED overtaken
    BY <2>2
  <2>7. /\ \A j \in Conn : ws'[j] \in {ws[j], k}
        /\ \A j \in Conn \ {k, s} : ws'[j] = ws[j]
        /\ s \notin sessions => \A j \in Conn \ {k} : ws'[j] = ws[j]
    BY <2>1, <2>3
  <2> QED BY <2>3, <2>4, <2>5, <2>6, <2>7
<1>6. ASSUME s \in sessions, ResumeSession(c, k, s, seen[c])
      PROVE  /\ s # k
             /\ \A j \in Conn : ws'[j] \in {ws[j], k}
             /\ at'[k] = s /\ ws'[s] = k /\ sessions' = sessions
             /\ \A j \in Conn \ {k} : UNCHANGED <<at[j], todo[j]>>
             /\ todo'[k] = {Ack} \cup ReplayTail(seen[c])
             /\ \A j \in Conn \ {s} : ws'[j] = ws[j]
             /\ owed' = owed
             /\ since'[c] = seen[c] /\ \A d \in Client \ {c} : since'[d] = since[d]
             /\ overtaken \subseteq overtaken'
             /\ InUse(s) => s \in overtaken'
  <2>1. s \in Conn /\ s # k
    BY <1>0, <1>2, <1>6 DEF TypeOK
  <2>2. /\ ws' = Reattached(s, k) /\ at' = [at EXCEPT ![k] = s] /\ UNCHANGED <<sessions, owed>>
        /\ todo' = [todo EXCEPT ![k] = {Ack} \cup ReplayTail(seen[c])]
        /\ since' = [since EXCEPT ![c] = seen[c]]
        /\ overtaken' = IF InUse(s) THEN overtaken \cup {s} ELSE overtaken
    BY <1>6 DEF ResumeSession
  <2>3. ws'[s] = k /\ \A j \in Conn \ {s} : ws'[j] = ws[j]
    BY <1>0, <2>1, <2>2 DEF TypeOK, Reattached
  <2>4. /\ at'[k] = s /\ \A j \in Conn \ {k} : UNCHANGED <<at[j], todo[j]>>
        /\ todo'[k] = {Ack} \cup ReplayTail(seen[c])
    BY <1>0, <1>1, <2>2 DEF TypeOK
  <2>5. since'[c] = seen[c] /\ \A d \in Client \ {c} : since'[d] = since[d]
    BY <1>0, <2>2 DEF TypeOK
  <2> QED BY <2>1, <2>2, <2>3, <2>4, <2>5
<1>7. \/ \E others : CreateSession(c, k, others, ws)
      \/ s \in sessions /\ \E others : CreateSession(c, k, others, Reattached(s, k))
      \/ s \in sessions /\ ~Refused(seen[c]) /\ ResumeSession(c, k, s, seen[c])
  BY DEF Attach
<1>8. s # k
  BY <1>2
<1>a. \A d \in Client \ {c} : cur'[d] = cur[d] /\ cur[d] # k
  BY <1>2, <1>3
<1>9. CASE \E others : CreateSession(c, k, others, ws)
  <2>1. PICK others : CreateSession(c, k, others, ws)
    BY <1>9
  <2>2. PICK w : w = ws
    OBVIOUS
  <2>3. CreateSession(c, k, others, w)
    BY <2>1, <2>2
  <2> QED BY <1>1, <1>2, <1>3, <1>4, <1>5, <1>8, <1>a, <2>2, <2>3
<1>10. CASE s \in sessions /\ \E others : CreateSession(c, k, others, Reattached(s, k))
  <2>1. PICK others : CreateSession(c, k, others, Reattached(s, k))
    BY <1>10
  <2>2. PICK w : w = Reattached(s, k)
    OBVIOUS
  <2>3. CreateSession(c, k, others, w)
    BY <2>1, <2>2
  <2> QED BY <1>1, <1>2, <1>3, <1>4, <1>5, <1>8, <1>10, <1>a, <2>2, <2>3
<1>11. CASE s \in sessions /\ ~Refused(seen[c]) /\ ResumeSession(c, k, s, seen[c])
  BY <1>1, <1>2, <1>3, <1>4, <1>6, <1>11, <1>a
<1> QED BY <1>7, <1>9, <1>10, <1>11

(* A client that comes back overtakes whoever still holds on to its        *)
(* session; nobody else has a session that is dropped.                     *)
LEMMA AttachOvertaken ==
    ASSUME Base, ClientInv, OvertakenInv, NEW c \in Client, Attach(c) PROVE OvertakenInv'
<1>1. PICK k, s : k = conns + 1 /\ s = key[c]
  OBVIOUS
<1>2. /\ k \in Conn /\ k \notin Caster /\ k # None
      /\ link'[k] = "open" /\ line'[k] = <<k>>
      /\ \A j \in Conn \ {k} : link'[j] = link[j] /\ line'[j] = line[j] /\ at'[j] = at[j]
      /\ \A j \in Conn : at[j] # k
      /\ \A b \in Caster : cast'[b] = cast[b] /\ cast[b].to # k
  BY <1>1, AttachDoes
<1>3. \A j \in Conn : \A i \in DOMAIN line'[j] :
         line'[j][i] \in Caster => j # k /\ i \in DOMAIN line[j] /\ line'[j][i] = line[j][i]
  BY <1>2
<1>4. CASE /\ at'[k] = k /\ ws'[k] = k /\ UNCHANGED overtaken
           /\ \A j \in Conn \ {k, s} : ws'[j] = ws[j]
           /\ s \notin sessions => \A j \in Conn \ {k} : ws'[j] = ws[j]
  <2>1. \A i, j \in Conn : at'[i] = at'[j] /\ at'[j] # None => i = j \/ at'[j] \in overtaken'
    BY <1>2, <1>4 DEF OvertakenInv
  <2>2. ASSUME NEW j \in Conn, link'[j] = "open" PROVE ws'[at'[j]] = j \/ at'[j] \in overtaken'
    <3>1. CASE j = k
      BY <1>4, <3>1
    <3>2. CASE j # k
      <4>1. link[j] = "open" /\ at'[j] = at[j] /\ at[j] # k
        BY <1>2, <2>2, <3>2
      <4>2. PICK d \in Client : cur[d] = j
        BY <4>1 DEF Base, Handlers
      <4>3. at[j] # None /\ at[j] \in Conn /\ j # None
        <5>1. at[j] # None
          BY <4>1 DEF Base, Handlers
        <5> QED BY <5>1, Senders DEF Base, WellFormed, TypeOK
      <4>4. at[j] \in sessions /\ at[j] \in Claims(d)
        BY <4>2, <4>3 DEF ClientInv, Claims
      <4>5. d # c
        BY <1>1, <4>2, <4>3, AttachDoes
      <4>6. s # at[j]
        <5>1. s = at[j] => s \in Claims(c)
          BY <1>1, <4>3 DEF Claims
        <5> QED BY <4>4, <4>5, <5>1 DEF ClientInv
      <4>7. ws'[at[j]] = ws[at[j]]
        BY <1>4, <4>1, <4>3, <4>6
      <4> QED BY <1>4, <4>1, <4>7 DEF OvertakenInv
    <3> QED BY <3>1, <3>2
  <2>3. ASSUME NEW i \in Conn, NEW j \in Conn, NEW m \in DOMAIN line'[i],
               line'[i][m] \in Caster, at'[j] # None, cast'[line'[i][m]].to = at'[j], link'[j] = "open"
        PROVE  i = j \/ at'[j] \in overtaken'
    <3>1. j # k
      BY <1>2, <1>3, <1>4, <2>3
    <3>2. /\ m \in DOMAIN line[i] /\ line[i][m] \in Caster /\ at[j] # None
          /\ cast[line[i][m]].to = at[j] /\ link[j] = "open" /\ at'[j] = at[j]
      BY <1>2, <1>3, <2>3, <3>1
    <3> QED BY <1>4, <3>2 DEF OvertakenInv
  <2> QED BY <2>1, <2>2, <2>3 DEF OvertakenInv
<1>5. CASE /\ at'[k] = s /\ ws'[s] = k
           /\ \A j \in Conn \ {s} : ws'[j] = ws[j]
           /\ overtaken \subseteq overtaken'
           /\ InUse(s) => s \in overtaken'
  <2>1. /\ \A j \in Conn : at[j] = s => s \in overtaken'
        /\ \A b \in Caster : cast[b].to = s => s \in overtaken'
    BY <1>5 DEF InUse
  <2>2. \A i, j \in Conn : at'[i] = at'[j] /\ at'[j] # None => i = j \/ at'[j] \in overtaken'
    BY <1>2, <1>5, <2>1 DEF OvertakenInv
  <2>3. ASSUME NEW j \in Conn, link'[j] = "open" PROVE ws'[at'[j]] = j \/ at'[j] \in overtaken'
    <3>1. CASE j = k
      BY <1>5, <3>1
    <3>2. CASE j # k
      <4>1. link[j] = "open" /\ at'[j] = at[j]
        BY <1>2, <2>3, <3>2
      <4>2. at[j] \in Conn
        <5>1. at[j] # None
          BY <4>1 DEF Base, Handlers
        <5> QED BY <5>1 DEF Base, WellFormed, TypeOK
      <4> QED BY <1>5, <2>1, <4>1, <4>2 DEF OvertakenInv
    <3> QED BY <3>1, <3>2
  <2>4. ASSUME NEW i \in Conn, NEW j \in Conn, NEW m \in DOMAIN line'[i],
               line'[i][m] \in Caster, at'[j] # None, cast'[line'[i][m]].to = at'[j], link'[j] = "open"
        PROVE  i = j \/ at'[j] \in overtaken'
    <3>0. /\ m \in DOMAIN line[i] /\ line[i][m] = line'[i][m]
          /\ cast[line[i][m]].to = cast'[line'[i][m]].to
      BY <1>2, <1>3, <2>4
    <3>1. CASE j = k
      BY <1>5, <2>1, <2>4, <3>0, <3>1
    <3>2. CASE j # k
      <4>1. /\ at[j] # None /\ cast[line[i][m]].to = at[j] /\ link[j] = "open" /\ at'[j] = at[j]
            /\ line[i][m] \in Caster
        BY <1>2, <2>4, <3>0, <3>2
      <4> QED BY <1>5, <3>0, <4>1 DEF OvertakenInv
    <3> QED BY <3>1, <3>2
  <2> QED BY <2>2, <2>3, <2>4 DEF OvertakenInv
<1> QED BY <1>1, <1>4, <1>5, AttachDoes

(* Every step keeps OvertakenInv.                                          *)
LEMMA OvertakenKeeps ==
    ASSUME Base, ClientInv, OvertakenInv, [Next]_vars PROVE OvertakenInv'
<1>1. ASSUME NEW b \in Caster, Broadcast(b) PROVE OvertakenInv'
  <2>1. PICK n : n = seq + 1
    OBVIOUS
  <2>2. PICK w, l : w = ws' /\ l = line
    OBVIOUS
  <2>3. UNCHANGED <<ws, at, link, overtaken>>
    BY <1>1 DEF Broadcast
  <2>4. Went(b, n, sessions, ws, line)
    BY <1>1, <2>1, BroadcastGoes
  <2>5. Went(b, n, sessions, w, l)
    BY <2>2, <2>3, <2>4
  <2>6. CastersBelong
    BY <2>2, <2>5, CasterBelongs
  <2> QED BY <2>3, <2>6, OvertakenStays
<1>2. ASSUME UNCHANGED <<ws, at, line, cast, overtaken>>,
             \A k \in Conn : link'[k] = "open" => link[k] = "open"
      PROVE  OvertakenInv'
  <2>1. CastersBelong
    BY <1>2, CastersStay
  <2> QED BY <1>2, <2>1, OvertakenStays
<1>3. ASSUME NEW c \in Client, Cut(c) PROVE OvertakenInv'
  <2>1. UNCHANGED <<ws, at, line, cast, overtaken>> /\ link' = [link EXCEPT ![cur[c]] = "cut"]
    BY <1>3 DEF Cut
  <2>2. \A k \in Conn : link'[k] = "open" => link[k] = "open"
    BY <2>1 DEF Base, WellFormed, TypeOK
  <2> QED BY <1>2, <2>1, <2>2
<1>4. ASSUME NEW k \in Conn, Notice(k) PROVE OvertakenInv'
  <2>1. UNCHANGED <<ws, at, line, cast, overtaken>> /\ link' = [link EXCEPT ![k] = "closed"]
    BY <1>4 DEF Notice, history
  <2>2. \A j \in Conn : link'[j] = "open" => link[j] = "open"
    BY <2>1 DEF Base, WellFormed, TypeOK
  <2> QED BY <1>2, <2>1, <2>2
<1>5. ASSUME NEW k \in Conn, Write(k) PROVE OvertakenInv'
  BY <1>2, <1>5 DEF Write
<1>6. CASE UNCHANGED vars
  BY <1>2, <1>6 DEF vars
<1>7. ASSUME NEW k \in Conn, SocketStep(k) PROVE OvertakenInv'
  BY <1>4, <1>5, <1>7, ProceedOvertaken, SendFailsOvertaken, ServingEndsOvertaken DEF SocketStep
<1> QED BY <1>1, <1>3, <1>6, <1>7, AttachOvertaken DEF Next

-----------------------------------------------------------------------------
(* What is in the lines.                                                   *)

(* Who has been in a line, and is no broadcast.                            *)
LEMMA LineConns ==
    ASSUME Base, NEW j \in Conn, NEW i \in DOMAIN line[j], NEW x, x = line[j][i], x \notin Caster
    PROVE  x \in Conn /\ x # None /\ x # conns + 1 /\ pc[x] \in Attaching /\ at[x] \in Conn
<1>1. x \in Conn /\ pc[x] \in Attaching
  <2>1. line \in [Conn -> Seq(Sender)] /\ InOneLine
    BY DEF Base, WellFormed, TypeOK
  <2> QED BY <2>1, LinesAreOnce, InLinesAreSenders
<1>2. pc[x] # "none"
  BY <1>1 DEF Attaching
<1>3. x # conns + 1
  <2>1. conns \in Nat /\ x \in Nat /\ x <= conns
    BY <1>1, <1>2, Numbers, Senders DEF Base, WellFormed, Counted
  <2> QED BY <2>1
<1>4. at[x] \in Conn
  BY <1>1, <1>2 DEF Base, WellFormed, TypeOK, Handlers
<1> QED BY <1>1, <1>3, <1>4, Senders

(* An attach waits at its own socket.                                      *)
LEMMA AttachOwn ==
    ASSUME Base, OwnSocket, NEW c \in Client, Attach(c) PROVE OwnSocket'
<1>1. PICK k, s : k = conns + 1 /\ s = key[c]
  OBVIOUS
<1>2. /\ k \in Conn /\ k # None /\ line'[k] = <<k>> /\ ws'[at'[k]] = k
      /\ \A j \in Conn \ {k} : line'[j] = line[j] /\ at'[j] = at[j]
      /\ \A j \in Conn : ws'[j] \in {ws[j], k}
  BY <1>1, AttachDoes
<1>3. ASSUME NEW j \in Conn, NEW i \in DOMAIN line'[j], NEW x, x = line'[j][i], x \notin Caster, ws'[at'[x]] = x
      PROVE  x = j
  <2>1. CASE j = k
    BY <1>2, <1>3, <2>1
  <2>2. CASE j # k
    <3>1. /\ x \in Conn /\ x # conns + 1 /\ at[x] \in Conn
          /\ i \in DOMAIN line[j] /\ line[j][i] = x
      BY <1>2, <1>3, <2>2, LineConns
    <3>2. at'[x] = at[x] /\ ws'[at[x]] \in {ws[at[x]], k} /\ x # k
      BY <1>1, <1>2, <3>1
    <3>3. ws[at[x]] = x
      BY <1>3, <3>2
    <3> QED BY <1>3, <3>1, <3>3 DEF OwnSocket
  <2> QED BY <2>1, <2>2
<1> QED BY <1>3 DEF OwnSocket

(* Nobody but a broadcast joins a line.                                    *)
LEMMA NoNewAttach ==
    ASSUME Base, OwnSocket,
           NoAttachJoins,
           \A x \in Conn : at'[x] # at[x] => Without(line', x),
           \A s \in Conn : ws'[s] \in {ws[s], None}
    PROVE  OwnSocket'
<1>1. ASSUME NEW j \in Conn, NEW i \in DOMAIN line'[j], NEW x, x = line'[j][i], x \notin Caster, ws'[at'[x]] = x
      PROVE  x = j
  <2>1. PICK m \in DOMAIN line[j] : line[j][m] = x
    BY <1>1 DEF NoAttachJoins
  <2>2. x \in Conn /\ x # None /\ pc[x] \in Attaching /\ at[x] \in Conn
    BY <1>1, <2>1, LineConns
  <2>3. at'[x] = at[x]
    BY <1>1, <2>2 DEF Without
  <2>4. ws[at[x]] = x
    BY <1>1, <2>2, <2>3
  <2> QED BY <1>1, <2>1, <2>4 DEF OwnSocket
<1> QED BY <1>1 DEF OwnSocket

(* A socket that is taken away is nobody's.                                *)
LEMMA DetachedLoses ==
    ASSUME Base, NEW s, ws' = Detached(s)
    PROVE  \A r \in Conn : ws'[r] \in {ws[r], None}
BY DEF Detached, Base, WellFormed, TypeOK

(* A sender that goes on joins the socket of its session, which is its own.*)
LEMMA ProceedOwn ==
    ASSUME Base, OwnSocket, NEW k \in Conn, Proceed(k) PROVE OwnSocket'
<1>1. PICK x : x = Head(line[k])
  OBVIOUS
<1>2. line[k] # <<>> /\ UNCHANGED ws
  BY DEF Proceed
<1>3. CASE x \in Caster
  <2>1. /\ FanOut(x, cast[x].seq, cast[x].left, ws, Popped(k))
        /\ UNCHANGED at
    BY <1>1, <1>3 DEF Proceed, Popped
  <2>2. PICK w, l : w = ws' /\ l = Popped(k)
    OBVIOUS
  <2>3. FanOut(x, cast[x].seq, cast[x].left, w, l) /\ w \in [Conn -> Conn \cup {None}]
    <3>1. w = ws
      BY <1>2, <2>2
    <3> QED BY <2>1, <2>2, <3>1 DEF Base, WellFormed, TypeOK
  <2>4. NoAttachJoins
    BY <1>1, <1>2, <1>3, <2>2, <2>3, CasterGoes, CasterBelongs
  <2> QED BY <1>2, <2>1, <2>4, NoNewAttach
<1>4. CASE x \notin Caster
  <2>1. AttachGoesOn(x, Popped(k)) /\ UNCHANGED cast
    BY <1>1, <1>4 DEF Proceed, Popped
  <2>2. CASE Closed(x) /\ line' = Popped(k)
    <3>1. NoAttachJoins
      BY <1>2, <2>1, <2>2, CastersStay
    <3>2. x \in Conn /\ Without(Popped(k), x)
      BY <1>1, <1>2, <1>4, FirstInLine, StillInLine
    <3>3. \A j \in Conn \ {x} : at'[j] = at[j]
      BY <2>2, <3>2, ClosedLeaves
    <3> QED BY <1>2, <2>2, <3>1, <3>2, <3>3, NoNewAttach
  <2>3. CASE UNCHANGED <<link, at, cur>> /\ \E rest, p : AttachMoves(k, x, rest, p)
    <3>1. PICK rest, p : AttachMoves(k, x, rest, p)
      BY <2>3
    <3>a. AttachJoined(k, x)
      BY <1>1, <1>2, <1>4, <3>1, AttachJoins
    <3>2. ASSUME NEW j \in Conn, NEW i \in DOMAIN line'[j], NEW y, y = line'[j][i], y \notin Caster,
                 ws'[at'[y]] = y
          PROVE  y = j
      <4>1. ws[at[y]] = y
        BY <1>2, <2>3, <3>2
      <4>2. y = x => ws[at[x]] = j \/ \E m \in DOMAIN line[j] : line[j][m] = y
        BY <3>a, <3>2 DEF AttachJoined
      <4>3. y # x => \E m \in DOMAIN line[j] : line[j][m] = y
        BY <3>a, <3>2 DEF AttachJoined
      <4> QED BY <3>2, <4>1, <4>2, <4>3 DEF OwnSocket
    <3> QED BY <3>2 DEF OwnSocket
  <2> QED BY <1>1, <1>2, <1>4, <2>1, <2>2, <2>3, AttachGoesOnOr
<1> QED BY <1>3, <1>4

(* A send that failed leaves the others where they are.                    *)
LEMMA SendFailsOwn ==
    ASSUME Base, OwnSocket, NEW k \in Conn, SendFails(k) PROVE OwnSocket'
<1>1. PICK x : x = Head(line[k])
  OBVIOUS
<1>2. line[k] # <<>>
  BY DEF SendFails
<1>3. CASE x \in Caster
  <2>1. /\ FanOut(x, cast[x].seq, cast[x].left, ws', Popped(k))
        /\ ws' = Detached(cast[x].to)
        /\ UNCHANGED at
    BY <1>1, <1>3 DEF SendFails, Popped
  <2>2. PICK w, l : w = ws' /\ l = Popped(k)
    OBVIOUS
  <2>3. w \in [Conn -> Conn \cup {None}] /\ \A s \in Conn : ws'[s] \in {ws[s], None}
    <3>1. ws \in [Conn -> Conn \cup {None}]
      BY DEF Base, WellFormed, TypeOK
    <3> QED BY <2>1, <2>2, <3>1, DetachedLoses DEF Detached
  <2>4. FanOut(x, cast[x].seq, cast[x].left, w, l)
    BY <2>1, <2>2
  <2>5. NoAttachJoins
    BY <1>1, <1>2, <1>3, <2>2, <2>3, <2>4, CasterGoes, CasterBelongs
  <2> QED BY <2>1, <2>3, <2>5, NoNewAttach
<1>4. CASE x \notin Caster
  <2>1. Closed(x) /\ line' = Popped(k) /\ UNCHANGED <<ws, cast>>
    BY <1>1, <1>4 DEF SendFails, Popped
  <2>2. NoAttachJoins
    BY <1>2, <2>1, CastersStay
  <2>3. x \in Conn /\ Without(Popped(k), x)
    BY <1>1, <1>2, <1>4, FirstInLine, StillInLine
  <2>4. \A j \in Conn \ {x} : at'[j] = at[j]
    BY <2>1, <2>3, ClosedLeaves
  <2> QED BY <2>1, <2>2, <2>3, <2>4, NoNewAttach
<1> QED BY <1>3, <1>4

(* Every step keeps OwnSocket.                                             *)
LEMMA OwnSocketKeeps ==
    ASSUME Base, OwnSocket, [Next]_vars PROVE OwnSocket'
<1>1. ASSUME NEW b \in Caster, Broadcast(b) PROVE OwnSocket'
  <2>1. PICK n : n = seq + 1
    OBVIOUS
  <2>2. PICK w, l : w = ws' /\ l = line
    OBVIOUS
  <2>3. UNCHANGED <<ws, at>>
    BY <1>1 DEF Broadcast
  <2>4. Went(b, n, sessions, ws, line)
    BY <1>1, <2>1, BroadcastGoes
  <2>5. Went(b, n, sessions, w, l)
    BY <2>2, <2>3, <2>4
  <2>6. NoAttachJoins
    BY <2>2, <2>5, CasterBelongs
  <2> QED BY <2>3, <2>6, NoNewAttach
<1>2. ASSUME UNCHANGED <<ws, at, line>> PROVE OwnSocket'
  BY <1>2 DEF OwnSocket
<1>3. ASSUME NEW k \in Conn, ServingEnds(k) PROVE OwnSocket'
  <2>1. pc[k] = "serving" /\ ws' = Detached(at[k]) /\ Closed(k) /\ UNCHANGED <<line, cast>>
    BY <1>3 DEF ServingEnds
  <2>2. NoAttachJoins
    BY <2>1, CastersStay
  <2>3. Without(line, k)
    <3>1. line \in [Conn -> Seq(Sender)] /\ InOneLine /\ pc[k] \notin Attaching
      BY <2>1 DEF Base, WellFormed, TypeOK, Attaching
    <3> QED BY <3>1, LinesAreOnce, Senders DEF Without
  <2>4. Without(line', k)
    BY <2>1, <2>3
  <2>5. \A j \in Conn \ {k} : at'[j] = at[j]
    BY <2>1, ClosedLeaves
  <2> QED BY <2>1, <2>2, <2>4, <2>5, DetachedLoses, NoNewAttach
<1>4. ASSUME NEW c \in Client, Cut(c) PROVE OwnSocket'
  BY <1>2, <1>4 DEF Cut
<1>5. ASSUME NEW k \in Conn, SocketStep(k) PROVE OwnSocket'
  <2>1. CASE Write(k)
    BY <1>2, <2>1 DEF Write
  <2>2. CASE Notice(k)
    BY <1>2, <2>2 DEF Notice
  <2> QED BY <1>3, <1>5, <2>1, <2>2, ProceedOwn, SendFailsOwn DEF SocketStep
<1>6. CASE UNCHANGED vars
  BY <1>2, <1>6 DEF vars
<1> QED BY <1>1, <1>4, <1>5, <1>6, AttachOwn DEF Next

-----------------------------------------------------------------------------
(* A sender that goes on, or whose send failed.                            *)

Moved(k, x) ==
    /\ line[k] # <<>> /\ ~wrote'[k] /\ \A j \in Conn \ {k} : wrote'[j] = wrote[j]
    /\ wrote[k] \/ link[k] = "closed"
    /\ UNCHANGED <<owed, since>>
    /\ \A j \in Conn : \A i \in DOMAIN Popped(k)[j] :
          i \in DOMAIN line'[j] /\ line'[j][i] = Popped(k)[j][i]
    /\ \A b \in Caster : b # x => cast'[b] = cast[b]
    /\ \A y \in Conn : y # x => todo'[y] = todo[y]
    /\ \A c \in Client : cur'[c] \in {cur[c], None}
    /\ \A y \in Conn : pc'[y] # "none" => pc[y] # "none" /\ at'[y] = at[y]
    /\ \A s \in Conn : ws'[s] \in {ws[s], None}
    /\ x \in Caster => \E w, l : /\ w = ws' /\ l = Popped(k)
                                 /\ Went(x, cast[x].seq, cast[x].left, w, l)
                                 /\ UNCHANGED <<todo, at>>
    /\ x \notin Caster =>
          /\ x \in Conn /\ UNCHANGED cast
          /\ pc'[x] # "none" => wrote[k] /\ todo[x] \subseteq todo'[x] \cup {Frame(x)}

(* A broadcast that goes on has moved.                                     *)
LEMMA CasterMoved ==
    ASSUME Base, NEW k \in Conn, line[k] # <<>>, NEW x \in Caster, x = Head(line[k]),
           ws' \in [Conn -> Conn \cup {None}],
           FanOut(x, cast[x].seq, cast[x].left, ws', Popped(k)), UNCHANGED <<todo, at>>
    PROVE  /\ \E w, l : /\ w = ws' /\ l = Popped(k)
                        /\ Went(x, cast[x].seq, cast[x].left, w, l)
                        /\ UNCHANGED <<todo, at>>
           /\ \A j \in Conn : \A i \in DOMAIN Popped(k)[j] :
                 i \in DOMAIN line'[j] /\ line'[j][i] = Popped(k)[j][i]
           /\ \A b \in Caster : b # x => cast'[b] = cast[b]
<1>1. PICK w, l : w = ws' /\ l = Popped(k)
  OBVIOUS
<1>2. FanOut(x, cast[x].seq, cast[x].left, w, l) /\ w \in [Conn -> Conn \cup {None}]
  BY <1>1
<1>3. Went(x, cast[x].seq, cast[x].left, w, l)
  BY <1>1, <1>2, CasterGoes
<1>4. /\ \A j \in Conn : \A i \in DOMAIN l[j] : i \in DOMAIN line'[j] /\ line'[j][i] = l[j][i]
      /\ \A b \in Caster : b # x => cast'[b] = cast[b]
  BY <1>3 DEF Went
<1> QED BY <1>1, <1>3, <1>4

(* A sender that goes on has moved.                                        *)
LEMMA ProceedMoves ==
    ASSUME Base, NEW k \in Conn, Proceed(k), NEW x, x = Head(line[k])
    PROVE  Moved(k, x)
<1>0. /\ wrote \in [Conn -> BOOLEAN] /\ ws \in [Conn -> Conn \cup {None}]
  BY DEF Base, WellFormed, TypeOK
<1>1. /\ line[k] # <<>> /\ wrote[k] /\ wrote' = [wrote EXCEPT ![k] = FALSE]
      /\ UNCHANGED <<owed, since, ws>>
  BY DEF Proceed, history
<1>2. ~wrote'[k] /\ \A j \in Conn \ {k} : wrote'[j] = wrote[j]
  BY <1>0, <1>1
<1>3. CASE x \in Caster
  <2>1. FanOut(x, cast[x].seq, cast[x].left, ws', Popped(k)) /\ UNCHANGED <<pc, at, todo, cur>>
    BY <1>1, <1>3 DEF Proceed, Popped
  <2>2. ws' \in [Conn -> Conn \cup {None}]
    BY <1>0, <1>1
  <2>3. /\ \E w, l : /\ w = ws' /\ l = Popped(k)
                     /\ Went(x, cast[x].seq, cast[x].left, w, l)
                     /\ UNCHANGED <<todo, at>>
        /\ \A j \in Conn : \A i \in DOMAIN Popped(k)[j] :
              i \in DOMAIN line'[j] /\ line'[j][i] = Popped(k)[j][i]
        /\ \A b \in Caster : b # x => cast'[b] = cast[b]
    BY <1>1, <1>3, <2>1, <2>2, CasterMoved
  <2> QED BY <1>1, <1>2, <1>3, <2>1, <2>3 DEF Moved
<1>4. CASE x \notin Caster
  <2>1. AttachGoesOn(x, Popped(k)) /\ UNCHANGED cast
    BY <1>4 DEF Proceed, Popped
  <2>2. x \in Conn /\ Frame(x) = Min(todo[x]) /\ pc[x] # "none"
    BY <1>1, <1>4, FirstInLine DEF Attaching
  <2>3. CASE Closed(x) /\ line' = Popped(k)
    <3>1. /\ pc'[x] = "none"
          /\ \A c \in Client : cur'[c] \in {cur[c], None}
          /\ \A y \in Conn \ {x} : UNCHANGED <<pc[y], at[y], todo[y]>>
      BY <2>2, <2>3, ClosedLeaves
    <3> QED BY <1>1, <1>2, <1>4, <2>1, <2>2, <2>3, <3>1 DEF Moved
  <2>4. CASE UNCHANGED <<link, at, cur>> /\ \E rest, p : AttachMoves(k, x, rest, p)
    <3>1. PICK rest, p : AttachMoves(k, x, rest, p)
      BY <2>4
    <3>2. /\ todo'[x] = rest /\ \A y \in Conn : y # x => todo'[y] = todo[y] /\ pc'[y] = pc[y]
          /\ todo[x] \subseteq rest \cup {Min(todo[x])}
      BY <2>2, <3>1 DEF AttachMoves, Base, WellFormed, TypeOK
    <3>3. AttachJoined(k, x)
      BY <1>1, <1>4, <3>1, AttachJoins
    <3>4. \A j \in Conn : \A i \in DOMAIN Popped(k)[j] :
             i \in DOMAIN line'[j] /\ line'[j][i] = Popped(k)[j][i]
      BY <3>3 DEF AttachJoined
    <3>5. \A y \in Conn : pc'[y] # "none" => pc[y] # "none" /\ at'[y] = at[y]
      BY <2>2, <2>4, <3>2
    <3> QED BY <1>1, <1>2, <1>4, <2>1, <2>2, <2>4, <3>2, <3>4, <3>5 DEF Moved
  <2> QED BY <1>1, <1>4, <2>1, <2>3, <2>4, AttachGoesOnOr
<1> QED BY <1>3, <1>4

(* A sender whose send failed has moved.                                   *)
LEMMA SendFailsMoves ==
    ASSUME Base, NEW k \in Conn, SendFails(k), NEW x, x = Head(line[k])
    PROVE  Moved(k, x)
<1>0. /\ wrote \in [Conn -> BOOLEAN] /\ ws \in [Conn -> Conn \cup {None}]
  BY DEF Base, WellFormed, TypeOK
<1>1. /\ line[k] # <<>> /\ link[k] = "closed" /\ wrote' = [wrote EXCEPT ![k] = FALSE]
      /\ UNCHANGED <<owed, since>>
  BY DEF SendFails, history
<1>2. ~wrote'[k] /\ \A j \in Conn \ {k} : wrote'[j] = wrote[j]
  BY <1>0, <1>1
<1>3. CASE x \in Caster
  <2>1. /\ FanOut(x, cast[x].seq, cast[x].left, ws', Popped(k)) /\ UNCHANGED <<pc, at, todo, cur>>
        /\ ws' = Detached(cast[x].to)
    BY <1>1, <1>3 DEF SendFails, Popped
  <2>2. ws' \in [Conn -> Conn \cup {None}] /\ \A s \in Conn : ws'[s] \in {ws[s], None}
    BY <1>0, <2>1, DetachedLoses DEF Detached
  <2>3. /\ \E w, l : /\ w = ws' /\ l = Popped(k)
                     /\ Went(x, cast[x].seq, cast[x].left, w, l)
                     /\ UNCHANGED <<todo, at>>
        /\ \A j \in Conn : \A i \in DOMAIN Popped(k)[j] :
              i \in DOMAIN line'[j] /\ line'[j][i] = Popped(k)[j][i]
        /\ \A b \in Caster : b # x => cast'[b] = cast[b]
    BY <1>1, <1>3, <2>1, <2>2, CasterMoved
  <2> QED BY <1>1, <1>2, <1>3, <2>1, <2>2, <2>3 DEF Moved
<1>4. CASE x \notin Caster
  <2>1. Closed(x) /\ line' = Popped(k) /\ UNCHANGED <<ws, cast>>
    BY <1>4 DEF SendFails, Popped
  <2>2. x \in Conn /\ pc[x] # "none"
    BY <1>1, <1>4, FirstInLine DEF Attaching
  <2>3. /\ pc'[x] = "none"
        /\ \A c \in Client : cur'[c] \in {cur[c], None}
        /\ \A y \in Conn \ {x} : UNCHANGED <<pc[y], at[y], todo[y]>>
    BY <2>1, <2>2, ClosedLeaves
  <2> QED BY <1>1, <1>2, <1>4, <2>1, <2>2, <2>3 DEF Moved
<1> QED BY <1>3, <1>4

-----------------------------------------------------------------------------
(* What is owed.                                                           *)

(* The first in line has still the same frame to write.                    *)
LEMMA SameFrame ==
    ASSUME Base, Base', NEW j \in Conn, 1 \in DOMAIN line[j], 1 \in DOMAIN line'[j],
           NEW y, y = line[j][1], line'[j][1] = y,
           y \in Caster => cast'[y] = cast[y],
           y \notin Caster => todo'[y] = todo[y]
    PROVE  Frame(Head(line[j]))' = Frame(Head(line[j]))
<1>1. line[j] \in Seq(Sender) /\ line'[j] \in Seq(Sender)
  BY DEF Base, WellFormed, TypeOK
<1>2. Head(line[j]) = y /\ Head(line'[j]) = y
  <2>1. line[j] # <<>> /\ line'[j] # <<>>
    BY <1>1
  <2> QED BY <1>1, <2>1
<1>3. Frame(Head(line[j])) = IF y \in Caster THEN cast[y].seq ELSE Min(todo[y])
  BY <1>2 DEF Frame
<1>4. Frame(Head(line[j]))' = IF y \in Caster THEN cast'[y].seq ELSE Min(todo'[y])
  BY <1>2 DEF Frame
<1> QED BY <1>3, <1>4

(* Nothing is written and nothing more is owed.                            *)
LEMMA PaidStays ==
    ASSUME Base, Paid,
           \A c \in Client : cur'[c] \in {cur[c], None},
           \A c \in Client : owed'[c] \subseteq owed[c],
           \A j \in Conn : wrote'[j] => wrote[j] /\ Frame(Head(line[j]))' = Frame(Head(line[j]))
    PROVE  Paid'
<1>1. ASSUME NEW c \in Client, NEW k, k = cur'[c], k # None, wrote'[k]
      PROVE  Frame(Head(line[k]))' \notin owed'[c]
  <2>1. k = cur[c] /\ k \in Conn
    BY <1>1 DEF Base, WellFormed, TypeOK
  <2>2. Frame(Head(line[k])) \notin owed[c] /\ Frame(Head(line[k]))' = Frame(Head(line[k]))
    BY <1>1, <2>1 DEF Paid
  <2> QED BY <2>2
<1> QED BY <1>1 DEF Paid

(* A sender that moved was written, and no other head of a line is.        *)
LEMMA PaidIfMoved ==
    ASSUME Base, Base', Paid, NEW k \in Conn, NEW x, x = Head(line[k]), Moved(k, x) PROVE Paid'
<1>1. /\ line[k] # <<>> /\ ~wrote'[k] /\ \A j \in Conn \ {k} : wrote'[j] = wrote[j]
      /\ UNCHANGED owed
      /\ \A j \in Conn : \A i \in DOMAIN Popped(k)[j] :
            i \in DOMAIN line'[j] /\ line'[j][i] = Popped(k)[j][i]
      /\ \A b \in Caster : b # x => cast'[b] = cast[b]
      /\ \A y \in Conn : y # x => todo'[y] = todo[y]
      /\ \A c \in Client : cur'[c] \in {cur[c], None}
  BY DEF Moved
<1>2. /\ \A j \in Conn \ {k} : Popped(k)[j] = line[j]
      /\ Without(Popped(k), x)
  BY <1>1, StillInLine
<1>3. ASSUME NEW j \in Conn, wrote'[j] PROVE wrote[j] /\ Frame(Head(line[j]))' = Frame(Head(line[j]))
  <2>1. j # k /\ wrote[j]
    BY <1>1, <1>3
  <2>2. line[j] # <<>>
    BY <2>1 DEF Base, Handlers
  <2>3. PICK y : y = line[j][1]
    OBVIOUS
  <2>4. 1 \in DOMAIN line[j] /\ y \in Sender
    <3>1. line[j] \in Seq(Sender)
      BY DEF Base, WellFormed, TypeOK
    <3> QED BY <2>2, <2>3, <3>1
  <2>5. 1 \in DOMAIN Popped(k)[j] /\ Popped(k)[j][1] = y
    BY <1>2, <2>1, <2>3, <2>4
  <2>6. y # x
    BY <1>2, <2>5 DEF Without
  <2>7. 1 \in DOMAIN line'[j] /\ line'[j][1] = y
    BY <1>1, <2>5
  <2>8. y \in Caster => cast'[y] = cast[y]
    BY <1>1, <2>6
  <2>9. y \notin Caster => todo'[y] = todo[y]
    BY <1>1, <2>4, <2>6, Senders
  <2> QED BY <2>1, <2>3, <2>4, <2>7, <2>8, <2>9, SameFrame
<1> QED BY <1>1, <1>3, PaidStays

(* An attach begins a line, where nothing is written yet.                  *)
LEMMA AttachPaid ==
    ASSUME Base, Base', Paid, NEW c \in Client, Attach(c) PROVE Paid'
<1>1. PICK k, s : k = conns + 1 /\ s = key[c]
  OBVIOUS
<1>2. /\ k \in Conn /\ cur'[c] = k /\ \A d \in Client \ {c} : cur'[d] = cur[d] /\ cur[d] # k
      /\ \A j \in Conn \ {k} : line'[j] = line[j] /\ todo'[j] = todo[j]
      /\ ~wrote[k] /\ UNCHANGED <<wrote, cast>>
      /\ \A j \in Conn : \A i \in DOMAIN line[j] : line[j][i] # k
      /\ \A d \in Client \ {c} : owed'[d] = owed[d]
  BY <1>1, AttachDoes
<1>3. ASSUME NEW d \in Client, NEW j, j = cur'[d], j # None, wrote'[j]
      PROVE  Frame(Head(line[j]))' \notin owed'[d]
  <2>1. d # c /\ j = cur[d] /\ j # k /\ wrote[j] /\ j \in Conn
    BY <1>2, <1>3 DEF Base, WellFormed, TypeOK
  <2>2. line[j] # <<>> /\ line[j] \in Seq(Sender)
    BY <2>1 DEF Base, Handlers, WellFormed, TypeOK
  <2>3. PICK y : y = line[j][1]
    OBVIOUS
  <2>4. 1 \in DOMAIN line[j] /\ y \in Sender
    BY <2>2, <2>3
  <2>5. 1 \in DOMAIN line'[j] /\ line'[j][1] = y
    BY <1>2, <2>1, <2>3, <2>4
  <2>6. y \notin Caster => todo'[y] = todo[y]
    BY <1>2, <2>1, <2>3, <2>4, Senders
  <2>7. y \in Caster => cast'[y] = cast[y]
    BY <1>2
  <2>8. Frame(Head(line[j]))' = Frame(Head(line[j]))
    BY <2>1, <2>3, <2>4, <2>5, <2>6, <2>7, SameFrame
  <2> QED BY <1>2, <1>3, <2>1, <2>8 DEF Paid
<1> QED BY <1>3 DEF Paid

(* A broadcast owes a frame that nobody has written.                       *)
LEMMA BroadcastPaid ==
    ASSUME Base, Base', Paid, NEW b \in Caster, Broadcast(b) PROVE Paid'
<1>1. PICK n : n = seq + 1
  OBVIOUS
<1>2. /\ owed' = [c \in Client |-> owed[c] \cup {n}] /\ cast[b] = Silent
      /\ UNCHANGED <<wrote, cur, todo>>
  BY <1>1 DEF Broadcast
<1>3. Went(b, n, sessions, ws, line)
  BY <1>1, BroadcastGoes
<1>4. /\ \A d \in Caster : d # b => cast'[d] = cast[d]
      /\ \A j \in Conn : \A i \in DOMAIN line[j] : i \in DOMAIN line'[j] /\ line'[j][i] = line[j][i]
  BY <1>3 DEF Went
<1>5. Without(line, b)
  BY <1>2, SilentIsNowhere DEF Base
<1>6. ASSUME NEW c \in Client, NEW j, j = cur'[c], j # None, wrote'[j]
      PROVE  Frame(Head(line[j]))' \notin owed'[c]
  <2>1. j = cur[c] /\ wrote[j] /\ j \in Conn
    BY <1>2, <1>6 DEF Base, WellFormed, TypeOK
  <2>2. line[j] # <<>> /\ line[j] \in Seq(Sender)
    BY <2>1 DEF Base, Handlers, WellFormed, TypeOK
  <2>3. PICK y : y = Head(line[j])
    OBVIOUS
  <2>4. 1 \in DOMAIN line[j] /\ y = line[j][1]
    BY <2>2, <2>3
  <2>5. 1 \in DOMAIN line'[j] /\ line'[j][1] = y /\ y # b
    BY <1>4, <1>5, <2>1, <2>4 DEF Without
  <2>6. Frame(Head(line[j]))' = Frame(Head(line[j]))
    BY <1>2, <1>4, <2>1, <2>4, <2>5, SameFrame
  <2>7. Frame(y) # n
    <3>1. y \in Caster => Frame(y) = cast[y].seq
      BY DEF Frame
    <3>2. y \notin Caster => y \in Conn /\ Frame(y) \in todo[y]
      BY <2>1, <2>2, <2>3, FirstInLine
    <3>3. seq \in Nat /\ last \in Nat /\ last <= seq
      BY Numbers DEF Base, WellFormed, LogInv
    <3>4. \A d \in Caster : cast[d].seq \in Nat /\ cast[d].seq <= last
      BY ConnNumbers DEF Base, WellFormed, LogInv
    <3>5. \A m \in todo[y] : y \in Conn => m \in Nat /\ m <= seq
      BY Senders DEF Base, WellFormed, TypeOK, LogInv
    <3>6. CASE y \in Caster
      BY <1>1, <3>1, <3>3, <3>4, <3>6
    <3>7. CASE y \notin Caster
      BY <1>1, <3>2, <3>3, <3>5, <3>7
    <3> QED BY <3>6, <3>7
  <2>8. Frame(y) \notin owed[c]
    BY <2>1, <2>3, <1>6 DEF Paid
  <2> QED BY <1>2, <2>3, <2>6, <2>7, <2>8
<1> QED BY <1>6 DEF Paid

(* Every step keeps Paid.                                                  *)
LEMMA PaidKeeps ==
    ASSUME Base, Base', Paid, [Next]_vars PROVE Paid'
<1>0. \A c \in Client : cur[c] # None => cur[c] \in Conn
  BY DEF Base, WellFormed, TypeOK
<1>1. ASSUME UNCHANGED <<line, todo, cast, owed>>, \A j \in Conn : wrote'[j] => wrote[j],
             \A c \in Client : cur'[c] \in {cur[c], None}
      PROVE  Paid'
  <2>1. \A j \in Conn : Frame(Head(line[j]))' = Frame(Head(line[j]))
    BY <1>1 DEF Frame
  <2> QED BY <1>1, <2>1, PaidStays
<1>2. ASSUME NEW c \in Client, Cut(c) PROVE Paid'
  <2>1. UNCHANGED <<line, todo, cast, owed, wrote>> /\ cur' = [cur EXCEPT ![c] = None]
    BY <1>2 DEF Cut
  <2>2. \A d \in Client : cur'[d] \in {cur[d], None}
    BY <2>1 DEF Base, WellFormed, TypeOK
  <2> QED BY <1>1, <2>1, <2>2
<1>3. ASSUME NEW k \in Conn, Notice(k) PROVE Paid'
  <2>1. UNCHANGED <<line, todo, cast, owed, cur>> /\ wrote' = [wrote EXCEPT ![k] = FALSE]
    BY <1>3 DEF Notice, history
  <2>2. \A j \in Conn : wrote'[j] => wrote[j]
    BY <2>1 DEF Base, WellFormed, TypeOK
  <2> QED BY <1>1, <2>1, <2>2
<1>4. ASSUME NEW k \in Conn, Write(k) PROVE Paid'
  <2>1. /\ wrote' = [wrote EXCEPT ![k] = TRUE] /\ UNCHANGED <<line, todo, cast, cur>>
    BY <1>4 DEF Write
  <2>2. \A j \in Conn \ {k} : wrote'[j] = wrote[j]
    BY <2>1 DEF Base, WellFormed, TypeOK
  <2>3. \A j : Frame(Head(line[j]))' = Frame(Head(line[j]))
    BY <2>1 DEF Frame
  <2>4. /\ \A c \in Client : owed'[c] \subseteq owed[c]
        /\ \A c \in Client : cur[c] = k => Frame(Head(line[k])) \notin owed'[c]
    BY <1>4, WriteDelivers
  <2>5. ASSUME NEW c \in Client, NEW j, j = cur'[c], j # None, wrote'[j]
        PROVE  Frame(Head(line[j]))' \notin owed'[c]
    <3>1. j = cur[c] /\ j \in Conn
      BY <1>0, <2>1, <2>5
    <3>2. CASE j = k
      BY <2>3, <2>4, <3>1, <3>2
    <3>3. CASE j # k
      <4>1. Frame(Head(line[j])) \notin owed[c]
        BY <2>2, <2>5, <3>1, <3>3 DEF Paid
      <4> QED BY <2>3, <2>4, <4>1
    <3> QED BY <3>2, <3>3
  <2> QED BY <2>5 DEF Paid
<1>5. ASSUME NEW k \in Conn, ServingEnds(k) PROVE Paid'
  <2>1. pc[k] = "serving" /\ Closed(k) /\ UNCHANGED <<line, wrote, cast, owed>>
    BY <1>5 DEF ServingEnds, history
  <2>2. /\ \A j \in Conn \ {k} : todo'[j] = todo[j]
        /\ \A c \in Client : cur'[c] \in {cur[c], None}
    BY <2>1, ClosedLeaves
  <2>3. ASSUME NEW j \in Conn, wrote'[j] PROVE wrote[j] /\ Frame(Head(line[j]))' = Frame(Head(line[j]))
    <3>1. wrote[j] /\ line[j] # <<>> /\ line[j] \in Seq(Sender)
      BY <2>1, <2>3 DEF Base, Handlers, WellFormed, TypeOK
    <3>2. PICK y : y = line[j][1]
      OBVIOUS
    <3>3. 1 \in DOMAIN line[j]
      BY <3>1
    <3>4. y \notin Caster => y \in Conn /\ y # k
      BY <2>1, <3>2, <3>3, LineConns DEF Attaching
    <3> QED BY <2>1, <2>2, <3>1, <3>2, <3>3, <3>4, SameFrame
  <2> QED BY <2>1, <2>2, <2>3, PaidStays
<1>6. ASSUME NEW k \in Conn, Proceed(k) \/ SendFails(k) PROVE Paid'
  <2>1. PICK x : x = Head(line[k])
    OBVIOUS
  <2>2. Moved(k, x)
    BY <1>6, <2>1, ProceedMoves, SendFailsMoves
  <2> QED BY <2>1, <2>2, PaidIfMoved
<1>7. CASE UNCHANGED vars
  BY <1>1, <1>7 DEF vars
<1>8. ASSUME NEW k \in Conn, SocketStep(k) PROVE Paid'
  BY <1>3, <1>4, <1>5, <1>6, <1>8 DEF SocketStep
<1> QED BY <1>2, <1>7, <1>8, AttachPaid, BroadcastPaid DEF Next

-----------------------------------------------------------------------------
(* No gap.                                                                 *)

(* What a broadcast has still to send to a connection.                     *)
Coming(b, k) ==
    \/ at[k] \in cast[b].left
    \/ \E i \in DOMAIN line[k] : line[k][i] = b /\ ~(wrote[k] /\ i = 1)

(* A frame is on its way with the broadcast that carries it.               *)
LEMMA OnItsWayMeans ==
    \A n, k : OnItsWay(n, k) <=> \E b \in Caster : cast[b].seq = n /\ Coming(b, k)
BY DEF OnItsWay, Coming

(* So it is after the step.                                                *)
LEMMA OnItsWayThen ==
    \A n, k : OnItsWay(n, k)' <=> \E b \in Caster : cast'[b].seq = n /\ Coming(b, k)'
BY DEF OnItsWay, Coming

(* What a connection of a client was to get, it still is to get.           *)
LEMMA NoGapStays ==
    ASSUME NoGapWhileAttached,
           \A c \in Client : cur'[c] \in {cur[c], None},
           \A c \in Client : cur'[c] # None => since'[c] = since[c] /\ owed'[c] \subseteq owed[c],
           \A c \in Client, k \in Conn :
              k = cur[c] /\ k = cur'[c] /\ pc'[k] # "none" /\ ws'[at'[k]] = k =>
                 /\ pc[k] # "none" /\ ws[at[k]] = k
                 /\ \A n \in owed'[c] :
                       n > since[c] /\ (n \in todo[k] \/ OnItsWay(n, k)) =>
                       n \in todo'[k] \/ OnItsWay(n, k)',
           \A c \in Client : cur[c] # None => cur[c] \in Conn
    PROVE  NoGapWhileAttached'
<1> SUFFICES ASSUME NEW c \in Client, NEW k, k = cur'[c], k # None, pc'[k] # "none", ws'[at'[k]] = k,
                    NEW n \in owed'[c], n > since'[c]
             PROVE  n \in todo'[k] \/ OnItsWay(n, k)'
  BY DEF NoGapWhileAttached
<1>1. k = cur[c] /\ k \in Conn /\ since'[c] = since[c] /\ n \in owed[c]
  OBVIOUS
<1>2. pc[k] # "none" /\ ws[at[k]] = k
  BY <1>1
<1>3. n \in todo[k] \/ OnItsWay(n, k)
  BY <1>1, <1>2 DEF NoGapWhileAttached
<1> QED BY <1>1, <1>3

(* A broadcast that was behind the first in line, or elsewhere, still is.  *)
LEMMA OthersComing ==
    ASSUME Base, NEW k \in Conn, NEW x, x = Head(line[k]), Moved(k, x),
           NEW b \in Caster, b # x, NEW j \in Conn, at'[j] = at[j], Coming(b, j)
    PROVE  Coming(b, j)' /\ cast'[b] = cast[b]
<1>1. /\ line[k] # <<>> /\ ~wrote'[k] /\ \A i \in Conn \ {k} : wrote'[i] = wrote[i]
      /\ \A m \in Conn : \A i \in DOMAIN Popped(k)[m] :
            i \in DOMAIN line'[m] /\ line'[m][i] = Popped(k)[m][i]
      /\ cast'[b] = cast[b]
  BY DEF Moved
<1>2. CASE at[j] \in cast[b].left
  BY <1>1, <1>2 DEF Coming
<1>3. ASSUME NEW i \in DOMAIN line[j], line[j][i] = b, ~(wrote[j] /\ i = 1)
      PROVE  Coming(b, j)'
  <2>1. CASE j # k
    <3>1. i \in DOMAIN Popped(k)[j] /\ Popped(k)[j][i] = b
      BY <1>1, <1>3, <2>1, StillInLine
    <3>2. i \in DOMAIN line'[j] /\ line'[j][i] = b /\ wrote'[j] = wrote[j]
      BY <1>1, <2>1, <3>1
    <3> QED BY <1>3, <3>2 DEF Coming
  <2>2. CASE j = k
    <3>1. /\ line \in [Conn -> Seq(Sender)] /\ Once(line)
      BY LinesAreOnce DEF Base, WellFormed, TypeOK
    <3>2. i # 1
      <4>1. line[k][1] = x
        BY <1>1, FirstInLine
      <4> QED BY <1>3, <2>2, <4>1
    <3>3. i - 1 \in DOMAIN Popped(k)[k] /\ Popped(k)[k][i - 1] = b
      BY <1>1, <1>3, <2>2, <3>1, <3>2, Leaves
    <3>4. i - 1 \in DOMAIN line'[k] /\ line'[k][i - 1] = b
      BY <1>1, <3>3
    <3> QED BY <1>1, <2>2, <3>4 DEF Coming
  <2> QED BY <2>1, <2>2
<1> QED BY <1>1, <1>2, <1>3 DEF Coming

(* A broadcast that goes on does not leave out a session with a socket.    *)
LEMMA CasterComing ==
    ASSUME Base, NEW k \in Conn, NEW x \in Caster, x = Head(line[k]), Moved(k, x),
           NEW j \in Conn, at'[j] = at[j], ws'[at[j]] = j, wrote[k] \/ j # k, Coming(x, j)
    PROVE  Coming(x, j)' /\ cast'[x].seq = cast[x].seq
<1>1. /\ line[k] # <<>> /\ ~wrote'[k] /\ \A i \in Conn \ {k} : wrote'[i] = wrote[i]
  BY DEF Moved
<1>2. PICK w, l : w = ws' /\ l = Popped(k) /\ Went(x, cast[x].seq, cast[x].left, w, l)
  BY DEF Moved
<1>3. at[j] \in cast[x].left
  <2>1. ASSUME NEW i \in DOMAIN line[j], line[j][i] = x, ~(wrote[j] /\ i = 1) PROVE FALSE
    <3>1. line[k][1] = x /\ 1 \in DOMAIN line[k]
      BY <1>1, FirstInLine
    <3>2. j = k /\ i = 1
      BY <2>1, <3>1 DEF Base, InOneLine
    <3> QED BY <2>1, <3>2
  <2> QED BY <2>1 DEF Coming
<1>4. /\ cast'[x].seq = cast[x].seq
      /\ \/ at[j] \in cast'[x].left
         \/ \E i \in DOMAIN line'[j] : line'[j][i] = x /\ (i = 1 => l[j] = <<>>)
  <2>1. \A t \in cast[x].left : w[t] # None =>
           /\ cast'[x].seq = cast[x].seq
           /\ \/ t \in cast'[x].left
              \/ \E i \in DOMAIN line'[w[t]] : line'[w[t]][i] = x /\ (i = 1 => l[w[t]] = <<>>)
    BY <1>2 DEF Went
  <2>2. w[at[j]] = j /\ j # None
    BY <1>2, Senders
  <2> QED BY <1>3, <2>1, <2>2
<1>5. ASSUME NEW i \in DOMAIN line'[j], line'[j][i] = x, i = 1 => l[j] = <<>>
      PROVE  ~(wrote'[j] /\ i = 1)
  <2>1. CASE j = k
    BY <1>1, <2>1
  <2>2. CASE j # k
    <3>1. l[j] = line[j]
      BY <1>1, <1>2, <2>2, StillInLine
    <3>2. wrote[j] => line[j] # <<>>
      BY DEF Base, Handlers
    <3> QED BY <1>1, <1>5, <2>2, <3>1, <3>2
  <2> QED BY <2>1, <2>2
<1> QED BY <1>4, <1>5 DEF Coming

(* A sender that moved takes nothing from a client that is attached.       *)
LEMMA NoGapIfMoved ==
    ASSUME Base, OwnSocket, Paid, NoGapWhileAttached, NEW k \in Conn, NEW x, x = Head(line[k]), Moved(k, x)
    PROVE  NoGapWhileAttached'
<1>1. /\ line[k] # <<>> /\ (wrote[k] \/ link[k] = "closed")
      /\ UNCHANGED <<owed, since>>
      /\ \A y \in Conn : y # x => todo'[y] = todo[y]
      /\ \A c \in Client : cur'[c] \in {cur[c], None}
      /\ \A y \in Conn : pc'[y] # "none" => pc[y] # "none" /\ at'[y] = at[y]
      /\ \A s \in Conn : ws'[s] \in {ws[s], None}
      /\ x \in Caster => UNCHANGED todo
      /\ x \notin Caster =>
            /\ x \in Conn
            /\ pc'[x] # "none" => wrote[k] /\ todo[x] \subseteq todo'[x] \cup {Frame(x)}
  BY DEF Moved
<1>2. ASSUME NEW c \in Client, NEW j \in Conn, j = cur[c], j = cur'[c], pc'[j] # "none", ws'[at'[j]] = j
      PROVE  /\ pc[j] # "none" /\ ws[at[j]] = j
             /\ \A n \in owed'[c] :
                   n > since[c] /\ (n \in todo[j] \/ OnItsWay(n, j)) =>
                   n \in todo'[j] \/ OnItsWay(n, j)'
  <2>1. pc[j] # "none" /\ at'[j] = at[j] /\ at[j] \in Conn /\ j # None
    <3>1. pc[j] # "none" /\ at'[j] = at[j]
      BY <1>1, <1>2
    <3>2. at[j] \in Conn
      BY <3>1 DEF Base, WellFormed, TypeOK, Handlers
    <3> QED BY <3>1, <3>2, Senders
  <2>2. ws[at[j]] = j
    BY <1>1, <1>2, <2>1
  <2>3. link[j] = "open"
    BY <1>2 DEF Base, Handlers
  <2>4. ASSUME NEW n \in owed[c], n \in todo[j] PROVE n \in todo'[j]
    <3>1. CASE j # x
      BY <1>1, <2>4, <3>1
    <3>2. CASE j = x /\ x \in Caster
      BY <3>2, Senders
    <3>3. CASE j = x /\ x \notin Caster
      <4>1. x = line[k][1] /\ 1 \in DOMAIN line[k]
        BY <1>1, FirstInLine
      <4>2. x = k
        BY <2>2, <3>3, <4>1 DEF OwnSocket
      <4>3. wrote[k] /\ todo[x] \subseteq todo'[x] \cup {Frame(x)}
        BY <1>1, <1>2, <3>3
      <4>4. Frame(x) \notin owed[c]
        BY <1>2, <2>1, <3>3, <4>2, <4>3 DEF Paid
      <4> QED BY <2>4, <3>3, <4>3, <4>4
    <3> QED BY <3>1, <3>2, <3>3
  <2>5. ASSUME NEW n, NEW b \in Caster, cast[b].seq = n, Coming(b, j) PROVE OnItsWay(n, j)'
    <3>1. CASE b # x
      BY <2>1, <2>5, <3>1, OthersComing, OnItsWayThen
    <3>2. CASE b = x
      <4>1. wrote[k] \/ j # k
        BY <1>1, <2>3
      <4>2. ws'[at[j]] = j
        BY <1>2, <2>1
      <4>3. Coming(x, j)' /\ cast'[x].seq = cast[x].seq
        BY <2>1, <2>5, <3>2, <4>1, <4>2, CasterComing
      <4> QED BY <2>5, <3>2, <4>3, OnItsWayThen
    <3> QED BY <3>1, <3>2
  <2>6. ASSUME NEW n, OnItsWay(n, j) PROVE OnItsWay(n, j)'
    BY <2>5, <2>6, OnItsWayMeans
  <2> QED BY <1>1, <2>1, <2>2, <2>4, <2>6
<1>3. \A c \in Client : cur[c] # None => cur[c] \in Conn
  BY DEF Base, WellFormed, TypeOK
<1> QED BY <1>1, <1>2, <1>3, NoGapStays

(* A client that resumes is replayed what it missed, or is refused.        *)
LEMMA AttachNoGap ==
    ASSUME Base, LogReachesHorizon', NoGapWhileAttached, NEW c \in Client, Attach(c)
    PROVE  NoGapWhileAttached'
<1>0. TypeOK /\ LogInv
  BY DEF Base, WellFormed
<1>1. PICK k, s : k = conns + 1 /\ s = key[c]
  OBVIOUS
<1>2. /\ k \in Conn /\ cur'[c] = k /\ \A d \in Client \ {c} : cur'[d] = cur[d] /\ cur[d] # k
      /\ \A j \in Conn \ {k} : /\ line'[j] = line[j] /\ todo'[j] = todo[j]
                               /\ pc'[j] = pc[j] /\ at'[j] = at[j]
      /\ \A j \in Conn : ws'[j] \in {ws[j], k}
      /\ UNCHANGED <<wrote, cast, last>>
      /\ \A d \in Client \ {c} : owed'[d] = owed[d] /\ since'[d] = since[d]
  BY <1>1, AttachDoes
<1>3. ASSUME NEW n \in owed'[c], n > since'[c] PROVE n \in todo'[k]
  <2>1. CASE owed'[c] = {}
    BY <1>3, <2>1
  <2>2. CASE /\ ~Refused(seen[c]) /\ todo'[k] = {Ack} \cup ReplayTail(seen[c])
             /\ owed' = owed /\ since'[c] = seen[c]
    <3>1. /\ n \in owed[c] /\ n \in Nat /\ n <= last /\ n > seen[c]
          /\ seen[c] \in Nat /\ last \in Nat
      <4>1. n \in owed[c] /\ n > seen[c]
        BY <1>3, <2>2
      <4>2. seen[c] \in Seqs
        BY <1>0 DEF TypeOK
      <4>3. last \in Nat /\ owed[c] \subseteq 1..last
        BY <1>0, Senders DEF TypeOK, LogInv
      <4>4. n \in 1..last
        BY ONLY <4>1, <4>3
      <4>5. seen[c] \in Nat
        BY <4>2, Senders
      <4> QED BY ONLY <4>1, <4>3, <4>4, <4>5
    <3>2. PICK p \in Nat : p = pruned'
      <4>1. pruned' \in 0..last
        BY <1>0, AttachPrunes
      <4> QED BY <3>1, <4>1
    <3>3. ~(seen[c] < last /\ seen[c] < p)
      BY <2>2, <3>2 DEF Refused
    <3>4. n > p
      BY <3>1, <3>2, <3>3
    <3>5. n \in log'
      BY <1>3, <3>2, <3>4 DEF LogReachesHorizon
    <3> QED BY <2>2, <3>1, <3>5 DEF ReplayTail
  <2> QED BY <1>1, <2>1, <2>2, AttachDoes
<1>4. ASSUME NEW d \in Client, NEW j, j = cur'[d], j # None, pc'[j] # "none", ws'[at'[j]] = j,
             NEW n \in owed'[d], n > since'[d]
      PROVE  n \in todo'[j] \/ OnItsWay(n, j)'
  <2>1. CASE d = c
    BY <1>2, <1>3, <1>4, <2>1
  <2>2. CASE d # c
    <3>1. j = cur[d] /\ j \in Conn /\ j # k
      BY <1>0, <1>2, <1>4, <2>2 DEF TypeOK
    <3>2. pc[j] # "none" /\ at'[j] = at[j] /\ at[j] \in Conn
      BY <1>2, <1>4, <3>1 DEF Base, WellFormed, Handlers, TypeOK
    <3>3. ws[at[j]] = j
      BY <1>2, <1>4, <3>1, <3>2
    <3>4. n \in owed[d] /\ n > since[d]
      BY <1>2, <1>4, <2>2
    <3>5. n \in todo[j] \/ OnItsWay(n, j)
      BY <1>4, <3>1, <3>2, <3>3, <3>4 DEF NoGapWhileAttached
    <3>6. OnItsWay(n, j) => OnItsWay(n, j)'
      BY <1>2, <3>1, <3>2 DEF OnItsWay
    <3> QED BY <1>2, <3>1, <3>5, <3>6
  <2> QED BY <2>1, <2>2
<1> QED BY <1>4 DEF NoGapWhileAttached

(* A broadcast is on its way to every session that has a socket.           *)
LEMMA BroadcastNoGap ==
    ASSUME Base, ClientInv, NoGapWhileAttached, NEW b \in Caster, Broadcast(b)
    PROVE  NoGapWhileAttached'
<1>0. TypeOK /\ LogInv
  BY DEF Base, WellFormed
<1>1. PICK n : n = seq + 1
  OBVIOUS
<1>2. /\ owed' = [c \in Client |-> owed[c] \cup {n}] /\ cast[b] = Silent
      /\ UNCHANGED <<wrote, cur, todo, at, pc, ws, since>>
  BY <1>1 DEF Broadcast
<1>3. Went(b, n, sessions, ws, line)
  BY <1>1, BroadcastGoes
<1>4. /\ \A d \in Caster : d # b => cast'[d] = cast[d]
      /\ \A j \in Conn : \A i \in DOMAIN line[j] : i \in DOMAIN line'[j] /\ line'[j][i] = line[j][i]
      /\ \A t \in sessions : ws[t] # None =>
            /\ cast'[b].seq = n
            /\ \/ t \in cast'[b].left
               \/ \E i \in DOMAIN line'[ws[t]] : line'[ws[t]][i] = b /\ (i = 1 => line[ws[t]] = <<>>)
  BY <1>3 DEF Went
<1>5. ASSUME NEW c \in Client, NEW k, k = cur'[c], k # None, pc'[k] # "none", ws'[at'[k]] = k,
             NEW m \in owed'[c], m > since'[c]
      PROVE  m \in todo'[k] \/ OnItsWay(m, k)'
  <2>1. k = cur[c] /\ k \in Conn /\ pc[k] # "none" /\ ws[at[k]] = k
    BY <1>0, <1>2, <1>5 DEF TypeOK
  <2>2. CASE m \in owed[c]
    <3>1. m \in todo[k] \/ OnItsWay(m, k)
      BY <1>2, <1>5, <2>1, <2>2 DEF NoGapWhileAttached
    <3>2. ASSUME NEW d \in Caster, cast[d].seq = m, Coming(d, k) PROVE OnItsWay(m, k)'
      <4>1. m # 0
        BY <1>0, <2>2, Numbers DEF LogInv
      <4>2. d # b
        BY <1>2, <3>2, <4>1 DEF Silent
      <4>3. Coming(d, k)'
        BY <1>2, <1>4, <2>1, <3>2, <4>2 DEF Coming
      <4> QED BY <1>4, <3>2, <4>2, <4>3, OnItsWayThen
    <3> QED BY <1>2, <3>1, <3>2, OnItsWayMeans
  <2>3. CASE m = n
    <3>1. at[k] \in sessions /\ k # None
      BY <1>5, <2>1 DEF ClientInv
    <3>2. /\ cast'[b].seq = n
          /\ \/ at[k] \in cast'[b].left
             \/ \E i \in DOMAIN line'[k] : line'[k][i] = b /\ (i = 1 => line[k] = <<>>)
      BY <1>4, <2>1, <3>1
    <3>3. wrote[k] => line[k] # <<>>
      BY <2>1 DEF Base, Handlers
    <3>4. Coming(b, k)'
      BY <1>2, <3>2, <3>3 DEF Coming
    <3> QED BY <2>3, <3>2, <3>4, OnItsWayThen
  <2> QED BY <1>2, <1>5, <2>2, <2>3
<1> QED BY <1>5 DEF NoGapWhileAttached

(* A write pays what it takes off the way.                                 *)
LEMMA WriteNoGap ==
    ASSUME Base, NoGapWhileAttached, NEW k \in Conn, Write(k) PROVE NoGapWhileAttached'
<1>1. /\ line[k] # <<>> /\ ~wrote[k] /\ wrote' = [wrote EXCEPT ![k] = TRUE]
      /\ UNCHANGED <<line, todo, cast, cur, at, pc, ws, since>>
  BY DEF Write, Unwritten
<1>2. \A j \in Conn \ {k} : wrote'[j] = wrote[j]
  BY <1>1 DEF Base, WellFormed, TypeOK
<1>3. /\ \A c \in Client : owed'[c] \subseteq owed[c]
      /\ \A c \in Client : cur[c] = k => Frame(Head(line[k])) \notin owed'[c]
  BY WriteDelivers
<1>4. ASSUME NEW c \in Client, NEW j \in Conn, j = cur[c], NEW n \in owed'[c], OnItsWay(n, j)
      PROVE  OnItsWay(n, j)'
  <2>1. PICK b \in Caster : cast[b].seq = n /\ Coming(b, j)
    BY <1>4, OnItsWayMeans
  <2>2. CASE at[j] \in cast[b].left
    BY <1>1, <2>1, <2>2 DEF OnItsWay
  <2>3. ASSUME NEW i \in DOMAIN line[j], line[j][i] = b, ~(wrote[j] /\ i = 1) PROVE OnItsWay(n, j)'
    <3>1. CASE j # k
      BY <1>1, <1>2, <2>1, <2>3, <3>1 DEF OnItsWay
    <3>2. CASE j = k
      <4>1. i # 1
        <5>1. ASSUME i = 1 PROVE FALSE
          <6>1. Head(line[k]) = b
            BY <1>1, <2>3, <3>2, <5>1, FirstInLine
          <6>2. Frame(Head(line[k])) = n
            BY <2>1, <6>1 DEF Frame
          <6> QED BY <1>3, <1>4, <3>2, <6>2
        <5> QED BY <5>1
      <4> QED BY <1>1, <2>1, <2>3, <4>1 DEF OnItsWay
    <3> QED BY <3>1, <3>2
  <2> QED BY <2>1, <2>2, <2>3 DEF Coming
<1>5. \A c \in Client : cur[c] # None => cur[c] \in Conn
  BY DEF Base, WellFormed, TypeOK
<1> QED BY <1>1, <1>3, <1>4, <1>5, NoGapStays

(* Every step keeps NoGapWhileAttached.                                    *)
LEMMA NoGapKeeps ==
    ASSUME Base, LogReachesHorizon', ClientInv, OwnSocket, Paid, NoGapWhileAttached, [Next]_vars
    PROVE  NoGapWhileAttached'
<1>0. \A c \in Client : cur[c] # None => cur[c] \in Conn
  BY DEF Base, WellFormed, TypeOK
<1>1. ASSUME UNCHANGED <<line, todo, cast, at, owed>>, \A j \in Conn : wrote'[j] => wrote[j],
             \A c \in Client : cur'[c] \in {cur[c], None},
             \A c \in Client : cur'[c] # None => since'[c] = since[c],
             \A j \in Conn : pc'[j] \in {pc[j], "none"},
             \A s \in Conn : ws'[s] \in {ws[s], None}
      PROVE  NoGapWhileAttached'
  <2>1. \A n : \A j \in Conn : OnItsWay(n, j) => OnItsWay(n, j)'
    BY <1>1 DEF OnItsWay
  <2>2. ASSUME NEW c \in Client, NEW k \in Conn, k = cur[c], k = cur'[c], pc'[k] # "none", ws'[at'[k]] = k
        PROVE  pc[k] # "none" /\ ws[at[k]] = k
    <3>1. pc[k] # "none" /\ at'[k] = at[k] /\ k # None
      BY <1>1, <2>2, Senders
    <3>2. at[k] \in Conn
      BY <3>1 DEF Base, WellFormed, TypeOK, Handlers
    <3> QED BY <1>1, <2>2, <3>1, <3>2
  <2> QED BY <1>0, <1>1, <2>1, <2>2, NoGapStays
<1>2. ASSUME NEW c \in Client, Cut(c) PROVE NoGapWhileAttached'
  <2>1. /\ UNCHANGED <<line, todo, cast, at, owed, wrote, pc, ws>> /\ cur' = [cur EXCEPT ![c] = None]
        /\ since' = [since EXCEPT ![c] = 0]
    BY <1>2 DEF Cut
  <2>2. \A d \in Client : cur'[d] \in {cur[d], None} /\ (cur'[d] # None => since'[d] = since[d])
    BY <2>1 DEF Base, WellFormed, TypeOK
  <2> QED BY <1>1, <2>1, <2>2
<1>3. ASSUME NEW k \in Conn, Notice(k) PROVE NoGapWhileAttached'
  <2>1. /\ UNCHANGED <<line, todo, cast, at, owed, pc, ws, cur, since>>
        /\ wrote' = [wrote EXCEPT ![k] = FALSE]
    BY <1>3 DEF Notice, history
  <2>2. \A j \in Conn : wrote'[j] => wrote[j]
    BY <2>1 DEF Base, WellFormed, TypeOK
  <2> QED BY <1>1, <2>1, <2>2
<1>4. ASSUME NEW k \in Conn, ServingEnds(k) PROVE NoGapWhileAttached'
  <2>1. /\ Closed(k) /\ ws' = Detached(at[k]) /\ UNCHANGED <<line, cast, owed, wrote, since>>
    BY <1>4 DEF ServingEnds, history
  <2>2. /\ \A s \in Conn : ws'[s] \in {ws[s], None}
        /\ \A c \in Client : cur'[c] # k /\ cur'[c] \in {cur[c], None}
        /\ \A j \in Conn \ {k} : UNCHANGED <<pc[j], at[j], todo[j]>>
    BY <2>1, ClosedLeaves, DetachedLoses
  <2>3. ASSUME NEW c \in Client, NEW j \in Conn, j = cur[c], j = cur'[c], pc'[j] # "none", ws'[at'[j]] = j
        PROVE  /\ pc[j] # "none" /\ ws[at[j]] = j
               /\ \A n \in owed'[c] :
                     n > since[c] /\ (n \in todo[j] \/ OnItsWay(n, j)) =>
                     n \in todo'[j] \/ OnItsWay(n, j)'
    <3>1. j # k /\ pc[j] # "none" /\ at'[j] = at[j] /\ todo'[j] = todo[j] /\ j # None
      BY <2>2, <2>3, Senders
    <3>2. at[j] \in Conn
      BY <3>1 DEF Base, WellFormed, TypeOK, Handlers
    <3>3. ws[at[j]] = j
      BY <2>2, <2>3, <3>1, <3>2
    <3>4. \A n : OnItsWay(n, j) => OnItsWay(n, j)'
      BY <2>1, <3>1 DEF OnItsWay
    <3> QED BY <3>1, <3>3, <3>4
  <2> QED BY <1>0, <2>1, <2>2, <2>3, NoGapStays
<1>5. ASSUME NEW k \in Conn, Proceed(k) \/ SendFails(k) PROVE NoGapWhileAttached'
  <2>1. PICK x : x = Head(line[k])
    OBVIOUS
  <2>2. Moved(k, x)
    BY <1>5, <2>1, ProceedMoves, SendFailsMoves
  <2> QED BY <2>1, <2>2, NoGapIfMoved
<1>6. CASE UNCHANGED vars
  BY <1>1, <1>6 DEF vars
<1>7. ASSUME NEW k \in Conn, SocketStep(k) PROVE NoGapWhileAttached'
  BY <1>3, <1>4, <1>5, <1>7, WriteNoGap DEF SocketStep
<1> QED BY <1>2, <1>6, <1>7, AttachNoGap, BroadcastNoGap DEF Next

-----------------------------------------------------------------------------

(* The inductive invariant holds at first.                                 *)
LEMMA SessionsAtFirst == ASSUME Init PROVE SessionInv
<1>1. Base
  BY BaseAtFirst
<1>2. LogReachesHorizon
  <2>1. Cardinality({1}) = 1
    BY FS_Singleton
  <2> QED BY <2>1, SessionAssumption DEF Init, LogReachesHorizon
<1>3. ClientInv
  BY Senders DEF Init, ClientInv, Claims
<1>4. OvertakenInv
  BY DEF Init, OvertakenInv
<1>5. OwnSocket /\ Paid /\ NoGapWhileAttached
  BY DEF Init, OwnSocket, Paid, NoGapWhileAttached
<1> QED BY <1>1, <1>2, <1>3, <1>4, <1>5 DEF SessionInv, Base

(* Every step keeps it.                                                    *)
LEMMA SessionsKeep == ASSUME SessionInv, [Next]_vars PROVE SessionInv'
<1>1. /\ Base /\ LogReachesHorizon /\ ClientInv /\ OvertakenInv /\ OwnSocket /\ Paid
      /\ NoGapWhileAttached
  BY DEF SessionInv, Base
<1>2. Base' /\ LogReachesHorizon'
  BY <1>1, BaseKeeps, HorizonKeeps
<1>3. ClientInv' /\ OvertakenInv' /\ OwnSocket'
  BY <1>1, ClientsKeep, OvertakenKeeps, OwnSocketKeeps
<1>4. Paid' /\ NoGapWhileAttached'
  BY <1>1, <1>2, PaidKeeps, NoGapKeeps
<1> QED BY <1>2, <1>3, <1>4 DEF SessionInv, Base

(* What the handlers, the broadcasts, the log and the clients of the       *)
(* sessions keep between them (session.py), whatever the order of steps.   *)
THEOREM SessionInvariantHolds == Spec => []SessionInv
<1>1. Init => SessionInv
  BY SessionsAtFirst
<1>2. SessionInv /\ [Next]_vars => SessionInv'
  BY SessionsKeep
<1> QED BY <1>1, <1>2, PTL DEF Spec

(* The types, and the numbering of sessions and sockets by connections: no *)
(* handler, replay or broadcast leads out of them (session.py:82-130).     *)
THEOREM WellFormedHolds == Spec => []WellFormed
<1>1. SessionInv => WellFormed
  BY DEF SessionInv
<1> QED BY <1>1, SessionInvariantHolds, PTL

(* A replay never skips (session.py:40-58): whatever is pruned is below    *)
(* the horizon that makes tail() refuse the client who misses it, and the  *)
(* log keeps its size.                                                     *)
THEOREM LogReachesHorizonHolds == Spec => []LogReachesHorizon
<1>1. SessionInv => LogReachesHorizon
  BY DEF SessionInv
<1> QED BY <1>1, SessionInvariantHolds, PTL

(* A client that is served loses its session's socket only to another      *)
(* connection that came back with the same key before its handler was done *)
(* (session.py:106-127, 148-161).                                          *)
THEOREM DetachedOnlyIfOvertakenHolds == Spec => []DetachedOnlyIfOvertaken
<1>1. SessionInv => DetachedOnlyIfOvertaken
  BY DEF SessionInv, OvertakenInv, DetachedOnlyIfOvertaken
<1> QED BY <1>1, SessionInvariantHolds, PTL

(* While a client is attached, no durable frame of a broadcast since its   *)
(* attach, or of the replay it asked for, passes it by (session.py:49-58,  *)
(* 106-119, 139-161): it is still to be sent, in its replay or by its      *)
(* broadcast.                                                              *)
THEOREM NoGapWhileAttachedHolds == Spec => []NoGapWhileAttached
<1>1. SessionInv => NoGapWhileAttached
  BY DEF SessionInv
<1> QED BY <1>1, SessionInvariantHolds, PTL
=============================================================================
