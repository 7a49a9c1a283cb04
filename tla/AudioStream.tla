----------------------------- MODULE AudioStream -----------------------------
(***************************************************************************)
(* What a client may rely on in a binary audio stream: it is announced     *)
(* once, then come frames, numbered from 0 without a gap, each a whole     *)
(* number of 16-bit samples and no larger than the limit, and if it is     *)
(* closed, it is closed once, was not empty, and nothing follows.          *)
(***************************************************************************)
EXTENDS Naturals, Sequences

CONSTANTS
    Stream,     \* the ids of the streams
    FrameBytes  \* the largest payload

VARIABLE sent   \* sent[i]: what went out on stream i, in order

Meta(last)     == [kind |-> "meta", last |-> last]
Frame(n, size) == [kind |-> "frame", seq |-> n, size |-> size]

Init == sent = [i \in Stream |-> <<>>]

Closed(i) == sent[i][Len(sent[i])] = Meta(TRUE)

Put(i, m) == sent' = [sent EXCEPT ![i] = Append(@, m)]

Open(i) ==
    /\ sent[i] = <<>>
    /\ Put(i, Meta(FALSE))

Play(i) ==
    /\ sent[i] # <<>>
    /\ ~Closed(i)
    /\ \E size \in {n \in 1..FrameBytes : n % 2 = 0} : Put(i, Frame(Len(sent[i]) - 1, size))

Close(i) ==
    /\ Len(sent[i]) > 1
    /\ ~Closed(i)
    /\ Put(i, Meta(TRUE))

Next == \E i \in Stream : Open(i) \/ Play(i) \/ Close(i)

Spec == Init /\ [][Next]_sent
=============================================================================
