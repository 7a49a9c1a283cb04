------------------------------ MODULE WavHeader ------------------------------
(***************************************************************************)
(* _WavHeaderParser (tts/client.py): where the samples of a RIFF/WAVE      *)
(* response begin, and at which rate they are to be played.  A response is *)
(* its two magics, its chunks and the number of its bytes that arrived.    *)
(* Of a chunk the parser reads the id, the declared size and, in a format  *)
(* chunk, the rate, which is NoRate here unless that chunk announces       *)
(* 16-bit PCM on one channel.                                              *)
(***************************************************************************)
EXTENDS Naturals, Sequences, FiniteSetsExt

NoRate == 0

Response ==
    [riff : BOOLEAN, wave : BOOLEAN, length : Nat,
     chunks : Seq([id : {"fmt", "data", "other"}, size : Nat, rate : Nat])]

Incomplete == [verdict |-> "incomplete", rate |-> NoRate]
Invalid    == [verdict |-> "invalid", rate |-> NoRate]
Pcm(rate)  == [verdict |-> "pcm", rate |-> rate]

(* A chunk takes up its header and its payload, padded to an even length.  *)
Extent(size) == 8 + size + (size % 2)

(* Where the chunks of a response begin, and where the last one ends.      *)
Offsets(r) ==
    LET begin[i \in 1..(Len(r.chunks) + 1)] ==
            IF i = 1 THEN 12 ELSE begin[i - 1] + Extent(r.chunks[i - 1].size)
    IN  begin

Offset(r, i) == Offsets(r)[i]

(* A slip: the pad byte is taken for the next header.                      *)
NextUnpadded(o, size) == o + 8 + size

(* padded_end                                                              *)
NextOffset(o, size) == o + 8 + size + (size % 2)

(* The loop of _find_pcm_start, from any offset and with any rate on.      *)
Scan(r) ==
    LET at(o) == {i \in DOMAIN r.chunks : Offset(r, i) = o}
        scan[o \in 0..r.length] == [rate \in Nat |->
            IF o + 8 > r.length \/ at(o) = {} THEN Incomplete
            ELSE LET c    == r.chunks[CHOOSE i \in at(o) : TRUE]
                     next == NextOffset(o, c.size) IN
                 CASE c.id = "data" /\ rate # NoRate -> Pcm(rate)
                   [] c.id = "data" /\ rate = NoRate -> Invalid
                   [] c.id = "fmt" /\ c.size < 16    -> Invalid
                   [] OTHER ->
                        IF next > r.length THEN Incomplete
                        ELSE IF c.id # "fmt" THEN scan[next][rate]
                        ELSE IF c.rate = NoRate THEN Invalid
                        ELSE scan[next][c.rate]]
    IN  scan

(* _find_pcm_start on what has arrived; `incomplete` is its None.          *)
FindPcmStart(r) ==
    IF r.length >= 4 /\ ~r.riff THEN Invalid
    ELSE IF r.length < 12 THEN Incomplete
    ELSE IF ~r.wave THEN Invalid
    ELSE Scan(r)[12][NoRate]

-----------------------------------------------------------------------------
(* What the response says, read as a whole: the format of its data chunk   *)
(* is the last one announced before it, and none of those is other than    *)
(* PCM16 mono.                                                             *)
Announced(r) ==
    LET ids(id) == {i \in DOMAIN r.chunks : r.chunks[i].id = id}
        data    == Min(ids("data"))
        formats == {i \in ids("fmt") : i < data} IN
    IF /\ r.riff /\ r.wave
       /\ ids("data") # {} /\ Offset(r, data) + 8 <= r.length
       /\ formats # {}
       /\ \A i \in formats : r.chunks[i].size >= 16 /\ r.chunks[i].rate # NoRate
    THEN r.chunks[Max(formats)].rate
    ELSE NoRate
=============================================================================
