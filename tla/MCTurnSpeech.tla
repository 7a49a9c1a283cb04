---------------------------- MODULE MCTurnSpeech ----------------------------
(* An instance of TurnSpeech for TLC: two speeches, the first of any short *)
(* text over one character of each kind, the second of a single sentence;  *)
(* and probe responses of up to three chunks, whole or cut.  No text of    *)
(* three begins with a closer: where no sentence is done, it is a letter   *)
(* that cannot be spoken.                                                  *)
EXTENDS TurnSpeech

Letters == {"a"}

ShortTexts ==
    {s \in SeqOf({"a", "stop", "closer"}, 3) : Len(s) = 3 => s[1] # "closer"}
        \cup {<<"blank", "stop">>, <<"a", "blank", "a">>, <<"a", "stop", "blank">>}
OneWord    == {<<"a">>}
TwoReplies == [t \in 1..2 |-> IF t = 1 THEN ShortTexts ELSE OneWord]

ChunkKinds ==
    {[id |-> "fmt", size |-> n, rate |-> 2] : n \in {14, 16, 17}}
        \cup {[id |-> "fmt", size |-> 16, rate |-> NoRate]}
        \cup {[id |-> "data", size |-> 4, rate |-> NoRate]}
        \cup {[id |-> "other", size |-> n, rate |-> NoRate] : n \in {1, 2}}

ProbeResponses ==
    LET whole(chunks) == Offset([chunks |-> chunks], Len(chunks) + 1)
        of(chunks, cut) == [riff |-> TRUE, wave |-> TRUE, chunks |-> chunks,
                            length |-> whole(chunks) - cut] IN
    UNION {{of(chunks, cut) : cut \in {0, 5, 12}} : chunks \in SeqOf(ChunkKinds, 3)}
        \cup {[riff |-> r, wave |-> w, chunks |-> <<>>, length |-> n] :
                r \in BOOLEAN, w \in BOOLEAN, n \in {0, 11, 12}}
=============================================================================
