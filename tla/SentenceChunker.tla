--------------------------- MODULE SentenceChunker ---------------------------
(***************************************************************************)
(* SentenceChunker (voice/chunker.py), as operators on its two fields.     *)
(* A text is a sequence of characters, and a character is a letter or one  *)
(* of the classes which the code tells apart.                              *)
(***************************************************************************)
EXTENDS Naturals, SequencesExt

CONSTANTS
    Letter,         \* the characters that can be spoken
    MaxSentence     \* MAX_SENTENCE_CHARS

Terminators == {"stop", "newline"}
Glue        == {"closer"} \cup Terminators
ContentFree == Glue \cup {"opener", "blank"}
Stripped    == {"blank", "newline"}     \* what str.strip() removes
Char        == Letter \cup ContentFree

ASSUME ChunkerAssumption ==
    /\ MaxSentence \in Nat \ {0}
    /\ Letter \cap ContentFree = {}

(* `buf` is the sentence in progress, `done` the one that waits for        *)
(* closers, empty for None.                                                *)
Fresh == [buf |-> <<>>, done |-> <<>>]

Strip(s) ==
    LET kept == {i \in DOMAIN s : s[i] \notin Stripped} IN
    IF kept = {} THEN <<>> ELSE SubSeq(s, Min(kept), Max(kept))

Speakable(s) == \E i \in DOMAIN s : s[i] \notin ContentFree

(* What there is to say of a piece of text: one sentence or none.          *)
Said(s) == IF Speakable(Strip(s)) THEN <<Strip(s)>> ELSE <<>>

(* A slip: whatever follows a sentence begins the next one.                *)
PutUnglued(step, ch) ==
    LET buf == Append(step.buf, ch)
        out == step.out \o Said(step.done) IN
    IF ch \in Terminators \/ Len(buf) >= MaxSentence
    THEN [buf |-> <<>>, done |-> buf, out |-> out]
    ELSE [buf |-> buf, done |-> <<>>, out |-> out]

(* The loop body of feed(): `out` are the sentences emitted so far.        *)
Put(step, ch) ==
    LET buf == Append(step.buf, ch)
        out == step.out \o Said(step.done) IN
    IF step.done # <<>> /\ ch \in Glue
    THEN [step EXCEPT !.done = Append(@, ch)]
    ELSE IF ch \in Terminators \/ Len(buf) >= MaxSentence
         THEN [buf |-> <<>>, done |-> buf, out |-> out]
         ELSE [buf |-> buf, done |-> <<>>, out |-> out]

(* feed(): the new fields, and the sentences that the delta completed.     *)
Feed(c, delta) ==
    LET after[n \in 0..Len(delta)] ==
            IF n = 0 THEN [buf |-> c.buf, done |-> c.done, out |-> <<>>]
            ELSE Put(after[n - 1], delta[n])
    IN  after[Len(delta)]

(* flush(): what is pending, finished or not.                              *)
Flush(c) == Said(c.done) \o Said(c.buf)

-----------------------------------------------------------------------------
(* What the docstring promises, without deltas: a sentence goes to the     *)
(* first terminator, or to its largest length, and takes along the closers *)
(* and terminators that follow.                                            *)

SentenceEnd(text, i) ==
    LET cuts == {j \in i..Len(text) : text[j] \in Terminators \/ j - i + 1 = MaxSentence}
        glued(j) == {k \in j..Len(text) : \A m \in (j + 1)..k : text[m] \in Glue} IN
    IF cuts = {} THEN Len(text) ELSE Max(glued(Min(cuts)))

SentencesFrom(text) ==
    LET from[i \in 1..(Len(text) + 1)] ==
            IF i > Len(text) THEN <<>>
            ELSE Said(SubSeq(text, i, SentenceEnd(text, i)))
                    \o from[SentenceEnd(text, i) + 1]
    IN  from

Sentences(text) == SentencesFrom(text)[1]

-----------------------------------------------------------------------------
(* The invariant of the chunker.                                           *)

Sentence == Seq(Char) \ {<<>>}

(* A terminator at j, or the largest length of a sentence from i.          *)
CutAt(text, i, j) == text[j] \in Terminators \/ j - i + 1 = MaxSentence

(* The first cut of the sentence from i is at j, and it takes along what   *)
(* is up to k.                                                             *)
CutFirst(text, i, j, k) ==
    /\ j \in i..k /\ CutAt(text, i, j)
    /\ \A m \in i..(j - 1) : ~CutAt(text, i, m)
    /\ \A m \in (j + 1)..k : text[m] \in Glue

(* After k characters of text the chunker c has got the sentences q out:   *)
(* those before some a, and what follows is pending, with its cut or       *)
(* without.                                                                *)
Chunked(text, k, c, q) ==
    \E a \in 1..(k + 1) :
        /\ Sentences(text) = q \o SentencesFrom(text)[a]
        /\ \/ c.done = <<>> /\ c.buf = SubSeq(text, a, k) /\ \A m \in a..k : ~CutAt(text, a, m)
           \/ /\ a <= k /\ c.buf = <<>> /\ c.done = SubSeq(text, a, k)
              /\ \E j \in a..k : CutFirst(text, a, j, k)
=============================================================================
