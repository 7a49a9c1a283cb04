----------------------------- MODULE VoiceProofs -----------------------------
(***************************************************************************)
(* Lemmas about the operators that speech is made of.  SentenceChunker:    *)
(* fed in any pieces, it gets out the sentences of the whole text.         *)
(* WavHeader: the loop of the parser finds what the response announces.    *)
(* The library's induction theorems take a predicate, which no prover here *)
(* can instantiate; Induct below is first-order, on a set, and each        *)
(* recursive function is shown to exist before it is unfolded.             *)
(***************************************************************************)
EXTENDS SentenceChunker, WavHeader, SequenceTheorems, FiniteSetTheorems, TLAPS

(* The least and the greatest number of a set.                             *)
LEMMA MinIsLeast ==
    ASSUME NEW T \in SUBSET Nat, T # {}
    PROVE  Min(T) \in T /\ \A n \in T : Min(T) <= n
<1>1. PICK m \in T : \A n \in T : ~(<<n, m>> \in OpToRel(<, Nat))
  BY NatLessThanWellFounded, WFMin
<1>2. \A n \in T : m <= n
  <2>1. ASSUME NEW n \in T, n < m PROVE <<n, m>> \in OpToRel(<, Nat)
    BY <2>1 DEF OpToRel
  <2>2. \A n \in T : ~(n < m)
    BY <1>1, <2>1
  <2>3. m \in Nat /\ \A n \in T : n \in Nat
    OBVIOUS
  <2> QED BY <2>2, <2>3
<1> QED BY <1>2 DEF Min

(* Of a set of numbers up to some top, Max is the greatest.                *)
LEMMA MaxIsGreatest ==
    ASSUME NEW top \in Nat, NEW T \in SUBSET (0..top), T # {}
    PROVE  Max(T) \in T /\ \A n \in T : n <= Max(T)
<1> DEFINE U == {top - n : n \in T}
<1>1. U \in SUBSET Nat /\ U # {}
  OBVIOUS
<1>2. PICK n \in T : Min(U) = top - n
  BY <1>1, MinIsLeast
<1>3. \A m \in T : m <= n
  <2> SUFFICES ASSUME NEW m \in T PROVE m <= n
    OBVIOUS
  <2>1. Min(U) <= top - m
    BY <1>1, MinIsLeast
  <2> QED BY <1>2, <2>1
<1> QED BY <1>3 DEF Max

(* Induction, on a set rather than on a predicate.                         *)
LEMMA Induct ==
    ASSUME NEW T, 0 \in T, \A n \in Nat : n \in T => n + 1 \in T
    PROVE  \A n \in Nat : n \in T
<1> DEFINE Missing == {n \in Nat : n \notin T}
<1>1. ASSUME Missing # {} PROVE FALSE
  <2>1. Min(Missing) \in Missing /\ \A n \in Missing : Min(Missing) <= n
    BY <1>1, MinIsLeast
  <2>2. PICK m \in Nat : m = Min(Missing)
    BY <2>1
  <2>3. m # 0 /\ m - 1 \in Nat /\ m - 1 \notin Missing
    BY <2>1, <2>2
  <2>4. m - 1 \in T /\ (m - 1) + 1 = m
    BY <2>3
  <2> QED BY <2>1, <2>2, <2>3, <2>4
<1> QED BY <1>1

-----------------------------------------------------------------------------
(* Sentences.                                                              *)

Texts == Seq(Char)

(* strip() returns a part of the text.                                     *)
LEMMA StripIsText == ASSUME NEW s \in Texts PROVE Strip(s) \in Texts
<1> DEFINE kept == {i \in DOMAIN s : s[i] \notin Stripped}
<1>1. CASE kept = {}
  BY <1>1 DEF Strip, Texts
<1>2. CASE kept # {}
  <2>1. kept \in SUBSET (0..Len(s)) /\ kept \in SUBSET Nat /\ DOMAIN s = 1..Len(s) /\ Len(s) \in Nat
    BY DEF Texts
  <2>2. Min(kept) \in kept /\ Max(kept) \in kept
    BY <1>2, <2>1, MinIsLeast, MaxIsGreatest
  <2>3. Min(kept) \in 1..Len(s) /\ Max(kept) \in 1..Len(s)
    BY <2>1, <2>2
  <2>4. PICK a \in 1..Len(s), b \in 1..Len(s) : a = Min(kept) /\ b = Max(kept)
    BY <2>3
  <2>5. SubSeq(s, a, b) \in Seq(Char)
    <3>1. a \in Int /\ b \in Int /\ \A i \in a..b : i \in 1..Len(s)
      BY <2>1
    <3>2. \A i \in a..b : s[i] \in Char
      BY <3>1, ElementOfSeq DEF Texts
    <3> QED BY ONLY <3>1, <3>2, SubSeqProperties
  <2> QED BY <1>2, <2>4, <2>5 DEF Strip, Texts
<1> QED BY <1>1, <1>2

(* What is said is a sentence that is not empty, or nothing.               *)
LEMMA SaidIs ==
    /\ \A s \in Texts : Said(s) \in Seq(Texts \ {<<>>})
    /\ Said(<<>>) = <<>>
<1>1. ASSUME NEW s \in Texts PROVE Said(s) \in Seq(Texts \ {<<>>})
  <2>1. Speakable(Strip(s)) => Strip(s) # <<>>
    BY DEF Speakable
  <2>2. Strip(s) \in Texts
    BY StripIsText
  <2> DEFINE X == Texts \ {<<>>}
  <2>3. Speakable(Strip(s)) => Strip(s) \in X
    BY <2>1, <2>2
  <2> HIDE DEF X
  <2>4. \A x \in X : <<x>> \in Seq(X)
    OBVIOUS
  <2>5. <<>> \in Seq(X)
    OBVIOUS
  <2>6. Said(s) \in Seq(X)
    BY <2>3, <2>4, <2>5 DEF Said
  <2> QED BY <2>6 DEF X
<1>2. ~Speakable(Strip(<<>>))
  BY DEF Speakable, Strip
<1> QED BY <1>1, <1>2 DEF Said

(* A sentence ends in the text: at its end without a cut, and else where   *)
(* the glue after the first cut does.                                      *)
LEMMA EndOfSentence ==
    ASSUME NEW text \in Texts, NEW i \in 1..Len(text)
    PROVE  /\ SentenceEnd(text, i) \in i..Len(text)
           /\ (\A m \in i..Len(text) : ~CutAt(text, i, m)) => SentenceEnd(text, i) = Len(text)
           /\ \A k \in i..Len(text) : \A j \in i..k :
                 CutFirst(text, i, j, k) /\ (k = Len(text) \/ text[k + 1] \notin Glue)
                    => SentenceEnd(text, i) = k
<1> DEFINE cuts == {j \in i..Len(text) : text[j] \in Terminators \/ j - i + 1 = MaxSentence}
           glued(j) == {k \in j..Len(text) : \A m \in (j + 1)..k : text[m] \in Glue}
<1>0. Len(text) \in Nat /\ i \in Nat
  BY DEF Texts
<1>1. SentenceEnd(text, i) = IF cuts = {} THEN Len(text) ELSE Max(glued(Min(cuts)))
  BY DEF SentenceEnd
<1>2. cuts = {j \in i..Len(text) : CutAt(text, i, j)}
  BY DEF CutAt
<1>3. ASSUME cuts # {} PROVE Min(cuts) \in cuts /\ \A n \in cuts : Min(cuts) <= n
  <2>1. cuts \in SUBSET Nat
    BY <1>0
  <2> HIDE DEF cuts
  <2> QED BY <1>3, <2>1, MinIsLeast
<1>4. ASSUME NEW j \in i..Len(text)
      PROVE  Max(glued(j)) \in glued(j) /\ \A n \in glued(j) : n <= Max(glued(j))
  <2>1. j \in glued(j)
    BY <1>0
  <2>2. glued(j) \in SUBSET (0..Len(text))
    BY <1>0
  <2> HIDE DEF glued
  <2> QED BY <1>0, <2>1, <2>2, MaxIsGreatest
<1>5. SentenceEnd(text, i) \in i..Len(text)
  <2>1. CASE cuts = {}
    BY <1>0, <1>1, <2>1
  <2>2. CASE cuts # {}
    <3>1. PICK j \in i..Len(text) : j = Min(cuts)
      BY <1>3, <2>2
    <3>2. Max(glued(j)) \in j..Len(text)
      BY <1>4
    <3> QED BY <1>0, <1>1, <2>2, <3>1, <3>2
  <2> QED BY <2>1, <2>2
<1>6. ASSUME NEW k \in i..Len(text), NEW j \in i..k, CutFirst(text, i, j, k),
             k = Len(text) \/ text[k + 1] \notin Glue
      PROVE  SentenceEnd(text, i) = k
  <2>1. j \in i..Len(text) /\ j \in cuts /\ j \in Nat /\ k \in Nat
    BY <1>0, <1>2, <1>6 DEF CutFirst
  <2>2. PICK n \in i..Len(text) : n = Min(cuts) /\ n \in cuts /\ n <= j
    BY <1>3, <2>1
  <2>3. ~(n \in i..(j - 1))
    BY <1>2, <1>6, <2>2 DEF CutFirst
  <2>4. n = j
    BY <1>0, <2>1, <2>2, <2>3
  <2>5. k \in glued(j)
    BY <1>0, <1>6, <2>1 DEF CutFirst
  <2>6. PICK x \in glued(j) : x = Max(glued(j)) /\ k <= x
    BY <1>4, <2>1, <2>5
  <2>7. x <= k
    <3>1. CASE k = Len(text)
      BY <1>0, <2>1, <3>1
    <3>2. CASE text[k + 1] \notin Glue
      <4>1. ~(k + 1 \in (j + 1)..x)
        BY <3>2
      <4> QED BY <1>0, <2>1, <4>1
    <3> QED BY <1>6, <3>1, <3>2
  <2>8. SentenceEnd(text, i) = Max(glued(Min(cuts)))
    BY <1>1, <2>1
  <2>9. SentenceEnd(text, i) = Max(glued(j))
    <3> HIDE DEF cuts, glued
    <3> QED BY <2>2, <2>4, <2>8
  <2>10. SentenceEnd(text, i) = x /\ x \in Nat
    BY <1>0, <2>1, <2>6, <2>9
  <2> QED BY <2>1, <2>6, <2>7, <2>10
<1>7. ASSUME \A m \in i..Len(text) : ~CutAt(text, i, m) PROVE SentenceEnd(text, i) = Len(text)
  BY <1>1, <1>2, <1>7
<1> QED BY <1>5, <1>6, <1>7

(* The sentence at i, and those that follow by f.                          *)
Rest(text, f, i) ==
    IF i > Len(text) THEN <<>>
    ELSE Said(SubSeq(text, i, SentenceEnd(text, i))) \o f[SentenceEnd(text, i) + 1]

(* The recursion of SentencesFrom has a solution.                          *)
LEMMA SentencesFromIs ==
    ASSUME NEW text \in Texts
    PROVE  SentencesFrom(text) =
              [i \in 1..(Len(text) + 1) |-> Rest(text, SentencesFrom(text), i)]
<1> DEFINE Tail1(n) == (Len(text) + 1 - n)..(Len(text) + 1)
           T == {n \in Nat : n <= Len(text) => \E f : f = [i \in Tail1(n) |-> Rest(text, f, i)]}
<1>0. Len(text) \in Nat
  BY DEF Texts
<1>1. 0 \in T
  <2> DEFINE g == [i \in Tail1(0) |-> <<>>]
  <2>1. ASSUME NEW i \in Tail1(0) PROVE g[i] = Rest(text, g, i)
    <3>1. i > Len(text)
      BY <1>0
    <3> QED BY <3>1 DEF Rest
  <2>2. g = [i \in Tail1(0) |-> Rest(text, g, i)]
    BY <2>1
  <2> QED BY <2>2
<1>2. ASSUME NEW n \in Nat, n \in T PROVE n + 1 \in T
  <2> SUFFICES ASSUME n + 1 <= Len(text)
               PROVE  \E f : f = [i \in Tail1(n + 1) |-> Rest(text, f, i)]
    OBVIOUS
  <2>1. PICK f : f = [i \in Tail1(n) |-> Rest(text, f, i)]
    BY <1>0, <1>2
  <2> DEFINE g == [i \in Tail1(n + 1) |-> IF i \in Tail1(n) THEN f[i] ELSE Rest(text, f, i)]
  <2>2. \A i \in Tail1(n) : i \in Tail1(n + 1) /\ g[i] = f[i]
    BY <1>0
  <2>3. ASSUME NEW i \in Tail1(n + 1) PROVE g[i] = Rest(text, f, i) /\ Rest(text, g, i) = Rest(text, f, i)
    <3>1. g[i] = Rest(text, f, i)
      BY <2>1
    <3>2. CASE i > Len(text)
      BY <3>1, <3>2 DEF Rest
    <3>3. CASE i <= Len(text)
      <4>1. i \in 1..Len(text)
        BY <1>0, <3>3
      <4>2. SentenceEnd(text, i) + 1 \in Tail1(n)
        <5>1. SentenceEnd(text, i) \in i..Len(text)
          BY <4>1, EndOfSentence
        <5> QED BY <1>0, <5>1
      <4>3. g[SentenceEnd(text, i) + 1] = f[SentenceEnd(text, i) + 1]
        BY <2>2, <4>2
      <4> HIDE DEF g
      <4> QED BY <3>1, <4>3 DEF Rest
    <3> QED BY <1>0, <3>2, <3>3
  <2>4. g = [i \in Tail1(n + 1) |-> Rest(text, g, i)]
    BY <2>3
  <2> QED BY <2>4
<1>3. Len(text) \in T
  <2> HIDE DEF T
  <2> QED BY <1>0, <1>1, <1>2, Induct
<1>4. \E f : f = [i \in 1..(Len(text) + 1) |-> Rest(text, f, i)]
  BY <1>0, <1>3
<1>5. SentencesFrom(text) = CHOOSE f : f = [i \in 1..(Len(text) + 1) |-> Rest(text, f, i)]
  BY DEF SentencesFrom, Rest
<1> QED BY <1>4, <1>5

(* What there is to say from i on.                                         *)
LEMMA Following ==
    ASSUME NEW text \in Texts
    PROVE  /\ SentencesFrom(text)[Len(text) + 1] = <<>>
           /\ \A i \in 1..Len(text) :
                 SentencesFrom(text)[i] = Said(SubSeq(text, i, SentenceEnd(text, i)))
                                             \o SentencesFrom(text)[SentenceEnd(text, i) + 1]
<1>0. Len(text) \in Nat
  BY DEF Texts
<1>1. \A i \in 1..(Len(text) + 1) : SentencesFrom(text)[i] = Rest(text, SentencesFrom(text), i)
  BY SentencesFromIs
<1>2. Len(text) + 1 \in 1..(Len(text) + 1) /\ Len(text) + 1 > Len(text)
  BY <1>0
<1>3. \A i \in 1..Len(text) : i \in 1..(Len(text) + 1) /\ ~(i > Len(text))
  BY <1>0
<1> QED BY <1>1, <1>2, <1>3 DEF Rest

(* A part of a text is one.                                                *)
LEMMA PartOfText ==
    ASSUME NEW text \in Texts, NEW a \in 1..(Len(text) + 1), NEW b \in 0..Len(text)
    PROVE  /\ SubSeq(text, a, b) \in Texts
           /\ Len(SubSeq(text, a, b)) = IF a <= b THEN b - a + 1 ELSE 0
           /\ b < Len(text) /\ a <= b + 1 =>
                 Append(SubSeq(text, a, b), text[b + 1]) = SubSeq(text, a, b + 1)
<1>0. Len(text) \in Nat /\ a \in Nat /\ b \in Nat
  BY DEF Texts
<1>1. \A i \in a..b : text[i] \in Char
  <2>1. \A i \in a..b : i \in 1..Len(text)
    BY <1>0
  <2> QED BY <2>1, ElementOfSeq DEF Texts
<1>2. SubSeq(text, a, b) \in Texts /\ Len(SubSeq(text, a, b)) = IF a <= b THEN b - a + 1 ELSE 0
  BY <1>0, <1>1, SubSeqProperties DEF Texts
<1>3. ASSUME b < Len(text), a <= b + 1
      PROVE  Append(SubSeq(text, a, b), text[b + 1]) = SubSeq(text, a, b + 1)
  <2>1. a \in 1..Len(text) /\ b + 1 \in a..Len(text) /\ (b + 1) - 1 = b
    BY <1>0, <1>3
  <2>2. SubSeq(text, a, b + 1) = SubSeq(text, a, b) \o <<text[b + 1]>>
    BY <2>1, SubSeqRecursiveSecond DEF Texts
  <2>3. SubSeq(text, a, b) \in Seq(Char) /\ text[b + 1] \in Char
    BY <1>0, <1>2, <2>1 DEF Texts
  <2>4. \A w \in Seq(Char), ch \in Char : Append(w, ch) = w \o <<ch>>
    OBVIOUS
  <2> QED BY <2>2, <2>3, <2>4
<1> QED BY <1>2, <1>3

(* All of it is sentences.                                                 *)
LEMMA FollowingAreSentences ==
    ASSUME NEW text \in Texts
    PROVE  \A i \in 1..(Len(text) + 1) : SentencesFrom(text)[i] \in Seq(Sentence)
<1> DEFINE from == SentencesFrom(text)
           T == {n \in Nat : \A i \in 1..(Len(text) + 1) : Len(text) + 1 - i <= n => from[i] \in Seq(Sentence)}
<1>0. Len(text) \in Nat
  BY DEF Texts
<1>a. from[Len(text) + 1] \in Seq(Sentence)
  <2>1. from[Len(text) + 1] = <<>>
    BY Following
  <2> HIDE DEF from
  <2> QED BY <2>1
<1>1. 0 \in T
  <2> SUFFICES ASSUME NEW i \in 1..(Len(text) + 1), Len(text) + 1 - i <= 0
               PROVE  from[i] \in Seq(Sentence)
    OBVIOUS
  <2>1. i = Len(text) + 1
    BY <1>0
  <2> QED BY <1>a, <2>1
<1>2. ASSUME NEW n \in Nat, n \in T PROVE n + 1 \in T
  <2> SUFFICES ASSUME NEW i \in 1..(Len(text) + 1), Len(text) + 1 - i <= n + 1
               PROVE  from[i] \in Seq(Sentence)
    OBVIOUS
  <2>1. CASE i = Len(text) + 1
    BY <1>a, <2>1
  <2>2. CASE i # Len(text) + 1
    <3>1. i \in 1..Len(text)
      BY <1>0, <2>2
    <3>2. PICK e \in i..Len(text) : e = SentenceEnd(text, i)
      BY <3>1, EndOfSentence
    <3>3. e + 1 \in 1..(Len(text) + 1) /\ Len(text) + 1 - (e + 1) <= n /\ e \in 0..Len(text)
      BY <1>0, <3>1, <3>2
    <3>4. from[e + 1] \in Seq(Sentence)
      BY <1>2, <3>3
    <3>5. Said(SubSeq(text, i, e)) \in Seq(Sentence)
      BY <3>3, PartOfText, SaidIs DEF Sentence, Texts
    <3>6. from[i] = Said(SubSeq(text, i, e)) \o from[e + 1]
      BY <3>1, <3>2, Following
    <3> HIDE DEF from
    <3> QED BY <3>4, <3>5, <3>6
  <2> QED BY <2>1, <2>2
<1>3. \A n \in Nat : n \in T
  <2> HIDE DEF T
  <2> QED BY <1>1, <1>2, Induct
<1>4. ASSUME NEW i \in 1..(Len(text) + 1) PROVE from[i] \in Seq(Sentence)
  <2>1. Len(text) + 1 \in T
    <3> HIDE DEF T
    <3> QED BY <1>0, <1>3
  <2>2. Len(text) + 1 - i <= Len(text) + 1
    BY <1>0
  <2> QED BY <2>1, <2>2
<1> QED BY <1>4

-----------------------------------------------------------------------------
(* Character by character.                                                 *)

Steps == [buf : Texts, done : Texts, out : Seq(Sentence)]

(* The step after n characters of delta, if f is the one before.           *)
After(c, delta, f, n) ==
    IF n = 0 THEN [buf |-> c.buf, done |-> c.done, out |-> <<>>]
    ELSE Put(f[n - 1], delta[n])

(* The recursion of Feed has a solution.                                   *)
LEMMA FeedIs ==
    ASSUME NEW c, NEW delta, Len(delta) \in Nat
    PROVE  \E f : f = [n \in 0..Len(delta) |-> After(c, delta, f, n)] /\ Feed(c, delta) = f[Len(delta)]
<1> DEFINE T == {m \in Nat : \E f : f = [n \in 0..m |-> After(c, delta, f, n)]}
<1>1. 0 \in T
  <2> DEFINE g == [n \in 0..0 |-> After(c, delta, <<>>, 0)]
  <2>1. ASSUME NEW n \in 0..0 PROVE g[n] = After(c, delta, g, n)
    <3>1. n = 0
      OBVIOUS
    <3> QED BY <3>1 DEF After
  <2>2. g = [n \in 0..0 |-> After(c, delta, g, n)]
    BY <2>1
  <2> QED BY <2>2
<1>2. ASSUME NEW m \in Nat, m \in T PROVE m + 1 \in T
  <2> SUFFICES \E f : f = [n \in 0..(m + 1) |-> After(c, delta, f, n)]
    OBVIOUS
  <2>1. PICK f : f = [n \in 0..m |-> After(c, delta, f, n)]
    BY <1>2
  <2> DEFINE g == [n \in 0..(m + 1) |-> IF n \in 0..m THEN f[n] ELSE After(c, delta, f, n)]
  <2>2. \A n \in 0..m : g[n] = f[n]
    OBVIOUS
  <2>3. ASSUME NEW n \in 0..(m + 1) PROVE g[n] = After(c, delta, g, n)
    <3>1. g[n] = After(c, delta, f, n)
      BY <2>1
    <3>2. n = 0 \/ n - 1 \in 0..m
      OBVIOUS
    <3>3. n = 0 \/ g[n - 1] = f[n - 1]
      BY <2>2, <3>2
    <3> HIDE DEF g
    <3> QED BY <3>1, <3>3 DEF After
  <2>4. g = [n \in 0..(m + 1) |-> After(c, delta, g, n)]
    BY <2>3
  <2> QED BY <2>4
<1>3. Len(delta) \in T
  <2> HIDE DEF T
  <2> QED BY <1>1, <1>2, Induct
<1> DEFINE after == CHOOSE f : f = [n \in 0..Len(delta) |-> After(c, delta, f, n)]
<1>4. after = [n \in 0..Len(delta) |-> After(c, delta, after, n)]
  BY <1>3
<1>5. Feed(c, delta) = after[Len(delta)]
  BY DEF Feed, After
<1> QED BY <1>4, <1>5

(* A chunker that starts has everything to come.                           *)
LEMMA FreshIsChunked ==
    ASSUME NEW text \in Texts
    PROVE  Chunked(text, 0, Fresh, <<>>)
<1>1. Sentences(text) = <<>> \o SentencesFrom(text)[1]
  <2>1. 1 \in 1..(Len(text) + 1)
    BY DEF Texts
  <2>2. SentencesFrom(text)[1] \in Seq(Sentence)
    BY <2>1, FollowingAreSentences
  <2> QED BY <2>2, ConcatEmptySeq DEF Sentences
<1>2. SubSeq(text, 1, 0) = <<>>
  BY SubSeqEmpty
<1>3. 1 \in 1..(0 + 1) /\ \A m \in 1..0 : FALSE
  OBVIOUS
<1> QED BY <1>1, <1>2, <1>3 DEF Chunked, Fresh

(* A character that goes to a sentence in progress.                        *)
LEMMA PutInProgress ==
    ASSUME NEW text \in Texts, NEW k \in 0..(Len(text) - 1), NEW step \in Steps, NEW q,
           NEW a \in 1..(k + 1), Sentences(text) = q \o SentencesFrom(text)[a],
           step.done = <<>>, step.buf = SubSeq(text, a, k), \A m \in a..k : ~CutAt(text, a, m)
    PROVE  /\ Put(step, text[k + 1]) \in Steps
           /\ Put(step, text[k + 1]).out = step.out
           /\ Chunked(text, k + 1, Put(step, text[k + 1]), q)
<1> DEFINE ch == text[k + 1]
           buf == Append(step.buf, ch)
<1>0. Len(text) \in Nat /\ k \in Nat /\ a \in Nat /\ k + 1 \in 1..Len(text) /\ k \in 0..Len(text)
      /\ a \in 1..(Len(text) + 1) /\ MaxSentence \in Nat \ {0}
  BY ChunkerAssumption DEF Texts
<1>1. buf = SubSeq(text, a, k + 1) /\ buf \in Texts /\ Len(buf) = k + 2 - a
  <2>1. buf = SubSeq(text, a, k + 1)
    BY <1>0, PartOfText
  <2>2. SubSeq(text, a, k + 1) \in Texts /\ Len(SubSeq(text, a, k + 1)) = (k + 1) - a + 1
    BY <1>0, PartOfText
  <2> QED BY <1>0, <2>1, <2>2
<1>2. step.out \o Said(step.done) = step.out /\ step.out \in Seq(Sentence)
  <2>1. step.out \in Seq(Sentence)
    BY DEF Steps
  <2> QED BY <2>1, SaidIs, ConcatEmptySeq
<1>3. CutAt(text, a, k + 1) <=> ch \in Terminators \/ Len(buf) >= MaxSentence
  <2>1. CASE Len(buf) > MaxSentence
    <3>1. a + MaxSentence - 1 \in a..k /\ (a + MaxSentence - 1) - a + 1 = MaxSentence
      BY <1>0, <1>1, <2>1
    <3>2. CutAt(text, a, a + MaxSentence - 1)
      BY <3>1 DEF CutAt
    <3> QED BY <3>1, <3>2
  <2>2. CASE ~(Len(buf) > MaxSentence)
    <3>1. Len(buf) >= MaxSentence <=> (k + 1) - a + 1 = MaxSentence
      BY <1>0, <1>1, <2>2
    <3> QED BY <3>1 DEF CutAt
  <2> QED BY <2>1, <2>2
<1> HIDE DEF buf
<1>4. Put(step, ch) = IF CutAt(text, a, k + 1)
                      THEN [buf |-> <<>>, done |-> buf, out |-> step.out]
                      ELSE [buf |-> buf, done |-> <<>>, out |-> step.out]
  BY <1>2, <1>3 DEF Put, buf
<1>5. <<>> \in Texts
  BY DEF Texts
<1>6. Put(step, ch) \in Steps /\ Put(step, ch).out = step.out
  BY <1>1, <1>2, <1>4, <1>5 DEF Steps
<1>7. a \in 1..((k + 1) + 1) /\ a <= k + 1 /\ k + 1 \in a..(k + 1)
  BY <1>0
<1>8. CASE CutAt(text, a, k + 1)
  <2>1. CutFirst(text, a, k + 1, k + 1)
    <3>1. \A n \in Nat : (n + 1) - 1 = n /\ \A m \in ((n + 1) + 1)..(n + 1) : FALSE
      OBVIOUS
    <3>2. (k + 1) - 1 = k /\ \A m \in ((k + 1) + 1)..(k + 1) : FALSE
      BY <1>0, <3>1
    <3> QED BY <1>7, <1>8, <3>2 DEF CutFirst
  <2>2. Put(step, ch).buf = <<>> /\ Put(step, ch).done = SubSeq(text, a, k + 1)
    BY ONLY <1>1, <1>4, <1>8
  <2>3. Chunked(text, k + 1, Put(step, ch), q)
    BY <1>7, <2>1, <2>2 DEF Chunked
  <2> QED BY <1>6, <2>3
<1>9. CASE ~CutAt(text, a, k + 1)
  <2>1. \A m \in a..(k + 1) : ~CutAt(text, a, m)
    <3>1. \A m \in a..(k + 1) : m = k + 1 \/ m \in a..k
      BY <1>0
    <3> QED BY <1>9, <3>1
  <2>2. Put(step, ch).done = <<>> /\ Put(step, ch).buf = SubSeq(text, a, k + 1)
    BY ONLY <1>1, <1>4, <1>9
  <2>3. Chunked(text, k + 1, Put(step, ch), q)
    BY <1>7, <2>1, <2>2 DEF Chunked
  <2> QED BY <1>6, <2>3
<1> QED BY <1>8, <1>9

(* ConcatAssociative, for sentences.                                       *)
LEMMA Associates ==
    \A x, y, z \in Seq(Sentence) : (x \o y) \o z = x \o (y \o z)
BY ConcatAssociative

(* The head of what follows is the sentence that ends at k.                *)
LEMMA NextSentence ==
    ASSUME NEW text \in Texts, NEW q \in Seq(Sentence), NEW k \in 1..Len(text), NEW a \in 1..k,
           Sentences(text) = q \o SentencesFrom(text)[a], SentenceEnd(text, a) = k
    PROVE  /\ Said(SubSeq(text, a, k)) \in Seq(Sentence)
           /\ Sentences(text) = (q \o Said(SubSeq(text, a, k))) \o SentencesFrom(text)[k + 1]
<1>0. Len(text) \in Nat /\ a \in 1..Len(text) /\ a \in 1..(Len(text) + 1)
      /\ k + 1 \in 1..(Len(text) + 1) /\ k \in 0..Len(text)
  BY DEF Texts
<1>1. SentencesFrom(text)[a] = Said(SubSeq(text, a, k)) \o SentencesFrom(text)[k + 1]
  BY <1>0, Following
<1>2. Said(SubSeq(text, a, k)) \in Seq(Sentence)
  BY <1>0, PartOfText, SaidIs DEF Sentence, Texts
<1>3. SentencesFrom(text)[k + 1] \in Seq(Sentence)
  BY <1>0, FollowingAreSentences
<1> DEFINE said == Said(SubSeq(text, a, k))
           rest == SentencesFrom(text)[k + 1]
<1>4. Sentences(text) = q \o (said \o rest)
  BY <1>1
<1> HIDE DEF said, rest
<1>5. Sentences(text) = (q \o said) \o rest
  BY <1>2, <1>3, <1>4, Associates DEF said, rest
<1> QED BY <1>2, <1>5 DEF said, rest

(* The loop body keeps up with the text.                                   *)
LEMMA PutKeepsChunked ==
    ASSUME NEW text \in Texts, NEW k \in 0..(Len(text) - 1), NEW step \in Steps,
           NEW q \in Seq(Sentence), Chunked(text, k, step, q \o step.out)
    PROVE  /\ Put(step, text[k + 1]) \in Steps
           /\ Chunked(text, k + 1, Put(step, text[k + 1]), q \o Put(step, text[k + 1]).out)
<1> DEFINE ch == text[k + 1]
<1>0. Len(text) \in Nat /\ k \in Nat /\ k + 1 \in 1..Len(text) /\ k \in 0..Len(text)
  BY DEF Texts
<1>1. PICK a \in 1..(k + 1) :
        /\ Sentences(text) = (q \o step.out) \o SentencesFrom(text)[a]
        /\ \/ step.done = <<>> /\ step.buf = SubSeq(text, a, k) /\ \A m \in a..k : ~CutAt(text, a, m)
           \/ /\ a <= k /\ step.buf = <<>> /\ step.done = SubSeq(text, a, k)
              /\ \E j \in a..k : CutFirst(text, a, j, k)
  BY DEF Chunked
<1>2. CASE step.done = <<>> /\ step.buf = SubSeq(text, a, k) /\ \A m \in a..k : ~CutAt(text, a, m)
  <2> DEFINE next == Put(step, ch)
  <2>1. next \in Steps /\ next.out = step.out /\ Chunked(text, k + 1, next, q \o step.out)
    BY <1>1, <1>2, PutInProgress
  <2> HIDE DEF next
  <2>2. Chunked(text, k + 1, next, q \o next.out)
    BY <2>1
  <2> QED BY <2>1, <2>2 DEF next
<1>3. CASE /\ a <= k /\ step.buf = <<>> /\ step.done = SubSeq(text, a, k)
           /\ \E j \in a..k : CutFirst(text, a, j, k)
  <2>0. a \in 1..(Len(text) + 1) /\ a \in 1..k /\ k \in 1..Len(text)
    BY <1>0, <1>3
  <2>1. PICK j \in a..k : CutFirst(text, a, j, k)
    BY <1>3
  <2>2. step.done \in Texts /\ step.done # <<>>
    <3>1. Len(SubSeq(text, a, k)) = k - a + 1
      BY <1>0, <2>0, PartOfText
    <3>2. Len(step.done) > 0
      BY <1>0, <1>3, <2>0, <3>1
    <3> QED BY <3>2 DEF Steps
  <2>3. CASE ch \in Glue
    <3> DEFINE next == [step EXCEPT !.done = Append(@, ch)]
    <3>1. Put(step, ch) = next
      BY <2>2, <2>3 DEF Put
    <3>2. Append(step.done, ch) = SubSeq(text, a, k + 1) /\ SubSeq(text, a, k + 1) \in Texts
      BY <1>0, <1>3, <2>0, PartOfText
    <3>3. next \in Steps /\ next.out = step.out /\ next.buf = <<>> /\ next.done = SubSeq(text, a, k + 1)
      BY <1>3, <3>2 DEF Steps
    <3>4. CutFirst(text, a, j, k + 1) /\ j \in a..(k + 1)
      <4>1. j \in Nat /\ j <= k /\ a <= j
        BY <1>0, <2>0
      <4>2. \A m \in (j + 1)..(k + 1) : m \in (j + 1)..k \/ m = k + 1
        BY <1>0, <4>1
      <4> QED BY <1>0, <2>1, <2>3, <4>1, <4>2 DEF CutFirst
    <3>5. a \in 1..((k + 1) + 1) /\ a <= k + 1
      BY <1>0, <2>0
    <3> HIDE DEF next
    <3>6. Chunked(text, k + 1, next, q \o next.out)
      BY <1>1, <3>3, <3>4, <3>5 DEF Chunked
    <3> QED BY <3>1, <3>3, <3>6
  <2>4. CASE ch \notin Glue
    <3> DEFINE said == Said(SubSeq(text, a, k))
               mid == [buf |-> <<>>, done |-> <<>>, out |-> step.out \o said]
    <3>1. SentenceEnd(text, a) = k
      <4>1. a \in 1..Len(text) /\ k \in a..Len(text) /\ j \in a..k
        BY <1>0, <2>0
      <4>2. \A m \in a..Len(text) : \A i \in a..m :
              CutFirst(text, a, i, m) /\ (m = Len(text) \/ text[m + 1] \notin Glue)
                 => SentenceEnd(text, a) = m
        BY <4>1, EndOfSentence
      <4> QED BY <2>1, <2>4, <4>1, <4>2
    <3>2. step.out \in Seq(Sentence) /\ q \o step.out \in Seq(Sentence)
      BY DEF Steps
    <3>3. /\ said \in Seq(Sentence)
          /\ Sentences(text) = ((q \o step.out) \o said) \o SentencesFrom(text)[k + 1]
      BY <1>1, <2>0, <3>1, <3>2, NextSentence
    <3> HIDE DEF said
    <3>4. (q \o step.out) \o said = q \o (step.out \o said)
      BY <3>2, <3>3, Associates
    <3>5. mid \in Steps
      <4>1. step.out \o said \in Seq(Sentence)
        BY <3>2, <3>3
      <4> QED BY <4>1 DEF Steps, Texts
    <3>6. Put(step, ch) = Put(mid, ch)
      <4>1. step.done # <<>> /\ ch \notin Glue /\ step.buf = <<>> /\ Said(step.done) = said
        BY <1>3, <2>2, <2>4 DEF said
      <4>2. (step.out \o said) \o Said(<<>>) = step.out \o said
        <5>1. step.out \o said \in Seq(Sentence)
          BY <3>2, <3>3
        <5> QED BY <5>1, SaidIs, ConcatEmptySeq
      <4> QED BY <4>1, <4>2 DEF Put
    <3>7. Sentences(text) = (q \o mid.out) \o SentencesFrom(text)[k + 1]
      BY <3>3, <3>4
    <3>8. mid.done = <<>> /\ mid.buf = SubSeq(text, k + 1, k) /\ k + 1 \in 1..(k + 1)
          /\ \A m \in (k + 1)..k : ~CutAt(text, k + 1, m)
      <4>1. SubSeq(text, k + 1, k) = <<>>
        BY <1>0, SubSeqEmpty
      <4> QED BY <1>0, <4>1
    <3> HIDE DEF mid
    <3>9. /\ Put(mid, ch) \in Steps
          /\ Put(mid, ch).out = mid.out
          /\ Chunked(text, k + 1, Put(mid, ch), q \o mid.out)
      BY <3>5, <3>7, <3>8, PutInProgress
    <3> QED BY <3>6, <3>9
  <2> QED BY <2>3, <2>4
<1> QED BY <1>1, <1>2, <1>3

(* feed() keeps up with the text, whatever the delta.                      *)
LEMMA FeedKeepsChunked ==
    ASSUME NEW text \in Texts, NEW k \in 0..Len(text), NEW to \in k..Len(text),
           NEW c \in [buf : Texts, done : Texts], NEW q \in Seq(Sentence), Chunked(text, k, c, q),
           NEW step, step = Feed(c, SubSeq(text, k + 1, to))
    PROVE  step \in Steps /\ Chunked(text, to, step, q \o step.out)
<1> DEFINE delta == SubSeq(text, k + 1, to)
<1>0. Len(text) \in Nat /\ k \in Nat /\ to \in Nat /\ k <= to /\ to <= Len(text)
  BY DEF Texts
<1>1. Len(delta) = to - k /\ \A n \in 1..(to - k) : delta[n] = text[k + n]
  <2>1. \A i \in (k + 1)..to : text[i] \in Char
    <3>1. \A i \in (k + 1)..to : i \in 1..Len(text)
      BY <1>0
    <3> QED BY <3>1, ElementOfSeq DEF Texts
  <2>2. /\ Len(delta) = IF k + 1 <= to THEN to - (k + 1) + 1 ELSE 0
        /\ \A n \in 1..(to - (k + 1) + 1) : delta[n] = text[(k + 1) + n - 1]
    BY <1>0, <2>1, SubSeqProperties
  <2>3. to - (k + 1) + 1 = to - k /\ \A n \in 1..(to - k) : (k + 1) + n - 1 = k + n
    BY <1>0
  <2> HIDE DEF delta
  <2> QED BY <1>0, <2>2, <2>3
<1> HIDE DEF delta
<1>2. PICK f : f = [n \in 0..(to - k) |-> After(c, delta, f, n)] /\ step = f[to - k]
  <2>1. Len(delta) \in Nat
    BY <1>0, <1>1
  <2>2. \E f : f = [n \in 0..Len(delta) |-> After(c, delta, f, n)] /\ Feed(c, delta) = f[Len(delta)]
    BY <2>1, FeedIs
  <2> QED BY <1>1, <2>2 DEF delta
<1> DEFINE T == {n \in Nat : n <= to - k => f[n] \in Steps /\ Chunked(text, k + n, f[n], q \o f[n].out)}
<1>3. 0 \in T
  <2>1. f[0] = [buf |-> c.buf, done |-> c.done, out |-> <<>>]
    BY <1>0, <1>2 DEF After
  <2>2. f[0] \in Steps
    BY <2>1 DEF Steps
  <2>3. q \o f[0].out = q /\ k + 0 = k
    BY <1>0, <2>1, ConcatEmptySeq
  <2>4. Chunked(text, k, f[0], q)
    <3>1. f[0].done = c.done /\ f[0].buf = c.buf
      BY <2>1
    <3> QED BY <3>1 DEF Chunked
  <2> QED BY <2>2, <2>3, <2>4
<1>4. ASSUME NEW n \in Nat, n \in T PROVE n + 1 \in T
  <2> SUFFICES ASSUME n + 1 <= to - k
               PROVE  f[n + 1] \in Steps /\ Chunked(text, k + (n + 1), f[n + 1], q \o f[n + 1].out)
    OBVIOUS
  <2>1. f[n] \in Steps /\ Chunked(text, k + n, f[n], q \o f[n].out)
    BY <1>0, <1>4
  <2>2. k + n \in 0..(Len(text) - 1) /\ (k + n) + 1 = k + (n + 1) /\ n + 1 \in 1..(to - k)
    BY <1>0
  <2>3. f[n + 1] = Put(f[n], text[(k + n) + 1])
    <3>1. n + 1 \in 0..(to - k) /\ n + 1 # 0 /\ (n + 1) - 1 = n
      BY <1>0
    <3>2. f[n + 1] = After(c, delta, f, n + 1)
      BY <1>2, <3>1
    <3> QED BY <1>1, <2>2, <3>1, <3>2 DEF After
  <2>4. /\ Put(f[n], text[(k + n) + 1]) \in Steps
        /\ Chunked(text, (k + n) + 1, Put(f[n], text[(k + n) + 1]), q \o Put(f[n], text[(k + n) + 1]).out)
    BY <2>1, <2>2, PutKeepsChunked
  <2> QED BY <2>2, <2>3, <2>4
<1>5. to - k \in T
  <2>1. to - k \in Nat
    BY <1>0
  <2> HIDE DEF T
  <2> QED BY <1>3, <1>4, <2>1, Induct
<1>6. k + (to - k) = to
  BY <1>0
<1> QED BY <1>0, <1>2, <1>5, <1>6

(* flush() gets the rest out.                                              *)
LEMMA FlushCompletes ==
    ASSUME NEW text \in Texts, NEW c \in [buf : Texts, done : Texts], NEW q \in Seq(Sentence),
           Chunked(text, Len(text), c, q)
    PROVE  Flush(c) \in Seq(Sentence) /\ q \o Flush(c) = Sentences(text)
<1>0. Len(text) \in Nat
  BY DEF Texts
<1>1. PICK a \in 1..(Len(text) + 1) :
        /\ Sentences(text) = q \o SentencesFrom(text)[a]
        /\ \/ /\ c.done = <<>> /\ c.buf = SubSeq(text, a, Len(text))
              /\ \A m \in a..Len(text) : ~CutAt(text, a, m)
           \/ /\ a <= Len(text) /\ c.buf = <<>> /\ c.done = SubSeq(text, a, Len(text))
              /\ \E j \in a..Len(text) : CutFirst(text, a, j, Len(text))
  BY DEF Chunked
<1> DEFINE said == Said(SubSeq(text, a, Len(text)))
<1>2. said \in Seq(Sentence)
  <2>1. SubSeq(text, a, Len(text)) \in Texts
    BY <1>0, PartOfText
  <2> QED BY <2>1, SaidIs DEF Sentence, Texts
<1>3. Flush(c) = said
  <2>1. said \o <<>> = said /\ <<>> \o said = said
    BY <1>2, ConcatEmptySeq
  <2>2. Said(<<>>) = <<>>
    BY SaidIs
  <2> QED BY <1>1, <2>1, <2>2 DEF Flush
<1>4. SentencesFrom(text)[a] = said
  <2>1. CASE a = Len(text) + 1
    <3>1. SubSeq(text, a, Len(text)) = <<>>
      BY <1>0, <2>1, SubSeqEmpty
    <3> QED BY <2>1, <3>1, Following, SaidIs
  <2>2. CASE a # Len(text) + 1
    <3>1. a \in 1..Len(text) /\ Len(text) \in a..Len(text)
      BY <1>0, <2>2
    <3>2. SentenceEnd(text, a) = Len(text)
      BY <1>1, <3>1, EndOfSentence
    <3>3. SentencesFrom(text)[a] = said \o SentencesFrom(text)[Len(text) + 1]
      BY <3>1, <3>2, Following
    <3>4. SentencesFrom(text)[Len(text) + 1] = <<>>
      BY Following
    <3> HIDE DEF said
    <3> QED BY <1>2, <3>3, <3>4, ConcatEmptySeq
  <2> QED BY <2>1, <2>2
<1> HIDE DEF said
<1> QED BY <1>1, <1>2, <1>3, <1>4

(* What came out is a prefix of what there is to say.                      *)
LEMMA ChunkedIsPrefix ==
    ASSUME NEW text \in Texts, NEW k \in 0..Len(text), NEW c, NEW q \in Seq(Sentence),
           Chunked(text, k, c, q)
    PROVE  IsPrefix(q, Sentences(text))
<1>1. PICK a \in 1..(k + 1) : Sentences(text) = q \o SentencesFrom(text)[a]
  BY DEF Chunked
<1>2. a \in 1..(Len(text) + 1)
  BY DEF Texts
<1>3. PICK r \in Seq(Sentence) : Sentences(text) = q \o r
  BY <1>1, <1>2, FollowingAreSentences
<1>4. Len(q \o r) = Len(q) + Len(r) /\ Len(q) \in Nat /\ Len(r) \in Nat
  OBVIOUS
<1>5. SubSeq(q, 1, Len(q)) = SubSeq(q \o r, 1, Len(q))
  <2>1. CASE Len(q) = 0
    <3>1. SubSeq(q, 1, 0) = <<>> /\ SubSeq(q \o r, 1, 0) = <<>>
      BY SubSeqEmpty
    <3> QED BY <2>1, <3>1
  <2>2. CASE Len(q) # 0
    <3>1. 1 \in 1..Len(q) /\ Len(q) \in 1..Len(q)
      BY <1>4, <2>2
    <3> QED BY <3>1, SubSeqOfConcat1
  <2> QED BY <2>1, <2>2
<1> QED BY <1>3, <1>4, <1>5 DEF IsPrefix

(* The first of what is removed from a sequence.                           *)
LEMMA RemovingFirst ==
    ASSUME NEW S, NEW s \in Seq(S), NEW e
    PROVE  /\ (\A i \in 1..Len(s) : s[i] # e) => RemoveFirst(s, e) = s
           /\ (\E i \in 1..Len(s) : s[i] = e) =>
                 \E i \in 1..Len(s) : /\ s[i] = e
                                      /\ RemoveFirst(s, e) = SubSeq(s, 1, i - 1) \o SubSeq(s, i + 1, Len(s))
<1>1. (\A i \in 1..Len(s) : s[i] # e) => RemoveFirst(s, e) = s
  BY DEF RemoveFirst
<1>2. ASSUME \E i \in 1..Len(s) : s[i] = e
      PROVE \E i \in 1..Len(s) : /\ s[i] = e
                                 /\ RemoveFirst(s, e) = SubSeq(s, 1, i - 1) \o SubSeq(s, i + 1, Len(s))
  <2> DEFINE I == {i \in 1..Len(s) : s[i] = e}
  <2>1. I # {} /\ I \in SUBSET Nat
    BY <1>2
  <2>2. RemoveFirst(s, e) = SubSeq(s, 1, Min(I) - 1) \o SubSeq(s, Min(I) + 1, Len(s))
    BY <1>2, <2>1 DEF RemoveFirst, RemoveAt, SelectInSeq
  <2>3. Min(I) \in I
    <3> HIDE DEF I
    <3> QED BY <2>1, MinIsLeast
  <2> QED BY <2>2, <2>3
<1> QED BY <1>1, <1>2

(* What remains is a sequence over the same set.                           *)
LEMMA RemovedIsSeq ==
    ASSUME NEW S, NEW s \in Seq(S), NEW e
    PROVE  RemoveFirst(s, e) \in Seq(S)
<1>1. CASE \A i \in 1..Len(s) : s[i] # e
  BY <1>1, RemovingFirst
<1>2. CASE \E i \in 1..Len(s) : s[i] = e
  <2>1. PICK i \in 1..Len(s) :
          RemoveFirst(s, e) = SubSeq(s, 1, i - 1) \o SubSeq(s, i + 1, Len(s))
    BY <1>2, RemovingFirst
  <2>2. Len(s) \in Nat /\ i \in Nat
    OBVIOUS
  <2>3. SubSeq(s, 1, i - 1) \in Seq(S)
    <3>1. 1 \in Int /\ i - 1 \in Int /\ \A j \in 1..(i - 1) : j \in 1..Len(s)
      BY <2>2
    <3>2. \A j \in 1..(i - 1) : s[j] \in S
      BY <3>1, ElementOfSeq
    <3> QED BY <3>1, <3>2, SubSeqProperties
  <2>4. SubSeq(s, i + 1, Len(s)) \in Seq(S)
    <3>1. i + 1 \in Int /\ Len(s) \in Int /\ \A j \in (i + 1)..Len(s) : j \in 1..Len(s)
      BY <2>2
    <3>2. \A j \in (i + 1)..Len(s) : s[j] \in S
      BY <3>1, ElementOfSeq
    <3> QED BY <3>1, <3>2, SubSeqProperties
  <2> QED BY <2>1, <2>3, <2>4, ConcatProperties
<1> QED BY <1>1, <1>2

-----------------------------------------------------------------------------
(* The format of the samples.                                              *)

Chunk == [id : {"fmt", "data", "other"}, size : Nat, rate : Nat]

Begin(r, f, i) == IF i = 1 THEN 12 ELSE f[i - 1] + Extent(r.chunks[i - 1].size)

(* The parts of a response.                                                *)
LEMMA ResponseIs ==
    ASSUME NEW r \in Response
    PROVE  /\ r.riff \in BOOLEAN /\ r.wave \in BOOLEAN /\ r.length \in Nat
           /\ r.chunks \in Seq(Chunk) /\ Len(r.chunks) \in Nat
           /\ DOMAIN r.chunks = 1..Len(r.chunks)
           /\ \A i \in 1..Len(r.chunks) :
                 /\ r.chunks[i] \in Chunk /\ r.chunks[i].size \in Nat /\ r.chunks[i].rate \in Nat
                 /\ r.chunks[i].id \in {"fmt", "data", "other"}
<1>1. /\ r.riff \in BOOLEAN /\ r.wave \in BOOLEAN /\ r.length \in Nat
      /\ r.chunks \in Seq(Chunk)
  BY DEF Response, Chunk
<1>2. Len(r.chunks) \in Nat /\ DOMAIN r.chunks = 1..Len(r.chunks)
      /\ \A i \in 1..Len(r.chunks) : r.chunks[i] \in Chunk
  BY <1>1, LenProperties, ElementOfSeq
<1>3. \A c \in Chunk : c.size \in Nat /\ c.rate \in Nat /\ c.id \in {"fmt", "data", "other"}
  BY DEF Chunk
<1> QED BY <1>1, <1>2, <1>3

(* A chunk is no shorter than its header.                                  *)
LEMMA ExtentIs == \A size \in Nat : Extent(size) \in Nat /\ Extent(size) >= 8
BY DEF Extent

(* The recursion of Offsets has a solution.                                *)
LEMMA OffsetsAre ==
    ASSUME NEW r \in Response
    PROVE  \A i \in 1..(Len(r.chunks) + 1) : Offset(r, i) = Begin(r, Offsets(r), i)
<1> DEFINE n == Len(r.chunks)
           T == {m \in Nat : m <= n => \E f : f = [i \in 1..(m + 1) |-> Begin(r, f, i)]}
<1>0. n \in Nat
  BY ResponseIs
<1> HIDE DEF n
<1>1. 0 \in T
  <2> DEFINE g == [i \in 1..(0 + 1) |-> 12]
  <2>1. ASSUME NEW i \in 1..(0 + 1) PROVE g[i] = Begin(r, g, i)
    <3>1. i = 1
      OBVIOUS
    <3> QED BY <3>1 DEF Begin
  <2>2. g = [i \in 1..(0 + 1) |-> Begin(r, g, i)]
    BY <2>1
  <2> QED BY <2>2
<1>2. ASSUME NEW m \in Nat, m \in T PROVE m + 1 \in T
  <2> SUFFICES ASSUME m + 1 <= n PROVE \E f : f = [i \in 1..((m + 1) + 1) |-> Begin(r, f, i)]
    OBVIOUS
  <2>1. PICK f : f = [i \in 1..(m + 1) |-> Begin(r, f, i)]
    BY <1>0, <1>2
  <2> DEFINE g == [i \in 1..((m + 1) + 1) |-> IF i \in 1..(m + 1) THEN f[i] ELSE Begin(r, f, i)]
  <2>2. \A i \in 1..(m + 1) : g[i] = f[i]
    OBVIOUS
  <2>3. ASSUME NEW i \in 1..((m + 1) + 1) PROVE g[i] = Begin(r, g, i)
    <3>1. g[i] = Begin(r, f, i)
      BY <2>1
    <3>2. i = 1 \/ i - 1 \in 1..(m + 1)
      OBVIOUS
    <3>3. i = 1 \/ g[i - 1] = f[i - 1]
      BY <2>2, <3>2
    <3> HIDE DEF g
    <3> QED BY <3>1, <3>3 DEF Begin
  <2>4. g = [i \in 1..((m + 1) + 1) |-> Begin(r, g, i)]
    BY <2>3
  <2> QED BY <2>4
<1>3. n \in T
  <2> HIDE DEF T
  <2> QED BY <1>0, <1>1, <1>2, Induct
<1>4. \E f : f = [i \in 1..(n + 1) |-> Begin(r, f, i)]
  BY <1>0, <1>3
<1>5. Offsets(r) = CHOOSE f : f = [i \in 1..(n + 1) |-> Begin(r, f, i)]
  BY DEF Offsets, Begin, n
<1>6. Offsets(r) = [i \in 1..(n + 1) |-> Begin(r, Offsets(r), i)]
  BY <1>4, <1>5
<1>7. \A i \in 1..(n + 1) : Offsets(r)[i] = Begin(r, Offsets(r), i)
  BY <1>6
<1> QED BY <1>7 DEF n, Offset

(* A chunk begins where the one before ends, and that is further on.       *)
LEMMA OffsetsGrow ==
    ASSUME NEW r \in Response
    PROVE  /\ Offset(r, 1) = 12
           /\ \A i \in 1..(Len(r.chunks) + 1) : Offset(r, i) \in Nat
           /\ \A i \in 1..Len(r.chunks) :
                 /\ Offset(r, i + 1) = NextOffset(Offset(r, i), r.chunks[i].size)
                 /\ Offset(r, i + 1) >= Offset(r, i) + 8
           /\ \A i, j \in 1..(Len(r.chunks) + 1) : i < j => Offset(r, i) < Offset(r, j)
<1> DEFINE n == Len(r.chunks)
           Off(i) == Offset(r, i)
<1>0. n \in Nat /\ 1 \in 1..(n + 1) /\ \A i \in 1..n : r.chunks[i].size \in Nat
  BY ResponseIs
<1>1. Off(1) = 12
  BY <1>0, OffsetsAre DEF Begin
<1>2. ASSUME NEW i \in 1..n PROVE Off(i + 1) = Off(i) + Extent(r.chunks[i].size)
  <2>1. i + 1 \in 1..(n + 1) /\ i + 1 # 1 /\ (i + 1) - 1 = i
    BY <1>0
  <2>2. Off(i + 1) = Begin(r, Offsets(r), i + 1)
    BY <2>1, OffsetsAre
  <2> QED BY <2>1, <2>2 DEF Begin, Offset
<1> HIDE DEF Off, n
<1> DEFINE T == {m \in Nat : m <= n => Off(m + 1) \in Nat}
<1>3. 0 \in T
  BY <1>1
<1>4. ASSUME NEW m \in Nat, m \in T PROVE m + 1 \in T
  <2> SUFFICES ASSUME m + 1 <= n PROVE Off((m + 1) + 1) \in Nat
    OBVIOUS
  <2>1. m + 1 \in 1..n /\ Off(m + 1) \in Nat
    BY <1>0, <1>4
  <2> QED BY <1>0, <1>2, <2>1, ExtentIs
<1>5. \A m \in Nat : m \in T
  <2> HIDE DEF T
  <2> QED BY <1>3, <1>4, Induct
<1>6. \A i \in 1..(n + 1) : Off(i) \in Nat
  <2> SUFFICES ASSUME NEW i \in 1..(n + 1) PROVE Off(i) \in Nat
    OBVIOUS
  <2>1. i - 1 \in Nat /\ i - 1 <= n /\ (i - 1) + 1 = i
    BY <1>0
  <2>2. i - 1 \in T
    <3> HIDE DEF T
    <3> QED BY <1>5, <2>1
  <2> QED BY <2>1, <2>2
<1>7. ASSUME NEW i \in 1..n
      PROVE  Off(i + 1) = NextOffset(Off(i), r.chunks[i].size) /\ Off(i + 1) >= Off(i) + 8
  <2>1. PICK o \in Nat : o = Off(i)
    BY <1>0, <1>6
  <2>2. PICK s \in Nat : s = r.chunks[i].size
    BY <1>0
  <2>3. Off(i + 1) = o + Extent(s)
    BY <1>2, <2>1, <2>2
  <2>4. o + Extent(s) = NextOffset(o, s) /\ o + Extent(s) >= o + 8
    BY DEF Extent, NextOffset
  <2> QED BY <2>1, <2>2, <2>3, <2>4
<1>8. ASSUME NEW i \in 1..(n + 1) PROVE \A j \in 1..(n + 1) : i < j => Off(i) < Off(j)
  <2> DEFINE U == {m \in Nat : i + m + 1 <= n + 1 => Off(i) < Off(i + m + 1)}
  <2>0. i \in Nat /\ Off(i) \in Nat
    BY <1>0, <1>6
  <2>1. 0 \in U
    <3> SUFFICES ASSUME i + 0 + 1 <= n + 1 PROVE Off(i) < Off(i + 0 + 1)
      OBVIOUS
    <3>1. i \in 1..n /\ i + 0 + 1 = i + 1 /\ i + 1 \in 1..(n + 1)
      BY <1>0, <2>0
    <3>2. Off(i + 1) >= Off(i) + 8 /\ Off(i + 1) \in Nat
      BY <1>6, <1>7, <3>1
    <3> QED BY <2>0, <3>1, <3>2
  <2>2. ASSUME NEW m \in Nat, m \in U PROVE m + 1 \in U
    <3> SUFFICES ASSUME i + (m + 1) + 1 <= n + 1 PROVE Off(i) < Off(i + (m + 1) + 1)
      OBVIOUS
    <3>1. PICK k \in 1..n : k = i + m + 1 /\ k + 1 = i + (m + 1) + 1 /\ k \in 1..(n + 1) /\ k + 1 \in 1..(n + 1)
      BY <1>0, <2>0
    <3>2. Off(i) < Off(k)
      BY <2>2, <3>1
    <3>3. Off(k + 1) >= Off(k) + 8 /\ Off(k) \in Nat /\ Off(k + 1) \in Nat
      BY <1>6, <1>7, <3>1
    <3> QED BY <2>0, <3>1, <3>2, <3>3
  <2>3. \A m \in Nat : m \in U
    <3> HIDE DEF U
    <3> QED BY <2>1, <2>2, Induct
  <2> SUFFICES ASSUME NEW j \in 1..(n + 1), i < j PROVE Off(i) < Off(j)
    OBVIOUS
  <2>4. PICK m \in Nat : m = j - i - 1 /\ i + m + 1 = j /\ i + m + 1 <= n + 1
    BY <1>0, <2>0
  <2>5. m \in U
    <3> HIDE DEF U
    <3> QED BY <2>3
  <2> QED BY <2>4, <2>5
<1> QED BY <1>1, <1>6, <1>7, <1>8 DEF Off, n

(* The chunks that begin at o, and what the loop makes of the one there if *)
(* it goes on as in f.                                                     *)
StartAt(r, o) == {i \in DOMAIN r.chunks : Offset(r, i) = o}

Look(r, f, o, rate) ==
    IF o + 8 > r.length \/ StartAt(r, o) = {} THEN Incomplete
    ELSE LET c    == r.chunks[CHOOSE i \in StartAt(r, o) : TRUE]
             next == NextOffset(o, c.size) IN
         CASE c.id = "data" /\ rate # NoRate -> Pcm(rate)
           [] c.id = "data" /\ rate = NoRate -> Invalid
           [] c.id = "fmt" /\ c.size < 16    -> Invalid
           [] OTHER ->
                IF next > r.length THEN Incomplete
                ELSE IF c.id # "fmt" THEN f[next][rate]
                ELSE IF c.rate = NoRate THEN Invalid
                ELSE f[next][c.rate]

Looked(r, f, o) == [rate \in Nat |-> Look(r, f, o, rate)]

(* The loop goes on behind o only.                                         *)
LEMMA LookOnwards ==
    ASSUME NEW r \in Response, NEW o \in 0..r.length, NEW f, NEW g,
           \A p \in (o + 1)..r.length : f[p] = g[p]
    PROVE  Looked(r, f, o) = Looked(r, g, o)
<1> SUFFICES ASSUME NEW rate \in Nat PROVE Look(r, f, o, rate) = Look(r, g, o, rate)
  BY DEF Looked
<1>0. o \in Nat /\ r.length \in Nat
  BY ResponseIs
<1>1. CASE o + 8 > r.length \/ StartAt(r, o) = {}
  BY <1>1 DEF Look
<1>2. CASE ~(o + 8 > r.length \/ StartAt(r, o) = {})
  <2> DEFINE c == r.chunks[CHOOSE i \in StartAt(r, o) : TRUE]
             next == NextOffset(o, c.size)
  <2>1. c.size \in Nat /\ c.rate \in Nat
    <3>1. (CHOOSE i \in StartAt(r, o) : TRUE) \in StartAt(r, o)
      BY <1>2
    <3>2. (CHOOSE i \in StartAt(r, o) : TRUE) \in 1..Len(r.chunks)
      BY <3>1, ResponseIs DEF StartAt
    <3> QED BY <3>2, ResponseIs
  <2>2. next \in Nat /\ next >= o + 1
    <3> DEFINE size == c.size
    <3>1. size \in Nat
      BY <2>1
    <3> HIDE DEF size
    <3>2. NextOffset(o, size) \in Nat /\ NextOffset(o, size) >= o + 1
      BY <1>0, <3>1 DEF NextOffset
    <3> QED BY <3>2 DEF size
  <2>3. \A h : Look(r, h, o, rate) =
          CASE c.id = "data" /\ rate # NoRate -> Pcm(rate)
            [] c.id = "data" /\ rate = NoRate -> Invalid
            [] c.id = "fmt" /\ c.size < 16    -> Invalid
            [] OTHER ->
                 IF next > r.length THEN Incomplete
                 ELSE IF c.id # "fmt" THEN h[next][rate]
                 ELSE IF c.rate = NoRate THEN Invalid
                 ELSE h[next][c.rate]
    BY <1>2 DEF Look
  <2> HIDE DEF next
  <2>4. ~(next > r.length) => f[next] = g[next]
    <3>1. ~(next > r.length) => next \in (o + 1)..r.length
      BY <1>0, <2>2
    <3> QED BY <3>1
  <2> HIDE DEF c
  <2> QED BY <2>3, <2>4
<1> QED BY <1>1, <1>2

(* The recursion of Scan has a solution.                                   *)
LEMMA ScanIs ==
    ASSUME NEW r \in Response
    PROVE  \A o \in 0..r.length, rate \in Nat : Scan(r)[o][rate] = Look(r, Scan(r), o, rate)
<1> DEFINE L == r.length
<1>0. L \in Nat
  BY ResponseIs
<1> HIDE DEF L
<1> DEFINE From(n) == (L + 1 - n)..L
           T == {n \in Nat : n <= L + 1 => \E f : f = [o \in From(n) |-> Looked(r, f, o)]}
<1>1. 0 \in T
  <2>1. From(0) = {}
    BY <1>0
  <2> DEFINE g == [o \in From(0) |-> 0]
  <2>2. g = [o \in From(0) |-> Looked(r, g, o)]
    BY <2>1
  <2> QED BY <2>2
<1>2. ASSUME NEW n \in Nat, n \in T PROVE n + 1 \in T
  <2> SUFFICES ASSUME n + 1 <= L + 1 PROVE \E f : f = [o \in From(n + 1) |-> Looked(r, f, o)]
    OBVIOUS
  <2>1. PICK f : f = [o \in From(n) |-> Looked(r, f, o)]
    BY <1>0, <1>2
  <2> DEFINE g == [o \in From(n + 1) |-> IF o \in From(n) THEN f[o] ELSE Looked(r, f, o)]
  <2>2. \A o \in From(n) : g[o] = f[o]
    <3>1. \A o \in From(n) : o \in From(n + 1)
      BY <1>0
    <3> QED BY <3>1
  <2>3. ASSUME NEW o \in From(n + 1) PROVE g[o] = Looked(r, g, o)
    <3>1. g[o] = Looked(r, f, o)
      BY <2>1
    <3>2. \A p \in (o + 1)..L : p \in From(n)
      BY <1>0
    <3>3. o \in 0..L
      BY <1>0
    <3> HIDE DEF g
    <3>4. \A p \in (o + 1)..r.length : g[p] = f[p]
      BY <2>2, <3>2 DEF L
    <3>5. o \in 0..r.length
      BY <3>3 DEF L
    <3> QED BY <3>1, <3>4, <3>5, LookOnwards
  <2>4. g = [o \in From(n + 1) |-> Looked(r, g, o)]
    BY <2>3
  <2> QED BY <2>4
<1>3. L + 1 \in T
  <2> HIDE DEF T
  <2>1. L + 1 \in Nat
    BY <1>0
  <2> QED BY <1>1, <1>2, <2>1, Induct
<1>4. From(L + 1) = 0..L
  BY <1>0
<1>5. \E f : f = [o \in 0..L |-> Looked(r, f, o)]
  <2>1. L + 1 <= L + 1
    BY <1>0
  <2>2. \E f : f = [o \in From(L + 1) |-> Looked(r, f, o)]
    BY <1>3, <2>1
  <2> QED BY <1>4, <2>2
<1>6. Scan(r) = CHOOSE f : f = [o \in 0..L |-> Looked(r, f, o)]
  BY DEF Scan, Look, Looked, StartAt, L
<1>7. Scan(r) = [o \in 0..L |-> Looked(r, Scan(r), o)]
  BY <1>5, <1>6
<1>8. \A o \in 0..L : Scan(r)[o] = Looked(r, Scan(r), o)
  BY <1>7
<1> QED BY <1>8 DEF L, Looked

(* The format chunks before i, and the rate that they leave.               *)
FormatsBefore(r, i) == {k \in DOMAIN r.chunks : r.chunks[k].id = "fmt" /\ k < i}

RateBefore(r, i) ==
    IF FormatsBefore(r, i) = {} THEN NoRate ELSE r.chunks[Max(FormatsBefore(r, i))].rate

(* The loop gets to the chunk i: nothing before it ends the search.        *)
Reached(r, i) ==
    /\ Offset(r, i) <= r.length
    /\ \A k \in DOMAIN r.chunks : k < i => r.chunks[k].id # "data"
    /\ \A k \in FormatsBefore(r, i) : r.chunks[k].size >= 16 /\ r.chunks[k].rate # NoRate

(* A chunk that is reached has a rate just if a format came before it.     *)
LEMMA RateBeforeIs ==
    ASSUME NEW r \in Response, NEW i \in 1..(Len(r.chunks) + 1)
    PROVE  /\ RateBefore(r, i) \in Nat
           /\ Reached(r, i) => (RateBefore(r, i) = NoRate <=> FormatsBefore(r, i) = {})
<1>1. CASE FormatsBefore(r, i) = {}
  BY <1>1 DEF RateBefore, NoRate
<1>2. CASE FormatsBefore(r, i) # {}
  <2> DEFINE F == FormatsBefore(r, i)
  <2>1. F \in SUBSET (0..Len(r.chunks)) /\ Len(r.chunks) \in Nat
    BY ResponseIs DEF FormatsBefore
  <2>2. Max(F) \in F
    <3> HIDE DEF F
    <3>1. F # {}
      BY <1>2 DEF F
    <3> QED BY <2>1, <3>1, MaxIsGreatest
  <2>3. Max(F) \in 1..Len(r.chunks)
    BY <2>2, ResponseIs DEF FormatsBefore
  <2>4. r.chunks[Max(F)].rate \in Nat
    <3> HIDE DEF F
    <3> QED BY <2>3, ResponseIs
  <2> QED BY <1>2, <2>2, <2>4 DEF RateBefore, Reached
<1> QED BY <1>1, <1>2

(* At the beginning of a chunk the loop looks at that chunk.               *)
LEMMA LookAtChunk ==
    ASSUME NEW r \in Response, NEW i \in 1..Len(r.chunks), NEW rate \in Nat, Offset(r, i) <= r.length
    PROVE  Scan(r)[Offset(r, i)][rate] =
              IF Offset(r, i) + 8 > r.length THEN Incomplete
              ELSE CASE r.chunks[i].id = "data" /\ rate # NoRate -> Pcm(rate)
                     [] r.chunks[i].id = "data" /\ rate = NoRate -> Invalid
                     [] r.chunks[i].id = "fmt" /\ r.chunks[i].size < 16 -> Invalid
                     [] OTHER ->
                          IF Offset(r, i + 1) > r.length THEN Incomplete
                          ELSE IF r.chunks[i].id # "fmt" THEN Scan(r)[Offset(r, i + 1)][rate]
                          ELSE IF r.chunks[i].rate = NoRate THEN Invalid
                          ELSE Scan(r)[Offset(r, i + 1)][r.chunks[i].rate]
<1>1. i \in 1..(Len(r.chunks) + 1) /\ i \in DOMAIN r.chunks /\ DOMAIN r.chunks = 1..Len(r.chunks)
      /\ r.length \in Nat
  BY ResponseIs
<1>2. Offset(r, i) \in 0..r.length /\ Offset(r, i + 1) = NextOffset(Offset(r, i), r.chunks[i].size)
  BY <1>1, OffsetsGrow
<1>3. \A j \in 1..Len(r.chunks) : Offset(r, j) = Offset(r, i) => j = i
  <2> SUFFICES ASSUME NEW j \in 1..Len(r.chunks), Offset(r, j) = Offset(r, i), j # i PROVE FALSE
    OBVIOUS
  <2>1. j \in 1..(Len(r.chunks) + 1) /\ (i < j \/ j < i)
    BY <1>1, ResponseIs
  <2>2. Offset(r, i) < Offset(r, j) \/ Offset(r, j) < Offset(r, i)
    BY <1>1, <2>1, OffsetsGrow
  <2> QED BY <1>2, <2>2
<1>4. StartAt(r, Offset(r, i)) = {i}
  BY <1>1, <1>3 DEF StartAt
<1>5. (CHOOSE k \in StartAt(r, Offset(r, i)) : TRUE) = i /\ StartAt(r, Offset(r, i)) # {}
  BY <1>4
<1>6. Scan(r)[Offset(r, i)][rate] = Look(r, Scan(r), Offset(r, i), rate)
  BY <1>2, ScanIs
<1> QED BY <1>2, <1>5, <1>6 DEF Look

(* The chunks that the loop reaches one after the other.                   *)
LEMMA ReachedNext ==
    ASSUME NEW r \in Response, NEW i \in 1..Len(r.chunks), Reached(r, i + 1)
    PROVE  /\ Reached(r, i)
           /\ Scan(r)[Offset(r, i)][RateBefore(r, i)] = Scan(r)[Offset(r, i + 1)][RateBefore(r, i + 1)]
<1>0. /\ i \in 1..(Len(r.chunks) + 1) /\ i + 1 \in 1..(Len(r.chunks) + 1) /\ Len(r.chunks) \in Nat
      /\ DOMAIN r.chunks = 1..Len(r.chunks) /\ r.length \in Nat
  BY ResponseIs
<1>1. /\ Offset(r, i) \in Nat /\ Offset(r, i + 1) \in Nat
      /\ Offset(r, i) + 8 <= Offset(r, i + 1) /\ Offset(r, i + 1) <= r.length
  BY <1>0, OffsetsGrow DEF Reached
<1>2. FormatsBefore(r, i + 1) =
        FormatsBefore(r, i) \cup (IF r.chunks[i].id = "fmt" THEN {i} ELSE {})
  BY <1>0 DEF FormatsBefore
<1>3. Reached(r, i)
  BY <1>0, <1>1, <1>2 DEF Reached
<1>4. r.chunks[i].id # "data"
  BY <1>0 DEF Reached
<1>5. RateBefore(r, i) \in Nat
  BY <1>0, RateBeforeIs
<1>6. Offset(r, i) <= r.length /\ ~(Offset(r, i) + 8 > r.length) /\ ~(Offset(r, i + 1) > r.length)
  BY <1>0, <1>1
<1>7. CASE r.chunks[i].id = "fmt"
  <2>1. i \in FormatsBefore(r, i + 1)
    BY <1>2, <1>7
  <2>2. r.chunks[i].size >= 16 /\ r.chunks[i].rate # NoRate /\ r.chunks[i].size \in Nat
    BY <2>1, ResponseIs DEF Reached
  <2>3. Max(FormatsBefore(r, i + 1)) = i
    <3> DEFINE F == FormatsBefore(r, i + 1)
    <3>1. F \in SUBSET (0..Len(r.chunks)) /\ F # {} /\ i \in F /\ \A k \in F : k <= i
      BY <1>0, <2>1 DEF FormatsBefore
    <3> HIDE DEF F
    <3>2. Max(F) \in F /\ \A k \in F : k <= Max(F)
      BY <1>0, <3>1, MaxIsGreatest
    <3>3. PICK x \in 0..Len(r.chunks) : x = Max(F)
      BY <3>1, <3>2
    <3>4. x <= i /\ i <= x
      BY <3>1, <3>2, <3>3
    <3> QED BY <1>0, <3>3, <3>4 DEF F
  <2>4. RateBefore(r, i + 1) = r.chunks[i].rate
    BY <2>1, <2>3 DEF RateBefore
  <2>5. ~(r.chunks[i].size < 16)
    BY <2>2
  <2>6. Scan(r)[Offset(r, i)][RateBefore(r, i)] = Scan(r)[Offset(r, i + 1)][r.chunks[i].rate]
    BY <1>4, <1>5, <1>6, <1>7, <2>2, <2>5, LookAtChunk
  <2> QED BY <1>3, <2>4, <2>6
<1>8. CASE r.chunks[i].id # "fmt"
  <2>1. RateBefore(r, i + 1) = RateBefore(r, i)
    BY <1>2, <1>8 DEF RateBefore
  <2>2. Scan(r)[Offset(r, i)][RateBefore(r, i)] = Scan(r)[Offset(r, i + 1)][RateBefore(r, i)]
    BY <1>4, <1>5, <1>6, <1>8, LookAtChunk
  <2> QED BY <1>3, <2>1, <2>2
<1> QED BY <1>7, <1>8

(* The search goes on at every chunk that it reaches.                      *)
LEMMA ScanReaches ==
    ASSUME NEW r \in Response, NEW i \in 1..(Len(r.chunks) + 1), Reached(r, i)
    PROVE  Scan(r)[12][NoRate] = Scan(r)[Offset(r, i)][RateBefore(r, i)]
<1> DEFINE n == Len(r.chunks)
           T == {m \in Nat : m <= n /\ Reached(r, m + 1) =>
                    Scan(r)[12][NoRate] = Scan(r)[Offset(r, m + 1)][RateBefore(r, m + 1)]}
<1>0. n \in Nat /\ DOMAIN r.chunks = 1..n
  BY ResponseIs
<1>1. 0 \in T
  <2>1. Offset(r, 0 + 1) = 12
    BY OffsetsGrow
  <2>2. FormatsBefore(r, 0 + 1) = {}
    BY <1>0 DEF FormatsBefore
  <2>3. RateBefore(r, 0 + 1) = NoRate
    BY <2>2 DEF RateBefore
  <2> QED BY <2>1, <2>3
<1>2. ASSUME NEW m \in Nat, m \in T PROVE m + 1 \in T
  <2> SUFFICES ASSUME m + 1 <= n, Reached(r, (m + 1) + 1)
               PROVE  Scan(r)[12][NoRate] =
                        Scan(r)[Offset(r, (m + 1) + 1)][RateBefore(r, (m + 1) + 1)]
    OBVIOUS
  <2>1. m + 1 \in 1..n /\ m <= n
    BY <1>0
  <2>2. /\ Reached(r, m + 1)
        /\ Scan(r)[Offset(r, m + 1)][RateBefore(r, m + 1)] =
              Scan(r)[Offset(r, (m + 1) + 1)][RateBefore(r, (m + 1) + 1)]
    BY <2>1, ReachedNext
  <2> QED BY <1>2, <2>1, <2>2
<1>3. \A m \in Nat : m \in T
  <2> HIDE DEF T
  <2> QED BY <1>1, <1>2, Induct
<1>4. i - 1 \in Nat /\ i - 1 <= n /\ (i - 1) + 1 = i
  BY <1>0
<1>5. i - 1 \in T
  <2> HIDE DEF T
  <2> QED BY <1>3, <1>4
<1> QED BY <1>4, <1>5

(* The search ends at the last chunk that it reaches.                      *)
LEMMA LastReached ==
    ASSUME NEW r \in Response, 12 <= r.length
    PROVE  \E i \in 1..(Len(r.chunks) + 1) :
              Reached(r, i) /\ (i <= Len(r.chunks) => ~Reached(r, i + 1))
<1> DEFINE n == Len(r.chunks)
           I == {i \in 1..(n + 1) : Reached(r, i)}
<1>0. n \in Nat /\ DOMAIN r.chunks = 1..n /\ n + 1 \in Nat
  BY ResponseIs
<1>1. 1 \in I
  <2>1. Offset(r, 1) = 12 /\ FormatsBefore(r, 1) = {} /\ 1 \in 1..(n + 1)
    BY <1>0, OffsetsGrow DEF FormatsBefore
  <2> QED BY <1>0, <2>1 DEF Reached
<1>2. I \in SUBSET (0..(n + 1)) /\ I # {}
  BY <1>0, <1>1
<1>3. Max(I) \in I /\ \A i \in I : i <= Max(I)
  <2> HIDE DEF I, n
  <2> QED BY <1>0, <1>2, MaxIsGreatest
<1>4. Max(I) \in 1..(n + 1) /\ Reached(r, Max(I))
  BY <1>3
<1>5. Max(I) <= n => ~Reached(r, Max(I) + 1)
  <2> SUFFICES ASSUME Max(I) <= n, Reached(r, Max(I) + 1) PROVE FALSE
    OBVIOUS
  <2>1. PICK x \in 1..(n + 1) : x = Max(I)
    <3> HIDE DEF I
    <3> QED BY <1>4
  <2>2. x + 1 \in I
    BY <1>0, <1>4, <2>1
  <2>3. x + 1 <= x
    BY <1>3, <2>1, <2>2
  <2> QED BY <2>3
<1> QED BY <1>4, <1>5

(* What the response says, by its first data chunk.                        *)
LEMMA AnnouncedIs ==
    ASSUME NEW r \in Response
    PROVE  /\ (\A k \in DOMAIN r.chunks : r.chunks[k].id # "data") => Announced(r) = NoRate
           /\ \A d \in DOMAIN r.chunks :
                 r.chunks[d].id = "data" /\ (\A k \in DOMAIN r.chunks : k < d => r.chunks[k].id # "data")
                 => Announced(r) =
                      IF /\ r.riff /\ r.wave /\ Offset(r, d) + 8 <= r.length
                         /\ FormatsBefore(r, d) # {}
                         /\ \A i \in FormatsBefore(r, d) : r.chunks[i].size >= 16 /\ r.chunks[i].rate # NoRate
                      THEN RateBefore(r, d) ELSE NoRate
<1> DEFINE ids(id) == {i \in DOMAIN r.chunks : r.chunks[i].id = id}
<1>1. ASSUME \A k \in DOMAIN r.chunks : r.chunks[k].id # "data" PROVE Announced(r) = NoRate
  <2>1. ids("data") = {}
    BY <1>1
  <2> QED BY <2>1 DEF Announced
<1>2. ASSUME NEW d \in DOMAIN r.chunks, r.chunks[d].id = "data",
             \A k \in DOMAIN r.chunks : k < d => r.chunks[k].id # "data"
      PROVE  Announced(r) =
               IF /\ r.riff /\ r.wave /\ Offset(r, d) + 8 <= r.length
                  /\ FormatsBefore(r, d) # {}
                  /\ \A i \in FormatsBefore(r, d) : r.chunks[i].size >= 16 /\ r.chunks[i].rate # NoRate
               THEN RateBefore(r, d) ELSE NoRate
  <2>1. DOMAIN r.chunks = 1..Len(r.chunks) /\ Len(r.chunks) \in Nat
    BY ResponseIs
  <2>2. Min(ids("data")) = d /\ ids("data") # {}
    <3> DEFINE D == ids("data")
    <3>1. D \in SUBSET Nat /\ d \in D /\ \A k \in D : ~(k < d)
      BY <1>2, <2>1
    <3> HIDE DEF D
    <3>2. Min(D) \in D /\ Min(D) <= d
      BY <3>1, MinIsLeast
    <3>3. PICK x \in Nat : x = Min(D)
      BY <3>1, <3>2
    <3>4. x <= d /\ ~(x < d) /\ d \in Nat
      BY <3>1, <3>2, <3>3
    <3>5. x = d
      BY <3>4
    <3> QED BY <3>1, <3>3, <3>5 DEF D
  <2>3. {i \in ids("fmt") : i < d} = FormatsBefore(r, d)
    BY DEF FormatsBefore
  <2>4. Announced(r) =
          LET data    == Min(ids("data"))
              formats == {i \in ids("fmt") : i < data} IN
          IF /\ r.riff /\ r.wave
             /\ ids("data") # {} /\ Offset(r, data) + 8 <= r.length
             /\ formats # {}
             /\ \A i \in formats : r.chunks[i].size >= 16 /\ r.chunks[i].rate # NoRate
          THEN r.chunks[Max(formats)].rate
          ELSE NoRate
    BY DEF Announced
  <2> HIDE DEF ids
  <2> QED BY <2>2, <2>3, <2>4 DEF RateBefore
<1> QED BY <1>1, <1>2

(* The verdict on the chunks.                                              *)
LEMMA ScanFinds ==
    ASSUME NEW r \in Response, 12 <= r.length, r.riff, r.wave
    PROVE  LET found == Scan(r)[12][NoRate] IN
           /\ found.rate \in Nat
           /\ found.verdict = "pcm" => found.rate = Announced(r) /\ found.rate # NoRate
           /\ found.verdict # "pcm" => Announced(r) = NoRate
<1> DEFINE n == Len(r.chunks)
           found == Scan(r)[12][NoRate]
<1>0. n \in Nat /\ DOMAIN r.chunks = 1..n /\ r.length \in Nat
  BY ResponseIs
<1>1. PICK i \in 1..(n + 1) : Reached(r, i) /\ (i <= n => ~Reached(r, i + 1))
  BY LastReached
<1> DEFINE rate == RateBefore(r, i)
<1>2. /\ rate \in Nat
      /\ rate = NoRate <=> FormatsBefore(r, i) = {}
      /\ found = Scan(r)[Offset(r, i)][rate]
  BY <1>1, RateBeforeIs, ScanReaches
<1>3. /\ Offset(r, i) \in Nat /\ Offset(r, i) <= r.length
      /\ \A j \in DOMAIN r.chunks : Offset(r, j) \in Nat /\ (i < j => Offset(r, i) < Offset(r, j))
      /\ \A k \in DOMAIN r.chunks : k < i => r.chunks[k].id # "data"
      /\ \A k \in FormatsBefore(r, i) : r.chunks[k].size >= 16 /\ r.chunks[k].rate # NoRate
  BY <1>0, <1>1, OffsetsGrow DEF Reached
<1>4. NoRate \in Nat /\ NoRate = 0
  BY DEF NoRate
<1>5. /\ Incomplete.verdict # "pcm" /\ Incomplete.rate = NoRate
      /\ Invalid.verdict # "pcm" /\ Invalid.rate = NoRate
      /\ Pcm(rate).verdict = "pcm" /\ Pcm(rate).rate = rate
  BY DEF Incomplete, Invalid, Pcm
<1> HIDE DEF rate, found
<1>6. CASE i = n + 1
  <2>1. \A k \in DOMAIN r.chunks : r.chunks[k].id # "data"
    BY <1>0, <1>3, <1>6
  <2>2. Announced(r) = NoRate
    BY <2>1, AnnouncedIs
  <2>3. found = Incomplete
    <3>1. \A k \in DOMAIN r.chunks : Offset(r, k) < Offset(r, i)
      <4> SUFFICES ASSUME NEW k \in 1..n PROVE Offset(r, k) < Offset(r, i)
        BY <1>0
      <4>1. k \in 1..(n + 1) /\ i \in 1..(n + 1) /\ k < i
        BY <1>0, <1>6
      <4> QED BY <4>1, OffsetsGrow
    <3>2. \A k \in DOMAIN r.chunks : Offset(r, k) # Offset(r, i)
      BY <1>3, <3>1
    <3>3. StartAt(r, Offset(r, i)) = {}
      BY <3>2 DEF StartAt
    <3>4. Offset(r, i) \in 0..r.length
      BY <1>0, <1>3
    <3>5. found = Look(r, Scan(r), Offset(r, i), rate)
      BY <1>2, <3>4, ScanIs
    <3> QED BY <3>3, <3>5 DEF Look
  <2> QED BY <1>4, <1>5, <2>2, <2>3 DEF found
<1>7. CASE i \in 1..n
  <2> DEFINE c == r.chunks[i]
  <2>1. i \in DOMAIN r.chunks /\ c.size \in Nat /\ c.rate \in Nat /\ ~Reached(r, i + 1)
    BY <1>0, <1>1, <1>7, ResponseIs
  <2>2. /\ Offset(r, i + 1) \in Nat
        /\ \A j \in DOMAIN r.chunks : i < j => Offset(r, i + 1) <= Offset(r, j)
    <3>1. i + 1 \in 1..(n + 1)
      BY <1>0, <1>7
    <3>2. Offset(r, i + 1) \in Nat
      BY <3>1, OffsetsGrow
    <3>3. ASSUME NEW j \in DOMAIN r.chunks, i < j PROVE Offset(r, i + 1) <= Offset(r, j)
      <4>1. j \in 1..(n + 1) /\ (j = i + 1 \/ i + 1 < j)
        BY <1>0, <1>7, <3>3
      <4>2. j = i + 1 \/ Offset(r, i + 1) < Offset(r, j)
        BY <3>1, <4>1, OffsetsGrow
      <4> QED BY <1>3, <3>2, <4>2
    <3> QED BY <3>2, <3>3
  <2>3. found =
          IF Offset(r, i) + 8 > r.length THEN Incomplete
          ELSE CASE c.id = "data" /\ rate # NoRate -> Pcm(rate)
                 [] c.id = "data" /\ rate = NoRate -> Invalid
                 [] c.id = "fmt" /\ c.size < 16 -> Invalid
                 [] OTHER ->
                      IF Offset(r, i + 1) > r.length THEN Incomplete
                      ELSE IF c.id # "fmt" THEN Scan(r)[Offset(r, i + 1)][rate]
                      ELSE IF c.rate = NoRate THEN Invalid
                      ELSE Scan(r)[Offset(r, i + 1)][c.rate]
    <3>1. i \in 1..Len(r.chunks)
      BY <1>7
    <3>2. \A q \in Nat : q = rate => Scan(r)[Offset(r, i)][q] =
          IF Offset(r, i) + 8 > r.length THEN Incomplete
          ELSE CASE c.id = "data" /\ q # NoRate -> Pcm(q)
                 [] c.id = "data" /\ q = NoRate -> Invalid
                 [] c.id = "fmt" /\ c.size < 16 -> Invalid
                 [] OTHER ->
                      IF Offset(r, i + 1) > r.length THEN Incomplete
                      ELSE IF c.id # "fmt" THEN Scan(r)[Offset(r, i + 1)][q]
                      ELSE IF c.rate = NoRate THEN Invalid
                      ELSE Scan(r)[Offset(r, i + 1)][c.rate]
      BY <1>3, <3>1, LookAtChunk
    <3> QED BY <1>2, <3>2
  <2>4. FormatsBefore(r, i + 1) = FormatsBefore(r, i) \cup (IF c.id = "fmt" THEN {i} ELSE {})
    BY <1>0, <1>7 DEF FormatsBefore
  <2> DEFINE Data(d) == /\ r.chunks[d].id = "data"
                        /\ \A k \in DOMAIN r.chunks : k < d => r.chunks[k].id # "data"
  <2>5. \A d \in DOMAIN r.chunks : Data(d) => i <= d /\ (c.id # "data" => i < d)
    BY <1>0, <1>3, <1>7
  <2>6. (\A d \in DOMAIN r.chunks : ~Data(d)) => Announced(r) = NoRate
    <3> SUFFICES ASSUME \A d \in DOMAIN r.chunks : ~Data(d),
                        NEW k \in DOMAIN r.chunks, r.chunks[k].id = "data"
                 PROVE  FALSE
      BY AnnouncedIs
    <3> DEFINE D == {d \in DOMAIN r.chunks : r.chunks[d].id = "data"}
    <3>1. D \in SUBSET Nat /\ D # {}
      BY <1>0
    <3>2. Min(D) \in D /\ \A d \in D : Min(D) <= d
      <4> HIDE DEF D
      <4> QED BY <3>1, MinIsLeast
    <3>3. PICK x \in DOMAIN r.chunks : x = Min(D)
      BY <3>2
    <3>4. \A d \in DOMAIN r.chunks : d < x => r.chunks[d].id # "data"
      <4>1. \A d \in D : x <= d
        BY <3>2, <3>3
      <4>2. \A d \in DOMAIN r.chunks : d < x => ~(x <= d)
        BY <1>0
      <4> QED BY <4>1, <4>2
    <3> QED BY <3>2, <3>3, <3>4
  <2>7. \A d \in DOMAIN r.chunks : Data(d) =>
          Announced(r) =
             IF /\ Offset(r, d) + 8 <= r.length
                /\ FormatsBefore(r, d) # {}
                /\ \A k \in FormatsBefore(r, d) : r.chunks[k].size >= 16 /\ r.chunks[k].rate # NoRate
             THEN RateBefore(r, d) ELSE NoRate
    BY AnnouncedIs
  <2> HIDE DEF Data
  <2>8. CASE Offset(r, i) + 8 > r.length
    <3>1. \A d \in DOMAIN r.chunks : Data(d) => ~(Offset(r, d) + 8 <= r.length)
      <4> SUFFICES ASSUME NEW d \in DOMAIN r.chunks, Data(d) PROVE ~(Offset(r, d) + 8 <= r.length)
        OBVIOUS
      <4>1. i = d \/ i < d
        BY <1>0, <2>5
      <4>2. Offset(r, d) \in Nat /\ Offset(r, i) <= Offset(r, d)
        BY <1>3, <4>1
      <4> QED BY <1>0, <1>3, <2>8, <4>2
    <3>2. Announced(r) = NoRate
      BY <2>6, <2>7, <3>1
    <3> QED BY <1>4, <1>5, <2>3, <2>8, <3>2 DEF found
  <2>9. CASE ~(Offset(r, i) + 8 > r.length) /\ c.id = "data"
    <3>1. Data(i)
      BY <1>3, <2>9 DEF Data
    <3>2. Announced(r) = IF FormatsBefore(r, i) # {} THEN rate ELSE NoRate
      <4>1. Offset(r, i) + 8 <= r.length
        BY <1>0, <1>3, <2>9
      <4> QED BY <1>3, <2>1, <2>7, <3>1, <4>1 DEF rate
    <3>3. found = IF rate # NoRate THEN Pcm(rate) ELSE Invalid
      BY <2>3, <2>9
    <3> QED BY <1>2, <1>4, <1>5, <3>2, <3>3 DEF found
  <2>10. CASE ~(Offset(r, i) + 8 > r.length) /\ c.id = "fmt" /\ (c.size < 16 \/ c.rate = NoRate)
    <3>1. \A d \in DOMAIN r.chunks : Data(d) => i \in FormatsBefore(r, d)
      BY <2>1, <2>5, <2>10 DEF FormatsBefore
    <3>2. ~(c.size >= 16 /\ c.rate # NoRate)
      BY <2>1, <2>10
    <3>3. Announced(r) = NoRate
      BY <2>6, <2>7, <3>1, <3>2
    <3>4. found \in {Incomplete, Invalid}
      BY <2>3, <2>10
    <3> QED BY <1>4, <1>5, <3>3, <3>4 DEF found
  <2>11. CASE /\ ~(Offset(r, i) + 8 > r.length) /\ c.id # "data"
              /\ c.id = "fmt" => ~(c.size < 16) /\ c.rate # NoRate
    <3>1. Offset(r, i + 1) > r.length
      <4> SUFFICES ASSUME ~(Offset(r, i + 1) > r.length) PROVE Reached(r, i + 1)
        BY <2>1
      <4>1. Offset(r, i + 1) <= r.length
        BY <1>0, <2>2
      <4>2. \A k \in DOMAIN r.chunks : k < i + 1 => r.chunks[k].id # "data"
        <5>1. \A k \in DOMAIN r.chunks : k < i + 1 => k < i \/ k = i
          BY <1>0, <1>7
        <5> QED BY <1>3, <2>11, <5>1
      <4>3. \A k \in FormatsBefore(r, i + 1) : r.chunks[k].size >= 16 /\ r.chunks[k].rate # NoRate
        <5>1. c.id = "fmt" => c.size >= 16 /\ c.rate # NoRate
          BY <2>1, <2>11
        <5> QED BY <1>3, <2>4, <5>1
      <4> QED BY <4>1, <4>2, <4>3 DEF Reached
    <3>2. \A d \in DOMAIN r.chunks : Data(d) => ~(Offset(r, d) + 8 <= r.length)
      <4> SUFFICES ASSUME NEW d \in DOMAIN r.chunks, Data(d) PROVE ~(Offset(r, d) + 8 <= r.length)
        OBVIOUS
      <4>1. Offset(r, d) \in Nat /\ Offset(r, i + 1) <= Offset(r, d)
        BY <1>3, <2>2, <2>5, <2>11
      <4> QED BY <1>0, <2>2, <3>1, <4>1
    <3>3. Announced(r) = NoRate
      BY <2>6, <2>7, <3>2
    <3>4. found = Incomplete
      BY <2>3, <2>11, <3>1
    <3> QED BY <1>4, <1>5, <3>3, <3>4 DEF found
  <2> QED BY <2>8, <2>9, <2>10, <2>11
<1> QED BY <1>0, <1>6, <1>7

(* The parser's verdict on what arrived is what the response says.         *)
LEMMA FindsTheFormat ==
    ASSUME NEW r \in Response
    PROVE  LET found == FindPcmStart(r) IN
           /\ found.rate \in Nat
           /\ found.verdict = "pcm" => found.rate = Announced(r) /\ found.rate # NoRate
           /\ found.verdict # "pcm" => Announced(r) = NoRate
<1>1. r.length \in Nat /\ r.riff \in BOOLEAN /\ r.wave \in BOOLEAN
  BY ResponseIs
<1>2. CASE 12 <= r.length /\ r.riff /\ r.wave
  <2>1. FindPcmStart(r) = Scan(r)[12][NoRate]
    BY <1>1, <1>2 DEF FindPcmStart
  <2> QED BY <1>2, <2>1, ScanFinds
<1>3. CASE ~(12 <= r.length /\ r.riff /\ r.wave)
  <2>1. FindPcmStart(r) \in {Incomplete, Invalid}
    BY <1>1, <1>3 DEF FindPcmStart
  <2>2. Announced(r) = NoRate
    <3>1. CASE ~r.riff \/ ~r.wave
      BY <3>1 DEF Announced
    <3>2. CASE r.length < 12
      <4>1. ASSUME NEW d \in DOMAIN r.chunks PROVE ~(Offset(r, d) + 8 <= r.length)
        <5>1. /\ d \in 1..(Len(r.chunks) + 1) /\ 1 \in 1..(Len(r.chunks) + 1) /\ (d = 1 \/ 1 < d)
          BY <4>1, ResponseIs
        <5>2. Offset(r, 1) = 12 /\ Offset(r, d) \in Nat /\ (d = 1 \/ Offset(r, 1) < Offset(r, d))
          BY <5>1, OffsetsGrow
        <5> QED BY <1>1, <3>2, <5>2
      <4> DEFINE D == {i \in DOMAIN r.chunks : r.chunks[i].id = "data"}
      <4>2. D # {} => Min(D) \in DOMAIN r.chunks
        <5>1. D \in SUBSET Nat /\ \A d \in D : d \in DOMAIN r.chunks
          BY ResponseIs
        <5> HIDE DEF D
        <5> QED BY <5>1, MinIsLeast
      <4> QED BY <4>1, <4>2 DEF Announced
    <3> QED BY <1>1, <1>3, <3>1, <3>2
  <2> QED BY <2>1, <2>2 DEF Incomplete, Invalid, NoRate
<1> QED BY <1>2, <1>3
=============================================================================
