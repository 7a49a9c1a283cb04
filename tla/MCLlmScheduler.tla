--------------------------- MODULE MCLlmScheduler ---------------------------
(* Instances of LlmScheduler for TLC.  The slots and the reservation are   *)
(* the constructor's defaults, 2 and 1.                                    *)
(* c: chat, b: pure background, e: effectful background.                   *)
EXTENDS LlmScheduler, TLC

CONSTANTS c1, c2, b1, e1, t1

Nobody    == {}
OneCaller == {b1}
ChatJobs  == {c1, c2}
NoTurns   == [j \in Job |-> NoTurn]

\* Two chats, a pure and an effectful background job of one turn.
CoreJobs  == {c1, c2, b1, e1}
CorePrio  == c1 :> 0 @@ c2 :> 0 @@ b1 :> 2 @@ e1 :> 2
CorePure  == {c1, c2, b1}
CoreTurns == c1 :> NoTurn @@ c2 :> NoTurn @@ b1 :> t1 @@ e1 :> t1

\* Two chats and one background job, the least that preempts.
MixedJobs  == {c1, c2, b1}
MixedPrio  == c1 :> 0 @@ c2 :> 0 @@ b1 :> 2
MixedPure  == MixedJobs

ChatSymmetry == Permutations(ChatJobs)
=============================================================================
