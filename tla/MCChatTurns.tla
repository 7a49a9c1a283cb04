---------------------------- MODULE MCChatTurns -----------------------------
(* Instances of ChatTurns for TLC: one or two clients that talk to the     *)
(* same ghost.  The fault sets are named for the runs that use them.       *)
EXTENDS ChatTurns, TLC

CONSTANTS s1, s2

OneClient  == {s1}
TwoClients == {s1, s2}

NoFaults  == {}
LlmFaults == {"llm"}
AllFaults == {"llm", "tts", "crash"}

ClientSymmetry == Permutations(Session)
=============================================================================
