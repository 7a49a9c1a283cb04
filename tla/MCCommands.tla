------------------------------ MODULE MCCommands ------------------------------
(* An instance of Commands for TLC: a session that runs a skill, or two    *)
(* that transcribe, among pings and frames out of order.  A tick is five   *)
(* seconds.                                                                *)
EXTENDS Commands

CONSTANTS s1, s2

TwoSessions == {s1, s2}

(* A run of a skill; commands behind one another; and at the ASR lock.     *)
SomeTraffic ==
    {s1 :> {} @@ s2 :> {"ping", "skill"},
     s1 :> {"asr", "quick", "bad"} @@ s2 :> {},
     s1 :> {"ping", "asr"} @@ s2 :> {"asr", "bad"}}

SomeFrames == s1 :> 3 @@ s2 :> 2

Skill(timeout) == [complete |-> TRUE, named |-> TRUE, hash |-> "current", timeout |-> timeout]

SomeLibraries ==
    {{Skill(4)}, {Skill(5)}, {Skill(0)}}
        \cup {{Skill(1), m} : m \in {[Skill(1) EXCEPT !.complete = FALSE],
                                     [Skill(1) EXCEPT !.named = FALSE],
                                     [Skill(1) EXCEPT !.hash = "stale"]}}

AllArgs == {"small", "large", "odd"}
=============================================================================
