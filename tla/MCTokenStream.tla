---------------------------- MODULE MCTokenStream ----------------------------
(* An instance of TokenStream for TLC: two clients that come and go.       *)
EXTENDS TokenStream, TLC

CONSTANTS c1, c2

TwoClients == {c1, c2}

ClientSymmetry == Permutations(TwoClients)
=============================================================================
