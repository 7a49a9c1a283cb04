----------------------------- MODULE MCSessions -----------------------------
(* Instances of Sessions for TLC: one or two clients, and a task that      *)
(* broadcasts.                                                             *)
EXTENDS Sessions

CONSTANTS c1, c2, b1

OneClient  == {c1}
TwoClients == {c1, c2}
OneTask == {b1}
=============================================================================
