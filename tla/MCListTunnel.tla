---------------------------- MODULE MCListTunnel ----------------------------
(* Two clients, two messages and two or three nodes. *)
EXTENDS ListTunnel, TLC
CONSTANTS relay, car, m1, m2, n1, n2
MCSymmetry == Permutations(Threads) \cup Permutations(Messages) \cup Permutations(Nodes)
=============================================================================
