------------------------------ MODULE MCVoting ------------------------------
EXTENDS Voting, TLC, FiniteSets

CONSTANTS v1, v2, v3, b1, b2

(* Powers 2, 1 and 1: v1 and any other are a quorum. *)
MCQuorums == {Q \in SUBSET Validators : v1 \in Q /\ Cardinality(Q) >= 2}
Symmetry == Permutations(Blocks)
=============================================================================
