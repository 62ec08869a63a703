--------------------------- MODULE Configuration ---------------------------
(***************************************************************************)
(* The replica group every protocol of this repository is started with     *)
(* (lib/configuration.cc): N replicas numbered from 0, at most F of them   *)
(* faulty, the quorum sizes derived from F, and the leader of a view.      *)
(***************************************************************************)
EXTENDS Integers, FiniteSets, FiniteSetsExt

CONSTANTS N, F

(* The configuration parser panics on an empty or an even group.           *)
ASSUME ConfigurationAssumption ==
  /\ N \in Nat \ {0} /\ N % 2 = 1
  /\ F \in Nat

(* Replica indices, and the leader of a view.                               *)
Indices == 0 .. N - 1

GetLeaderIndex(view) == view % N

(* A majority of a group of 2F + 1.                                        *)
QuorumSize == F + 1

(* The superquorum of the fast and of the speculative path.                *)
FastQuorumSize == F + (F + 1) \div 2 + 1

Larger(a, b) == IF a >= b THEN a ELSE b
=============================================================================
