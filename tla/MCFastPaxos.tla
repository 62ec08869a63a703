---------------------------- MODULE MCFastPaxos ----------------------------
(***************************************************************************)
(* Model checking of FastPaxos: three replicas and up to three clients.      *)
(* Followers are interchangeable, unless one of them is down; so are clients. *)
(***************************************************************************)
EXTENDS FastPaxos, TLC

CONSTANTS c1, c2, c3, r0, r1, r2

ClientSymmetry == Permutations(Clients)

Symmetry == Permutations(Clients) \cup Permutations(Followers)

(* Two clients whose requests conflict, or one that goes on to a second      *)
(* request while logs are transferred.                                        *)
ConflictOrRetries ==
  Cardinality({c \in Clients : lastReqId[c] > 0}) > 1 =>
    /\ \A c \in Clients : lastReqId[c] < 2
    /\ \A m \in msgs : m.type # "STATETRANSFER"
=============================================================================
