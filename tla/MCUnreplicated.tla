--------------------------- MODULE MCUnreplicated ---------------------------
(***************************************************************************)
(* A small instance of the unreplicated protocol over UDP.                   *)
(***************************************************************************)
EXTENDS Unreplicated, TLC

Symmetry == Permutations(Clients)

(* bound: requests of all the clients.                                       *)
FewRequests ==
  LET sent(c) == client[c].sent["logged"] + client[c].sent["unlogged"]
  IN  FoldLeft(LAMBDA n, c : n + sent(c), 0, SetToSeq(Clients)) <= 2
=============================================================================
