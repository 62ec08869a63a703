------------------------------ MODULE MCNiStore ------------------------------
(***************************************************************************)
(* Model checking of NiStore: two clients, a key in each of two shards.      *)
(***************************************************************************)
EXTENDS NiStore

CONSTANTS c1, c2

Symmetry == Permutations(Clients)

(* The transaction of a client that has none does not matter any more, nor  *)
(* its status but between the votes.                                          *)
SeenClient(s) ==
  IF s.pc = "idle" THEN [IdleClient EXCEPT !.txns = s.txns]
  ELSE [s EXCEPT !.status = s.pc = "PREPARE" => @]

(* What a client has accepted is not rolled back, whether or not it is       *)
(* committed yet: of the rest only the order matters.                         *)
SeenShard(s) ==
  LET kept == SelectSeq(s.log, LAMBDA e : ~Accepted(e))
      from == IF kept = << >> THEN s.opnum + 1 ELSE kept[1].opnum
      late == SelectSeq(s.db.retired, LAMBDA t : Speculative /\ t.op >= from)
  IN  <<[s.db EXCEPT !.retired = [i \in DOMAIN late |->
                                    <<late[i].txn, late[i].state>>]],
        [i \in DOMAIN kept |-> <<kept[i].req, kept[i].before>>]>>

View ==
  <<mode, [c \in Clients |-> SeenClient(client[c])], calls, replies,
    [i \in Shards |-> SeenShard(shard[i])], ts, rollbacks, history>>

CONSTANT MaxAllOps  \* bound: operations of all transactions

FewOperations == FoldSet(LAMBDA c, n : n + client[c].ops, 0, Clients) <= MaxAllOps
=============================================================================
