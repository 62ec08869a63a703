--------------------------- MODULE ReplicatedLog ---------------------------
(***************************************************************************)
(* What every replication protocol of this repository promises the         *)
(* application above it: each replica makes its upcalls (Execute, or the    *)
(* commit of a speculative execution) for the operations of one common     *)
(* sequence, in order, without a gap, never takes one back and never makes *)
(* it for the same operation twice.                                        *)
(***************************************************************************)
EXTENDS Integers, Sequences

CONSTANTS Replicas, Ops

VARIABLE executed  \* executed[r]: the operations r has executed, in order

(* Two replicas never disagree about the operation at a position.          *)
Compatible(s, t) == \A i \in DOMAIN s \cap DOMAIN t : s[i] = t[i]

Distinct(s) == \A i, j \in DOMAIN s : s[i] = s[j] => i = j

Init == executed = [r \in Replicas |-> << >>]

(* r executes one or more further operations.                              *)
Execute(r) ==
  /\ Len(executed'[r]) > Len(executed[r])
  /\ executed' \in [Replicas -> Seq(Ops)]
  /\ \A s \in Replicas \ {r} : executed'[s] = executed[s]
  /\ \A s \in Replicas : Compatible(executed'[r], executed[s])
  /\ Distinct(executed'[r])

Next == \E r \in Replicas : Execute(r)

Spec == Init /\ [][Next]_executed
=============================================================================
