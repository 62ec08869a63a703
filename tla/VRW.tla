-------------------------------- MODULE VRW --------------------------------
(***************************************************************************)
(* A group of replicas and witnesses, and their clients (vrw/).              *)
(***************************************************************************)
EXTENDS VRWReplica, VRWWitness

Next ==
  \/ \E c \in Clients : Invoke(c)
  \/ \E r \in Replicas : ReplicaNext(r)
  \/ \E w \in Witnesses : WitnessNext(w)

Spec == Init /\ [][Next]_vars
-----------------------------------------------------------------------------
(* Properties *)

(* Type correctness (vrw/replica.h, class VRWReplica; vrw/witness.h).         *)
TypeOK ==
  /\ invoked \in [Clients -> 0 .. MaxReqId]
  /\ restarts \in [Indices -> 0 .. MaxRestarts]
  /\ DOMAIN replica = Replicas /\ DOMAIN witness = Witnesses
  /\ \A i \in Indices : LET s == Member(i) IN
       /\ s.status \in {"NORMAL", "VIEW_CHANGE", "RECOVERING", "PANIC"}
       /\ s.view \in 0 .. MaxView
       /\ s.lastCommitted <= s.lastOp
       /\ s.log.start \in 1 .. MaxOps + 1
       /\ \A k \in DOMAIN s.log.entries :
            /\ s.log.entries[k].view \in 0 .. s.view
            /\ s.log.entries[k].request \in Request
  /\ \A r \in Replicas : Len(replica[r].executed) = replica[r].lastCommitted

(* The entry found for an opnum has that opnum (the assertion of Log::Find, *)
(* common/log.cc:94, compiled out): where a log starts and what is in it stay *)
(* in step when it is cleaned, cut, transferred or taken over from another.   *)
InOrder(log) ==
  \A k \in DOMAIN log.entries : log.entries[k].opnum = log.start + k - 1

LogsInOrder == \A i \in Indices : InOrder(Member(i).log)

(* What a member has cleaned out of its log, every member has committed     *)
(* that has not lost everything in a restart: nobody asks for it again, in a *)
(* state transfer or to start a view (GetLowestReplicaCommit, CleanLog,       *)
(* Log::RemoveUpTo).                                                           *)
CleanedIsCommitted ==
  \A i, j \in Indices :
    Member(j).status # "RECOVERING" =>
      Member(i).log.start - 1 <= Member(j).lastCommitted

(* What the leader has announced as committed is in the log of every member *)
(* that has entered a later view, or has been cleaned out of it: also when   *)
(* the new leader has it from a witness only (HandleDoViewChange).            *)
CommittedStays ==
  \A i \in Indices : LET s == Member(i) IN
    s.status = "NORMAL" =>
      \A m \in Received("COMMIT") : m.view < s.view =>
        \A p \in Received("PREPARE") : p.view = m.view =>
          \A k \in p.batchStart .. p.opnum : s.log.start <= k /\ k <= m.opnum =>
            /\ Has(s.log, k)
            /\ Find(s.log, k).request = p.requests[k - p.batchStart + 1]

(* The replicas execute one sequence of requests, each of them once, and a  *)
(* client is answered from it, whatever was executed by a replica that has  *)
(* lost it since (CommitUpTo, HandleRequest).                                 *)
ExecutionsAgree ==
  /\ \A r, q \in Replicas : LET a == replica[r].executed
                                b == replica[q].executed
                            IN  \A k \in DOMAIN a \cap DOMAIN b : a[k] = b[k]
  /\ \A r \in Replicas : IsInjective(replica[r].executed)
  /\ \A m \in Received("REPLY") : \A r \in Replicas :
       m.opnum \in DOMAIN replica[r].executed =>
         replica[r].executed[m.opnum] = m.request
=============================================================================
