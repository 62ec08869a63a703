------------------------------ MODULE VRWState ------------------------------
(***************************************************************************)
(* Viewstamped Replication with witnesses (vrw/): the state of its replicas *)
(* and witnesses, and the datagrams between them.  The odd members of the   *)
(* group are witnesses: they keep the log, vote in every quorum, but have   *)
(* no application, never lead a view and are no use to a client.  Every     *)
(* PREPARE tells up to which opnum each member has committed, and the log   *)
(* is cleaned up to there.                                                   *)
(*                                                                          *)
(* Datagrams are never taken out of msgs, so that each may arrive late,     *)
(* more than once, in any order, or never; what a timer sends again is in   *)
(* msgs already.                                                             *)
(***************************************************************************)
EXTENDS Configuration, TruncatedLog

CONSTANTS
  Clients,
  BatchSize,    \* requests a leader prepares together
  Impatient,    \* members whose viewChangeTimeout may expire
  MaxReqId,     \* bound: requests a client makes
  MaxOps,       \* bound: the last opnum a leader assigns
  MaxTransfers, \* bound: different state transfer requests; others are lost
  MaxRestarts,  \* bound: restarts, of all members together
  MaxView       \* bound: the last view

ASSUME VRWAssumption ==
  /\ BatchSize \in Nat \ {0} /\ MaxReqId \in Nat /\ MaxOps \in Nat
  /\ MaxTransfers \in Nat /\ MaxRestarts \in Nat /\ MaxView \in Nat
  /\ Impatient \subseteq Indices
-----------------------------------------------------------------------------
IsWitness(i) == i % 2 = 1

Replicas == {i \in Indices : ~IsWitness(i)}

Witnesses == {i \in Indices : IsWitness(i)}

(* The next view that a replica leads, the witnesses' ones skipped.         *)
NextView(view) ==
  CHOOSE v \in view + 1 .. view + N :
    /\ ~IsWitness(GetLeaderIndex(v))
    /\ \A w \in view + 1 .. v - 1 : IsWitness(GetLeaderIndex(w))

Request == [client : Clients, id : 1 .. MaxReqId]

NoEntry == [id |-> 0, replied |-> FALSE, opnum |-> 0]

VARIABLES
  replica,   \* replica[r]: what the replica r keeps
  witness,   \* witness[w]: what the witness w keeps
  restarts,  \* restarts[i]: how often the member i has restarted
  invoked,   \* invoked[c]: clientreqid of the client's last request
  msgs       \* every datagram sent so far, requests excepted

vars == <<replica, witness, restarts, invoked, msgs>>

(* What a witness keeps.  It never learns what the others have committed:    *)
(* its lastCommitteds stay 0, and are left out.                               *)
InitialMember ==
  [status |-> "NORMAL", view |-> 0, log |-> EmptyLog, lastOp |-> 0,
   lastCommitted |-> 0, cleanUpTo |-> 0, startViewChanges |-> {},
   recoveryResponses |-> {}]

(* What a replica keeps: the same, and what serves the clients and the       *)
(* leader.  The application's state is the sequence of the requests executed. *)
InitialReplica ==
  [status |-> "NORMAL", view |-> 0, log |-> EmptyLog, lastOp |-> 0,
   lastCommitted |-> 0, cleanUpTo |-> 0, startViewChanges |-> {},
   recoveryResponses |-> {},
   executed |-> << >>, lastCommitteds |-> [i \in Indices |-> 0],
   clientTable |-> [c \in Clients |-> NoEntry], clientAddresses |-> {},
   lastBatchEnd |-> 0, batchComplete |-> TRUE, closeBatch |-> FALSE,
   prepareOKs |-> {}, doViewChanges |-> {}]

Init ==
  /\ replica = [r \in Replicas |-> InitialReplica]
  /\ witness = [w \in Witnesses |-> InitialMember]
  /\ restarts = [i \in Indices |-> 0]
  /\ invoked = [c \in Clients |-> 0]
  /\ msgs = {}

Member(i) == IF IsWitness(i) THEN witness[i] ELSE replica[i]

AmLeader(r, s) == GetLeaderIndex(s.view) = r

GetLowestReplicaCommit(s) == Min({s.lastCommitteds[i] : i \in Indices})
-----------------------------------------------------------------------------
(* Messages *)

Reply(request, opnum) ==
  [type |-> "REPLY", request |-> request, opnum |-> opnum]

PrepareOK(i, s, view, opnum) ==
  [type |-> "PREPAREOK", view |-> view, opnum |-> opnum, src |-> i,
   lastCommitted |-> s.lastCommitted]

Commit(s) == [type |-> "COMMIT", view |-> s.view, opnum |-> s.lastCommitted]

StateTransfer(s, from, to) ==
  [type |-> "STATETRANSFER", view |-> s.view, opnum |-> s.lastCommitted,
   to |-> to, entries |-> Dump(s.log, from + 1)]

DoViewChange(i, s, from) ==
  [type |-> "DOVIEWCHANGE", view |-> s.view, src |-> i,
   lastNormalView |-> LastViewstamp(s.log).view, lastOp |-> s.lastOp,
   lastCommitted |-> s.lastCommitted, entries |-> Dump(s.log, from)]

StartView(s, from) ==
  [type |-> "STARTVIEW", view |-> s.view, lastOp |-> s.lastOp,
   lastCommitted |-> s.lastCommitted, entries |-> Dump(s.log, from)]

Received(type) == {m \in msgs : m.type = type}

(* A step is the state reached and the datagrams sent on the way.            *)
Went(s, out) == [s |-> s, out |-> out]

(* A request for what follows the last committed operation, from whomever.  *)
RequestStateTransfer(i, s) ==
  LET m == [type |-> "REQUESTSTATETRANSFER", view |-> s.view, src |-> i,
            opnum |-> s.lastCommitted]
      all == Received("REQUESTSTATETRANSFER") \cup {m}
  IN  IF Cardinality(all) <= MaxTransfers THEN {m} ELSE {}

StartViewChangeMessage(i, s, view) ==
  [type |-> "STARTVIEWCHANGE", view |-> view, src |-> i,
   lastCommitted |-> s.lastCommitted]

With(quorum, m) == {q \in quorum : q.src # m.src} \cup {m}

(* A message for a later view starts that view's change, and a recovering   *)
(* member takes part in it; one for a view left behind, or entered already, *)
(* is ignored.                                                                *)
Joins(s, view) == view > s.view \/ (view = s.view /\ s.status = "VIEW_CHANGE")

(* The entries a new view brings must reach down to what is committed here:  *)
(* otherwise the process panics, and takes no more steps.                     *)
Reaches(s, m) ==
  m.entries # << >> => m.entries[1].opnum <= s.lastCommitted + 1

(* What a DOVIEWCHANGE or a STARTVIEW brings replaces the log, unless it    *)
(* brings nothing.                                                           *)
Replaced(log, m) ==
  IF m.entries = << >> THEN log
  ELSE Install(RemoveAfter(log, m.lastOp + 1), m.entries)

(* How much of the log a DOVIEWCHANGE has.                                    *)
LowestHeard(s) ==
  Min({q.lastCommitted : q \in s.startViewChanges} \cup {s.lastCommitted})

Nonce(i) == <<i, restarts[i]>>

MayRestart ==
  FoldSet(LAMBDA i, sum : sum + restarts[i], 0, Indices) < MaxRestarts

Recovery(i) == [type |-> "RECOVERY", src |-> i, nonce |-> Nonce(i)]

(* The answer of the leader of the latest view heard of.                     *)
FromLeader(responses) ==
  {m \in responses : /\ \A n \in responses : n.view <= m.view
                     /\ GetLeaderIndex(m.view) = m.src}

RecoveryResponseQuorum(responses) == Cardinality(responses) >= QuorumSize
=============================================================================
