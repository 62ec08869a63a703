------------------------------- MODULE MCVRW -------------------------------
(***************************************************************************)
(* Model checking of VRW: two replicas and a witness.                        *)
(***************************************************************************)
EXTENDS VRW

CONSTANTS c1, c2

Symmetry == Permutations(Clients)

(* A datagram matters as long as one of its recipients may still handle it, *)
(* or a property reads it; one that may restart goes back to view 0.  A      *)
(* COMMIT of nothing only makes a member of an earlier view ask for a state  *)
(* transfer, as the next PREPARE does.                                        *)
NotAfter(i, view) == Member(i).view <= view

Leader(m) == GetLeaderIndex(m.view)

Awaited(m, i) == Member(i).status = "RECOVERING" /\ m.nonce = Nonce(i)

Matters(m) ==
  IF MayRestart /\ Received("STARTVIEWCHANGE") = {}
  THEN m.type = "COMMIT" => m.opnum > 0
  ELSE CASE m.type \in {"REPLY", "PREPARE"} -> TRUE
       [] m.type = "COMMIT" -> m.opnum > 0
       [] m.type = "PREPAREOK" -> NotAfter(Leader(m), m.view)
       [] m.type = "REQUESTSTATETRANSFER" -> TRUE
       [] m.type = "STATETRANSFER" -> NotAfter(m.to, m.view)
       [] m.type = "STARTVIEWCHANGE" -> \E i \in Indices \ {m.src} :
                                          Joins(Member(i), m.view)
       [] m.type = "DOVIEWCHANGE" -> Joins(Member(Leader(m)), m.view)
       [] m.type = "STARTVIEW" -> \E i \in Indices \ {Leader(m)} :
                                    Joins(Member(i), m.view)
       [] m.type = "RECOVERY" -> Awaited(m, m.src)
       [] m.type = "RECOVERYRESPONSE" -> Awaited(m, m.to)

View == <<replica, witness, restarts, invoked, {m \in msgs : Matters(m)}>>
-----------------------------------------------------------------------------
(* What the runs leave out, each of it shown to break the group elsewhere.   *)

CONSTANT MaxAcks  \* bound: different PREPAREOKs, repeated ones included

FewAcks == Cardinality(Received("PREPAREOK")) <= MaxAcks

ViewChanges == Received("STARTVIEWCHANGE") # {}

Restarted == \E i \in Indices : restarts[i] > 0

(* A STARTVIEW without entries leaves what a member has logged in the view  *)
(* before (as in vr/replica.cc).                                              *)
LogsNotEmpty == \A m \in Received("STARTVIEW") : m.entries # << >>

(* What has been cleaned cannot be recovered; a STATETRANSFER asked for      *)
(* before a restart may arrive after it, and a view change hear from a        *)
(* member that has lost everything (as in vr/replica.cc).                      *)
RecoversAll ==
  Restarted => /\ ~ViewChanges /\ Received("REQUESTSTATETRANSFER") = {}
               /\ \A i \in Indices : Member(i).cleanUpTo = 0

(* A request for a state transfer from before a view change is answered      *)
(* after it.                                                                   *)
AnsweredInView ==
  \A m \in Received("REQUESTSTATETRANSFER") : ViewChanges => m.view > 0

Bounded == FewAcks /\ LogsNotEmpty /\ RecoversAll /\ AnsweredInView

(* A step that changes nothing leads to no new state.                        *)
Changes == vars # vars'

(* A STATETRANSFER of a later view leaves what a replica has logged and not *)
(* committed, and a witness does not enter the view with it: across views,   *)
(* only a replica that has no such entries asks for it.                       *)
AsksWithoutStaleEntries ==
  \A m \in msgs' \ msgs :
    m.type = "REQUESTSTATETRANSFER" /\ ViewChanges =>
      /\ m.src \in Replicas
      /\ replica[m.src].status = "VIEW_CHANGE"
      /\ replica[m.src].lastOp = replica[m.src].lastCommitted
=============================================================================
