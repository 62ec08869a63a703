---------------------- MODULE MCViewstampedReplication ----------------------
(***************************************************************************)
(* Model checking of ViewstampedReplication: three replicas, two clients.    *)
(* Only clients are interchangeable: a replica's index says which views it  *)
(* leads.                                                                     *)
(***************************************************************************)
EXTENDS ViewstampedReplication, TLC

CONSTANTS c1, c2

Symmetry == Permutations(Clients)

(* A datagram matters as long as one of its recipients may still handle it, *)
(* or a property reads it; one that may restart goes back to view 0.         *)
MayRestart == FoldSet(LAMBDA q, sum : sum + restarts[q], 0, Indices) < MaxRestarts

NotAfter(r, view) == replica[r].view <= view

Leader(m) == GetLeaderIndex(m.view)

Awaited(m, r) == replica[r].status = "RECOVERING" /\ m.nonce = Nonce(r)

Matters(m) ==
  \/ MayRestart
  \/ CASE m.type = "REPLY" -> TRUE
       [] m.type \in {"PREPARE", "COMMIT"} -> TRUE
       [] m.type = "PREPAREOK" -> \E r \in {Leader(m), m.src} :
                                    NotAfter(r, m.view)
       [] m.type = "REQUESTSTATETRANSFER" -> TRUE
       [] m.type = "STATETRANSFER" -> NotAfter(m.to, m.view)
       [] m.type = "STARTVIEWCHANGE" -> \E r \in Indices \ {m.src} :
                                          Joins(replica[r], m.view)
       [] m.type = "DOVIEWCHANGE" -> Joins(replica[Leader(m)], m.view)
       [] m.type = "STARTVIEW" -> \E r \in Indices \ {Leader(m)} :
                                    Joins(replica[r], m.view)
       [] m.type = "RECOVERY" -> Awaited(m, m.src)
       [] m.type = "RECOVERYRESPONSE" -> Awaited(m, m.to)

(* Where a client makes one request, and no property reads a REPLY, what    *)
(* the replicas remember only to send one makes no difference.               *)
WithoutReplies(s) ==
  [s EXCEPT !.clientAddresses = {},
            !.clientTable = [c \in Clients |-> s.clientTable[c].id]]

QuietView ==
  <<[r \in Indices |-> WithoutReplies(replica[r])], restarts, invoked,
    {m \in msgs : Matters(m) /\ m.type # "REPLY"}>>

View == <<replica, restarts, invoked, {m \in msgs : Matters(m)}>>

(* Two operations and a view change, or one operation and a replica that    *)
(* asks for the log.                                                          *)
TransferOfOne ==
  (\E m \in msgs : m.type = "REQUESTSTATETRANSFER") =>
    \A r \in Indices : replica[r].lastOp <= 1
=============================================================================
