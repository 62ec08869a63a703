---------------------------- MODULE MCSpecPaxos ----------------------------
(***************************************************************************)
(* Model checking of SpecPaxos: three replicas and up to three clients.      *)
(* Only clients are interchangeable: a replica's index says which views it  *)
(* leads.                                                                     *)
(***************************************************************************)
EXTENDS SpecPaxos

CONSTANTS c1, c2, c3

Symmetry == Permutations(Clients)

(* A datagram matters as long as one of its recipients may still handle it. *)
Joinable(r, view) == Joins(replica[r], view)

Leader(m) == GetLeaderIndex(m.view)

Matters(m) ==
  CASE m.type = "SPECULATIVEREPLY"  -> TRUE
    [] m.type = "SYNC"              -> \E r \in Indices \ {Leader(m)} :
                                         replica[r].view <= m.view
    [] m.type = "SYNCREPLY"         -> /\ replica[Leader(m)].view <= m.view
                                       /\ replica[Leader(m)].view = m.view =>
                                          m.lastSpeculative >
                                            replica[Leader(m)].lastCommitted
    [] m.type = "REQUESTVIEWCHANGE" -> \E r \in Indices :
                                         replica[r].view <= m.view
    [] m.type = "STARTVIEWCHANGE"   -> \E r \in Indices \ {m.src} :
                                         Joinable(r, m.view)
    [] m.type = "DOVIEWCHANGE"      -> Joinable(Leader(m), m.view)
    [] m.type = "STARTVIEW"         -> \E r \in m.to : Joinable(r, m.view)
    [] m.type = "INVIEW"            -> replica[Leader(m)].view <= m.view
    [] m.type = "FILLLOGGAP"        -> replica[Leader(m)].view <= m.view
    [] m.type = "FILLDVCGAP"        -> replica[m.to].view <= m.view

(* Whose committed reply it is does not matter to the client.               *)
Committed(m) == m.type = "SPECULATIVEREPLY" /\ m.committed

View ==
  <<replica, invoked, {m \in msgs : ~Committed(m) /\ Matters(m)},
    {<<m.request, m.hash>> : m \in {n \in msgs : Committed(n)}}>>
-----------------------------------------------------------------------------
(* A step that changes nothing leads to no new state.                        *)
Changes == <<replica, invoked, msgs>> # <<replica, invoked, msgs>>'

(* Two runs, each of two scenarios, which the constraint keeps apart.        *)
Sent(type) == \E m \in msgs : m.type = type

Clashing == Cardinality({c \in Clients : invoked[c] > 0}) > 1

(* Two clients whose requests conflict, and complain of it; or one with two  *)
(* requests, and SYNCs, or a SYNC and a timer that expires.                  *)
ComplaintOrRetry ==
  IF Clashing
  THEN /\ \A c \in Clients : invoked[c] < 2
       /\ ~Sent("SYNC")
       /\ Sent("STARTVIEWCHANGE") => Sent("REQUESTVIEWCHANGE")
  ELSE /\ ~Sent("REQUESTVIEWCHANGE")
       /\ Sent("STARTVIEWCHANGE") => Cardinality(Received("SYNC")) < 2

(* Two clients and a replica that sees from a SYNC, or the leader from the   *)
(* answers to it, that their requests conflict; or one request and two view  *)
(* changes, whatever their reason; and one SYNC, in any of the views.         *)
Conflicts(r, s, opnum) ==
  LET answers == {m \in Received("SYNCREPLY") : m.lastSpeculative = opnum}
  IN  /\ SyncQuorum({m.src : m \in answers})
      /\ \E m \in answers : Hash(s.log, opnum) # m.hash

Sees(r) ==
  LET s == replica[r]
  IN  IF AmLeader(r, s)
      THEN \E n \in s.lastCommitted + 1 .. lastSpeculative(s) : Conflicts(r, s, n)
      ELSE \E m \in Received("SYNC") : ~Consistent(s, m)

ChangesOnItsOwn(r) ==
  /\ replica'[r].view > replica[r].view
  /\ replica'[r].startViewChanges = {} /\ replica'[r].doViewChanges = {}

ConflictOrTwoViews ==
  /\ Changes
  /\ Cardinality({m \in msgs' : m.type = "SYNC"}) < 2
  /\ Clashing' =>
       /\ \A r \in Indices : /\ ChangesOnItsOwn(r) => Sees(r)
                             /\ replica'[r].view < 2
       /\ Sent("STARTVIEWCHANGE") => Clashing
=============================================================================
