----------------------- MODULE ViewstampedReplication -----------------------
(***************************************************************************)
(* The Viewstamped Replication replica and client (vr/replica.cc,           *)
(* client.cc).  The leader of the view orders the requests, prepares them   *)
(* in batches and commits what a majority has prepared.  A replica that     *)
(* misses something asks for a state transfer; a follower that does not     *)
(* hear from the leader starts a view change; a replica that restarts has   *)
(* lost everything and recovers from the others.                            *)
(*                                                                          *)
(* One action is one message handler or timer callback, as in SpecPaxos.    *)
(* Datagrams are never taken out of msgs, so that each may arrive late,     *)
(* more than once, in any order, or never.  What is sent again by a timer   *)
(* (ResendPrepare, SendRecoveryMessages, a suppressed state transfer        *)
(* request) is in msgs already.                                              *)
(***************************************************************************)
EXTENDS Configuration, Sequences, SequencesExt

CONSTANTS
  Clients,
  BatchSize,    \* requests a leader prepares together
  Answerable,   \* clients whose requests the leader may answer by itself
  Impatient,    \* replicas whose viewChangeTimeout may expire
  MaxReqId,     \* bound: requests a client makes
  MaxOps,       \* bound: entries a leader's log has; later requests are lost
  MaxTransfers, \* bound: different state transfer requests; others are lost
  MaxRestarts,  \* bound: restarts, of all replicas together
  MaxView       \* bound: the last view

ASSUME ViewstampedReplicationAssumption ==
  /\ BatchSize \in Nat \ {0} /\ MaxReqId \in Nat /\ MaxOps \in Nat
  /\ MaxTransfers \in Nat /\ MaxRestarts \in Nat /\ MaxView \in Nat
  /\ Impatient \subseteq Indices /\ Answerable \subseteq Clients
-----------------------------------------------------------------------------
(* Data *)

Request == [client : Clients, id : 1 .. MaxReqId]

Entry(view, opnum, request) ==
  [view |-> view, opnum |-> opnum, request |-> request]

NoEntry == [id |-> 0, replied |-> FALSE, opnum |-> 0]

VARIABLES
  replica,   \* replica[r]: what the replica r keeps
  restarts,  \* restarts[r]: how often it has restarted
  invoked,   \* invoked[c]: clientreqid of the client's last request
  msgs       \* every datagram sent so far, requests excepted

vars == <<replica, restarts, invoked, msgs>>

(* Quorum sets that only count for the current view are cleared when it is  *)
(* left; the code keeps them under the old view's key.  The application's   *)
(* state is the sequence of the requests it has executed, whose length is   *)
(* lastCommitted.                                                             *)
InitialReplica ==
  [status |-> "NORMAL", view |-> 0, log |-> << >>, lastOp |-> 0,
   executed |-> << >>, clientTable |-> [c \in Clients |-> NoEntry],
   clientAddresses |-> {}, lastBatchEnd |-> 0, batchComplete |-> TRUE,
   closeBatch |-> FALSE, prepareOKs |-> {}, startViewChanges |-> {},
   doViewChanges |-> {}, recoveryResponses |-> {}]

Init ==
  /\ replica = [r \in Indices |-> InitialReplica]
  /\ restarts = [r \in Indices |-> 0]
  /\ invoked = [c \in Clients |-> 0]
  /\ msgs = {}

lastCommitted(s) == Len(s.executed)

AmLeader(r, s) == GetLeaderIndex(s.view) = r

LastViewstamp(log) ==
  IF log = << >> THEN [view |-> 0, opnum |-> 0]
  ELSE [view |-> Last(log).view, opnum |-> Last(log).opnum]
-----------------------------------------------------------------------------
(* Messages *)

Reply(request, opnum) ==
  [type |-> "REPLY", request |-> request, opnum |-> opnum]

PrepareOK(r, view, opnum) ==
  [type |-> "PREPAREOK", view |-> view, opnum |-> opnum, src |-> r]

Commit(s) == [type |-> "COMMIT", view |-> s.view, opnum |-> lastCommitted(s)]

(* The opnums from low to high, of which there may be none.                 *)
Opnums(low, high) == [i \in 1 .. Larger(high - low + 1, 0) |-> low + i - 1]

(* Log::Dump: the entries from an opnum on, up to the last one's.           *)
Dump(log, from) == SubSeq(log, Larger(from, 1), LastViewstamp(log).opnum)

StateTransfer(s, from, to) ==
  [type |-> "STATETRANSFER", view |-> s.view, opnum |-> lastCommitted(s),
   to |-> to, entries |-> Dump(s.log, from + 1)]

DoViewChange(r, s, from) ==
  [type |-> "DOVIEWCHANGE", view |-> s.view, src |-> r,
   lastNormalView |-> LastViewstamp(s.log).view, lastOp |-> s.lastOp,
   lastCommitted |-> lastCommitted(s), entries |-> Dump(s.log, from)]

StartView(s, from) ==
  [type |-> "STARTVIEW", view |-> s.view, lastOp |-> s.lastOp,
   lastCommitted |-> lastCommitted(s), entries |-> Dump(s.log, from)]

(* Only the leader's answer has its log.                                    *)
RecoveryResponse(r, s, m) ==
  LET leads == AmLeader(r, s) IN
  [type |-> "RECOVERYRESPONSE", view |-> s.view, src |-> r, to |-> m.src,
   nonce |-> m.nonce, lastOp |-> IF leads THEN s.lastOp ELSE 0,
   lastCommitted |-> IF leads THEN lastCommitted(s) ELSE 0,
   entries |-> IF leads THEN Dump(s.log, 0) ELSE << >>]

Received(type) == {m \in msgs : m.type = type}
-----------------------------------------------------------------------------
(* The replica's subroutines.  A step is the state reached and the datagrams *)
(* sent on the way.                                                          *)

Went(s, out) == [s |-> s, out |-> out]

(* MUTANT of UpdateClientTable: forget to remember the request.             *)
MutantUpdateClientTable(s, request) == s

UpdateClientTable(s, request) ==
  [s EXCEPT !.clientTable[request.client] =
     IF @.id = request.id THEN @
     ELSE [id |-> request.id, replied |-> FALSE, opnum |-> 0]]

(* Execute the entry at an opnum, keep its reply unless a later request of  *)
(* its client is known, and answer the client if it has sent the request.   *)
Execute(x, opnum) ==
  LET request == x.s.log[opnum].request
      c       == request.client
  IN  Went([x.s EXCEPT
              !.executed = Append(@, request),
              !.clientTable[c] =
                 IF @.id > request.id THEN @
                 ELSE [id |-> request.id, replied |-> TRUE, opnum |-> opnum]],
           IF c \in x.s.clientAddresses
           THEN x.out \cup {Reply(request, opnum)} ELSE x.out)

CommitUpTo(x, upto) ==
  FoldLeft(Execute, x, Opnums(lastCommitted(x.s) + 1, upto))

(* Acknowledge what is new, from oldLastOp on, and not committed.            *)
SendPrepareOKs(r, x, oldLastOp) ==
  FoldLeft(LAMBDA y, i :
             Went(UpdateClientTable(y.s, y.s.log[i].request),
                  y.out \cup {PrepareOK(r, y.s.view, i)}),
           x, Opnums(Larger(oldLastOp, lastCommitted(x.s) + 1), x.s.lastOp))

(* A request for what follows the last committed operation, from whomever.  *)
RequestStateTransfer(r, s) ==
  LET m == [type |-> "REQUESTSTATETRANSFER", view |-> s.view, src |-> r,
            opnum |-> lastCommitted(s)]
      all == Received("REQUESTSTATETRANSFER") \cup {m}
  IN  IF Cardinality(all) <= MaxTransfers THEN {m} ELSE {}

EnterView(s, view) ==
  [s EXCEPT !.view = view, !.status = "NORMAL", !.lastBatchEnd = s.lastOp,
            !.batchComplete = TRUE, !.closeBatch = FALSE, !.prepareOKs = {},
            !.startViewChanges = {}, !.doViewChanges = {},
            !.recoveryResponses = {}]

StartViewChange(r, s, view) ==
  Went([s EXCEPT !.view = view, !.status = "VIEW_CHANGE",
                 !.closeBatch = FALSE, !.startViewChanges = {},
                 !.doViewChanges = {}],
       {[type |-> "STARTVIEWCHANGE", view |-> view, src |-> r,
         lastCommitted |-> lastCommitted(s)]})

(* Prepare what has come since the last batch, whatever its entries' views. *)
CloseBatch(x) ==
  LET s        == x.s
      requests == [i \in DOMAIN Opnums(s.lastBatchEnd + 1, s.lastOp) |->
                     s.log[s.lastBatchEnd + i].request]
  IN  Went([s EXCEPT !.lastBatchEnd = s.lastOp, !.batchComplete = FALSE,
                     !.closeBatch = FALSE],
           x.out \cup {[type |-> "PREPARE", view |-> s.view,
                        opnum |-> s.lastOp, batchStart |-> s.lastBatchEnd + 1,
                        requests |-> requests]})

(* Log::RemoveAfter: drop the entries from an opnum on.                      *)
RemoveAfter(log, opnum) ==
  IF opnum > LastViewstamp(log).opnum THEN log ELSE SubSeq(log, 1, opnum - 1)

(* Log::Install: up to the first entry that is not there or is of another   *)
(* view, the log is kept; from there on it is replaced.                      *)
Install(log, entries) ==
  LET missing(e) == e.opnum \notin DOMAIN log
      differs(e) == e.view # log[e.opnum].view
      new == {i \in DOMAIN entries :
                ~missing(entries[i]) => differs(entries[i])}
      e   == entries[Min(new)]
  IN  IF new = {} THEN log
      ELSE (IF missing(e) THEN log ELSE RemoveAfter(log, e.opnum))
             \o SubSeq(entries, Min(new), Len(entries))

(* MUTANT of Replaced: what is too long is cut, nothing is installed.       *)
MutantReplaced(log, m) == RemoveAfter(log, m.lastOp + 1)

(* What a DOVIEWCHANGE or a STARTVIEW brings replaces the log, unless it    *)
(* brings nothing.                                                           *)
Replaced(log, m) ==
  IF m.entries = << >> THEN log
  ELSE Install(RemoveAfter(log, m.lastOp + 1), m.entries)

(* The replica panics when the entries do not reach down to its own log, or *)
(* when it is to execute an operation that is not in its log.  A panic ends *)
(* the process: a replica that takes no more steps.                          *)
Reaches(s, m) ==
  m.entries # << >> => m.entries[1].opnum <= lastCommitted(s) + 1

CanCommit(log, upto) == upto <= Len(log)

Step(r, step) ==
  /\ step.s.view <= MaxView
  /\ replica' = [replica EXCEPT ![r] = step.s]
  /\ msgs' = msgs \cup step.out
  /\ UNCHANGED <<restarts, invoked>>
-----------------------------------------------------------------------------
(* The normal case *)

(* A duplicate of the last request is answered if it has been executed.     *)
HandleDuplicateRequest(r, s, request) ==
  LET entry == s.clientTable[request.client] IN
  Step(r, Went(s, IF request.id = entry.id /\ entry.replied
                  THEN {Reply(request, entry.opnum)} ELSE {}))

(* The application at the leader answers the request by itself.             *)
AnswerRequest(r, s, request) ==
  /\ request.client \in Answerable
  /\ Step(r, Went([s EXCEPT !.clientTable[request.client] =
                     [id |-> request.id, replied |-> TRUE, opnum |-> 0]],
                  {Reply(request, 0)}))

(* The batch is full, or there is none under way.                            *)
BatchFull(s) ==
  s.batchComplete \/ s.lastOp - s.lastBatchEnd + 1 \notin 0 .. BatchSize

AppendRequest(r, s, request) ==
  LET known == UpdateClientTable(s, request)
      op    == s.lastOp + 1
      t     == [known EXCEPT !.lastOp = op,
                             !.log = Append(@, Entry(s.view, op, request))]
  IN  /\ op <= MaxOps
      /\ Step(r, IF BatchFull(t) THEN CloseBatch(Went(t, {}))
                 ELSE Went([t EXCEPT !.closeBatch = TRUE], {}))

HandleRequest(r) ==
  \E c \in Clients : \E id \in 1 .. invoked[c] :
    LET s       == [replica[r] EXCEPT !.clientAddresses = @ \cup {c}]
        request == [client |-> c, id |-> id]
    IN  /\ s.status = "NORMAL" /\ AmLeader(r, s)
        /\ IF id <= s.clientTable[c].id THEN HandleDuplicateRequest(r, s, request)
           ELSE AnswerRequest(r, s, request) \/ AppendRequest(r, s, request)

CloseBatchTimeout(r) ==
  /\ replica[r].closeBatch
  /\ Step(r, CloseBatch(Went(replica[r], {})))

(* The leader tells what it has committed, and that it is there.            *)
SendNullCommit(r) ==
  /\ AmLeader(r, replica[r]) /\ replica[r].status = "NORMAL"
  /\ Step(r, Went(replica[r], {Commit(replica[r])}))

(* The requests of a PREPARE that come after the log's last one.             *)
Appended(s, m) ==
  FoldLeft(LAMBDA t, op :
             LET request == m.requests[op - m.batchStart + 1]
                 entry   == Entry(m.view, op, request)
             IN  UpdateClientTable([t EXCEPT !.lastOp = @ + 1,
                                             !.log = Append(@, entry)], request),
           s, Opnums(s.lastOp + 1, m.opnum))

HandlePrepare(r) ==
  LET s == replica[r] IN
  \E m \in Received("PREPARE") :
    LET ok == PrepareOK(r, m.view, m.opnum) IN
    /\ s.status = "NORMAL" /\ m.view >= s.view
    /\ GetLeaderIndex(m.view) # r
    /\ \/ /\ m.view > s.view
          /\ Step(r, Went(s, RequestStateTransfer(r, s)))
       \/ /\ m.view = s.view /\ m.opnum <= s.lastOp
          /\ Step(r, Went(s, {ok}))
       \/ /\ m.view = s.view /\ m.opnum > s.lastOp
          /\ m.batchStart > s.lastOp + 1
          /\ Step(r, Went(s, RequestStateTransfer(r, s)))
       \/ /\ m.view = s.view /\ m.opnum > s.lastOp
          /\ m.batchStart <= s.lastOp + 1
          /\ Step(r, Went(Appended(s, m), {ok}))

PrepareOKQuorum(s, opnum) ==
  Cardinality({q \in s.prepareOKs : q.opnum = opnum}) >= QuorumSize - 1

(* The first quorum commits, is announced and lets the next batch go.       *)
HandlePrepareOKQuorum(x, opnum) ==
  LET y   == CommitUpTo(x, opnum)
      z   == Went(y.s, y.out \cup {Commit(y.s)})
      all == {q \in y.s.prepareOKs : q.opnum = opnum}
  IN  CASE Cardinality(all) >= QuorumSize -> y
        [] Cardinality(all) < QuorumSize /\ y.s.lastBatchEnd # opnum -> z
        [] Cardinality(all) < QuorumSize /\ y.s.lastBatchEnd = opnum ->
             IF y.s.lastOp > opnum THEN CloseBatch(z)
             ELSE Went([z.s EXCEPT !.batchComplete = TRUE], z.out)

HandlePrepareOK(r) ==
  \E m \in Received("PREPAREOK") :
    LET s == [replica[r] EXCEPT !.prepareOKs =
                @ \cup {[opnum |-> m.opnum, src |-> m.src]}]
    IN  /\ GetLeaderIndex(m.view) = r
        /\ replica[r].status = "NORMAL" /\ m.view >= replica[r].view
        /\ \/ /\ m.view > replica[r].view
              /\ Step(r, Went(replica[r], RequestStateTransfer(r, replica[r])))
           \/ /\ m.view = replica[r].view /\ ~PrepareOKQuorum(s, m.opnum)
              /\ Step(r, Went(s, {}))
           \/ /\ m.view = replica[r].view /\ PrepareOKQuorum(s, m.opnum)
              /\ CanCommit(s.log, m.opnum)
              /\ Step(r, HandlePrepareOKQuorum(Went(s, {}), m.opnum))

HandleCommit(r) ==
  LET s == replica[r] IN
  \E m \in Received("COMMIT") :
    /\ GetLeaderIndex(m.view) # r
    /\ s.status = "NORMAL"
    /\ \/ /\ \/ m.view > s.view
             \/ m.view = s.view /\ m.opnum > lastCommitted(s) /\ m.opnum > s.lastOp
          /\ Step(r, Went(s, RequestStateTransfer(r, s)))
       \/ /\ m.view = s.view
          /\ m.opnum > lastCommitted(s) /\ m.opnum <= s.lastOp
          /\ CanCommit(s.log, m.opnum)
          /\ Step(r, CommitUpTo(Went(s, {}), m.opnum))
-----------------------------------------------------------------------------
(* State transfer *)

HandleRequestStateTransfer(r) ==
  LET s == replica[r] IN
  \E m \in Received("REQUESTSTATETRANSFER") :
    /\ m.src # r /\ s.status = "NORMAL"
    /\ Step(r, Went(s, IF m.view > s.view THEN RequestStateTransfer(r, s)
                       ELSE {StateTransfer(s, m.opnum, m.src)}))

(* MUTANT of Transferred: the next entry passes for one that is there.      *)
MutantTransferred(y, e) ==
  IF e.opnum <= y.s.lastOp + 1 THEN y
  ELSE [y EXCEPT !.s = [y.s EXCEPT !.log = Append(@, e), !.lastOp = @ + 1]]

(* One entry of a STATETRANSFER: it is there, it replaces an entry of an    *)
(* older view and everything after it, or it is the next one.  y.old is the *)
(* opnum from which on the log is acknowledged.                               *)
Transferred(y, e) ==
  LET next == Append(y.s.log, Entry(e.view, e.opnum, e.request))
      kept == RemoveAfter(y.s.log, e.opnum)
  IN  CASE e.opnum <= lastCommitted(y.s) -> y
        [] e.opnum > lastCommitted(y.s) /\ e.opnum <= y.s.lastOp ->
             IF y.s.log[e.opnum].view = e.view THEN y
             ELSE [s   |-> [y.s EXCEPT !.log = Append(kept, e),
                                       !.lastOp = e.opnum],
                   old |-> e.opnum]
        [] e.opnum > lastCommitted(y.s) /\ e.opnum > y.s.lastOp ->
             [y EXCEPT !.s = [y.s EXCEPT !.log = next, !.lastOp = @ + 1]]

(* Whatever the status, the entries are taken; a later view is entered.     *)
HandleStateTransfer(r) ==
  \E m \in Received("STATETRANSFER") :
    LET s == replica[r]
        y == FoldLeft(Transferred, [s |-> s, old |-> s.lastOp], m.entries)
        t == IF m.view > s.view THEN EnterView(y.s, m.view) ELSE y.s
    IN  /\ m.to = r /\ m.view >= s.view
        /\ CanCommit(t.log, m.opnum)
        /\ Step(r, SendPrepareOKs(r, CommitUpTo(Went(t, {}), m.opnum), y.old))
-----------------------------------------------------------------------------
(* View change *)

ViewChangeTimeout(r) ==
  LET s == replica[r] IN
  /\ r \in Impatient
  /\ s.status = "VIEW_CHANGE" \/ (s.status = "NORMAL" /\ ~AmLeader(r, s))
  /\ Step(r, StartViewChange(r, s, s.view + 1))

(* A message for a later view starts that view's change, and a recovering   *)
(* replica takes part in it; one for a view left behind, or entered         *)
(* already, is ignored.                                                       *)
Joins(s, view) == view > s.view \/ (view = s.view /\ s.status = "VIEW_CHANGE")

Joined(r, s, view) ==
  IF view > s.view THEN StartViewChange(r, s, view) ELSE Went(s, {})

With(quorum, m) == {q \in quorum : q.src # m.src} \cup {m}

HandleStartViewChange(r) ==
  \E m \in Received("STARTVIEWCHANGE") :
    LET x      == Joined(r, replica[r], m.view)
        s      == [x.s EXCEPT !.startViewChanges = With(@, m)]
        lowest == Min({q.lastCommitted : q \in s.startViewChanges}
                        \cup {lastCommitted(s)})
    IN  /\ m.src # r
        /\ Joins(replica[r], m.view)
        /\ Step(r, IF /\ Cardinality(s.startViewChanges) >= QuorumSize - 1
                      /\ GetLeaderIndex(m.view) # r
                   THEN Went(s, x.out \cup {DoViewChange(r, s, lowest)})
                   ELSE Went(s, x.out))

DoViewChangeQuorum(s) == Cardinality(s.doViewChanges) >= QuorumSize - 1

(* The order of the viewstamps at the end of two logs.                       *)
Later(view, op, than) ==
  view > than.view \/ (view = than.view /\ op > than.opnum)

(* The message whose log ends with the latest viewstamp, if that is later   *)
(* than the last one of the leader's own log.                                *)
LatestMessages(s) ==
  {d \in s.doViewChanges :
     /\ Later(d.lastNormalView, d.lastOp, LastViewstamp(s.log))
     /\ \A e \in s.doViewChanges \ {d} :
          LET than == [view |-> d.lastNormalView, opnum |-> d.lastOp] IN
          /\ ~Later(e.lastNormalView, e.lastOp, than)
          /\ e.lastNormalView = d.lastNormalView /\ e.lastOp = d.lastOp =>
               d.src < e.src}

(* Where the log of the STARTVIEW starts: what the lowest of the messages   *)
(* has committed.  Without a STARTVIEWCHANGE the code reads past the end of *)
(* the empty set, so that anything may come out lower.                        *)
LowestCommitted(s) ==
  LET lowest == Min({d.lastCommitted : d \in s.doViewChanges}
                      \cup {lastCommitted(s)})
  IN  IF s.startViewChanges = {} THEN 0 .. lowest
      ELSE {Min({q.lastCommitted : q \in s.startViewChanges} \cup {lowest})}

(* lastBatchEnd is the old lastOp, since the view is entered first.          *)
TakeOver(x, view, low) ==
  LET latest    == LatestMessages(x.s)
      d         == CHOOSE e \in latest : TRUE
      log       == IF latest = {} THEN x.s.log ELSE Replaced(x.s.log, d)
      op        == IF latest = {} THEN LastViewstamp(x.s.log).opnum ELSE d.lastOp
      committed == IF latest = {} THEN lastCommitted(x.s) ELSE d.lastCommitted
      entered   == [EnterView(x.s, view) EXCEPT !.log = log, !.lastOp = op]
      y         == CommitUpTo(Went(entered, x.out), committed)
  IN  Went(y.s, y.out \cup {StartView(y.s, low)})

HandleDoViewChange(r) ==
  \E m \in Received("DOVIEWCHANGE") :
    LET x == Joined(r, replica[r], m.view)
        s == [x.s EXCEPT !.doViewChanges = With(@, m)]
    IN  /\ GetLeaderIndex(m.view) = r
        /\ Joins(replica[r], m.view)
        /\ \/ ~DoViewChangeQuorum(s) /\ Step(r, Went(s, x.out))
           \/ /\ DoViewChangeQuorum(s)
              /\ \A d \in LatestMessages(s) :
                   /\ Reaches(s, d)
                   /\ CanCommit(Replaced(s.log, d), d.lastCommitted)
              /\ \E low \in LowestCommitted(s) :
                   Step(r, TakeOver(Went(s, x.out), m.view, low))

HandleStartView(r) ==
  LET s == replica[r] IN
  \E m \in Received("STARTVIEW") :
    LET entered == [EnterView(s, m.view) EXCEPT !.log = Replaced(s.log, m),
                                                !.lastOp = m.lastOp]
    IN  /\ GetLeaderIndex(m.view) # r
        /\ Joins(s, m.view) /\ Reaches(s, m)
        /\ CanCommit(entered.log, m.lastCommitted)
        /\ Step(r, SendPrepareOKs(r, CommitUpTo(Went(entered, {}),
                                                m.lastCommitted), s.lastOp))
-----------------------------------------------------------------------------
(* Crash and recovery *)

Nonce(r) == <<r, restarts[r]>>

(* Nothing is on disk: the replica comes back with an empty log and asks    *)
(* the others, under a nonce of its own.                                     *)
Restart(r) ==
  /\ FoldSet(LAMBDA q, sum : sum + restarts[q], 0, Indices) < MaxRestarts
  /\ restarts' = [restarts EXCEPT ![r] = @ + 1]
  /\ replica' = [replica EXCEPT ![r] = [InitialReplica EXCEPT
                                          !.status = "RECOVERING"]]
  /\ msgs' = msgs \cup {[type |-> "RECOVERY", src |-> r,
                         nonce |-> Nonce(r)']}
  /\ UNCHANGED invoked

HandleRecovery(r) ==
  \E m \in Received("RECOVERY") :
    /\ m.src # r /\ replica[r].status = "NORMAL"
    /\ Step(r, Went(replica[r], {RecoveryResponse(r, replica[r], m)}))

(* MUTANT of FromLeader: any answer of the latest view will do.             *)
MutantFromLeader(responses) ==
  {m \in responses : \A n \in responses : n.view <= m.view}

(* The answer of the leader of the latest view heard of.                     *)
FromLeader(responses) ==
  {m \in responses : /\ \A n \in responses : n.view <= m.view
                     /\ GetLeaderIndex(m.view) = m.src}

RecoveryResponseQuorum(responses) == Cardinality(responses) >= QuorumSize

HandleRecoveryResponse(r) ==
  \E m \in Received("RECOVERYRESPONSE") :
    LET s == [replica[r] EXCEPT !.recoveryResponses = With(@, m)]
        leader == FromLeader(s.recoveryResponses)
    IN  /\ m.to = r /\ m.nonce = Nonce(r)
        /\ s.status = "RECOVERING"
        /\ \/ /\ ~RecoveryResponseQuorum(s.recoveryResponses) \/ leader = {}
              /\ Step(r, Went(s, {}))
           \/ /\ RecoveryResponseQuorum(s.recoveryResponses)
              /\ \E d \in leader :
                   LET entered == [EnterView(s, d.view) EXCEPT
                                     !.log = Install(s.log, d.entries),
                                     !.lastOp = d.lastOp]
                   IN  /\ CanCommit(entered.log, d.lastCommitted)
                       /\ Step(r, CommitUpTo(Went(entered, {}), d.lastCommitted))
-----------------------------------------------------------------------------
(* The client *)

Answered(c) ==
  \E m \in Received("REPLY") : m.request = [client |-> c, id |-> invoked[c]]

(* The first request, or the next one after the last one is answered.       *)
Invoke(c) ==
  /\ invoked[c] < MaxReqId
  /\ invoked[c] > 0 => Answered(c)
  /\ invoked' = [invoked EXCEPT ![c] = @ + 1]
  /\ UNCHANGED <<replica, restarts, msgs>>

Next ==
  \/ \E c \in Clients : Invoke(c)
  \/ \E r \in Indices :
       \/ HandleRequest(r) \/ CloseBatchTimeout(r) \/ SendNullCommit(r)
       \/ HandlePrepare(r) \/ HandlePrepareOK(r) \/ HandleCommit(r)
       \/ HandleRequestStateTransfer(r) \/ HandleStateTransfer(r)
       \/ ViewChangeTimeout(r) \/ HandleStartViewChange(r)
       \/ HandleDoViewChange(r) \/ HandleStartView(r)
       \/ Restart(r) \/ HandleRecovery(r) \/ HandleRecoveryResponse(r)

Spec == Init /\ [][Next]_vars
-----------------------------------------------------------------------------
(* Properties *)

(* Type correctness (vr/replica.h, class VRReplica).                         *)
TypeOK ==
  /\ invoked \in [Clients -> 0 .. MaxReqId]
  /\ restarts \in [Indices -> 0 .. MaxRestarts]
  /\ \A r \in Indices : LET s == replica[r] IN
       /\ DOMAIN s = DOMAIN InitialReplica
       /\ s.status \in {"NORMAL", "VIEW_CHANGE", "RECOVERING"}
       /\ s.view \in 0 .. MaxView
       /\ \A i \in DOMAIN s.log : /\ s.log[i].view \in 0 .. s.view
                                  /\ s.log[i].opnum \in Nat
                                  /\ s.log[i].request \in Request
       /\ s.lastOp \in 0 .. Len(s.log)
       /\ s.lastBatchEnd \in Nat
       /\ ToSet(s.executed) \subseteq Request
       /\ s.clientAddresses \subseteq Clients
       /\ \A c \in Clients : s.clientTable[c].id \in 0 .. MaxReqId

(* What a PREPARE has at an opnum.                                           *)
RequestAt(p, opnum) == p.requests[opnum - p.batchStart + 1]

(* What the leader of a view prepared and committed is in the log of every  *)
(* replica that has entered a later view: the majority that prepared it and *)
(* the one the new leader heard from have a replica in common, whose log    *)
(* is the latest (HandlePrepareOK, HandleDoViewChange, HandleStartView).      *)
CommittedStays ==
  \A m \in Received("COMMIT") : \A p \in Received("PREPARE") :
    p.view = m.view =>
      \A k \in p.batchStart .. p.opnum : k <= m.opnum =>
        \A r \in Indices : LET s == replica[r] IN
          s.status = "NORMAL" /\ s.view > m.view =>
            k \in DOMAIN s.log /\ s.log[k].request = RequestAt(p, k)

Entries == UNION {ToSet(replica[r].log) : r \in Indices}

(* A viewstamp names one request, whichever replica's log it is in: this is *)
(* what lets Log::Install and HandleStateTransfer compare views only.         *)
ViewstampsUnique ==
  \A e, f \in Entries :
    e.view = f.view /\ e.opnum = f.opnum => e.request = f.request

(* A replica that has acknowledged an operation of its view has it, even if *)
(* it has restarted since and recovered from the others (HandlePrepare,     *)
(* HandleRecoveryResponse).                                                   *)
PromisesKept ==
  \A m \in Received("PREPAREOK") :
    LET s == replica[m.src] IN
    s.status = "NORMAL" /\ s.view = m.view =>
      /\ m.opnum <= s.lastOp
      /\ \A p \in Received("PREPARE") :
           p.view = m.view =>
             \A k \in p.batchStart .. p.opnum : k <= m.opnum =>
               k \in DOMAIN s.log /\ s.log[k].request = RequestAt(p, k)

(* The replicas execute one sequence of requests, none of them twice, and   *)
(* a client is answered from it, whatever was executed by a replica that    *)
(* has lost it since (CommitUpTo, HandleRequest).                             *)
ExecutionsAgree ==
  /\ \A r, q \in Indices : LET a == replica[r].executed
                               b == replica[q].executed
                           IN  \A i \in DOMAIN a \cap DOMAIN b : a[i] = b[i]
  /\ \A r \in Indices : IsInjective(replica[r].executed)
  /\ \A m \in Received("REPLY") : \A r \in Indices :
       m.opnum \in DOMAIN replica[r].executed =>
         replica[r].executed[m.opnum] = m.request

(* ASSERT(entry->viewstamp.opnum == opnum) (common/log.cc:94): the entry    *)
(* with an opnum is at that place in the log (Log::Append, Log::Find).        *)
LogInOrder ==
  \A r \in Indices : \A i \in DOMAIN replica[r].log :
    replica[r].log[i].opnum = i
=============================================================================
