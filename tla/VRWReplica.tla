----------------------------- MODULE VRWReplica -----------------------------
(***************************************************************************)
(* A replica of Viewstamped Replication with witnesses (vrw/replica.cc),     *)
(* and the client (vrw/client.cc).  One action is one message handler or     *)
(* timer callback.                                                            *)
(***************************************************************************)
EXTENDS VRWState

(* MUTANT of UpdateClientTable: forget to remember the request.             *)
MutantUpdateClientTable(s, request) == s

(* A request from before the last one is no news.                            *)
UpdateClientTable(s, request) ==
  [s EXCEPT !.clientTable[request.client] =
     IF @.id >= request.id THEN @
     ELSE [id |-> request.id, replied |-> FALSE, opnum |-> 0]]

UpdateClients(s, entries) ==
  FoldLeft(LAMBDA t, e : UpdateClientTable(t, e.request), s, entries)

(* Execute the entry at an opnum, keep its reply unless a later request of  *)
(* its client is known, and answer the client if it has sent the request.   *)
Execute(x, opnum) ==
  LET e == Find(x.s.log, opnum)
      c == e.request.client
  IN  Went([x.s EXCEPT
              !.lastCommitted = opnum,
              !.executed = Append(@, e.request),
              !.clientTable[c] =
                 IF @.id > e.request.id THEN @
                 ELSE [id |-> e.request.id, replied |-> TRUE,
                       opnum |-> e.opnum]],
           IF c \in x.s.clientAddresses
           THEN x.out \cup {Reply(e.request, e.opnum)} ELSE x.out)

CommitUpTo(x, upto) == FoldLeft(Execute, x, Opnums(x.s.lastCommitted + 1, upto))

(* All that is to be executed is in the log: otherwise the replica panics.   *)
CanCommit(s, upto) == \A k \in s.lastCommitted + 1 .. upto : Has(s.log, k)

(* Acknowledge what is new, from oldLastOp on, and not committed.            *)
SendPrepareOKs(r, x, oldLastOp) ==
  FoldLeft(LAMBDA y, k :
             Went(UpdateClientTable(y.s, Find(y.s.log, k).request),
                  y.out \cup {PrepareOK(r, y.s, y.s.view, k)}),
           x, Opnums(Larger(oldLastOp, x.s.lastCommitted + 1), x.s.lastOp))

EnterView(s, view) ==
  [s EXCEPT !.view = view, !.status = "NORMAL", !.lastBatchEnd = s.lastOp,
            !.batchComplete = TRUE, !.closeBatch = FALSE, !.prepareOKs = {},
            !.startViewChanges = {}, !.doViewChanges = {},
            !.recoveryResponses = {}]

StartViewChange(r, s, view) ==
  Went([s EXCEPT !.view = view, !.status = "VIEW_CHANGE",
                 !.closeBatch = FALSE, !.startViewChanges = {},
                 !.doViewChanges = {}],
       {StartViewChangeMessage(r, s, view)})

(* Clean up to an opnum if that is further than before.                       *)
CleanLog(s, upto) ==
  IF upto <= s.cleanUpTo THEN s
  ELSE [s EXCEPT !.cleanUpTo = upto, !.log = RemoveUpTo(@, upto)]

(* Prepare what has come since the last batch, tell everyone what all have  *)
(* committed, and clean the log up to there.  The replica panics when this   *)
(* is less than what it told before.                                          *)
CloseBatch(x) ==
  LET s        == x.s
      lowest   == GetLowestReplicaCommit(s)
      ops      == Opnums(s.lastBatchEnd + 1, s.lastOp)
      closed   == [s EXCEPT !.lastBatchEnd = s.lastOp, !.batchComplete = FALSE,
                            !.closeBatch = FALSE]
      prepare  == [type |-> "PREPARE", view |-> s.view, opnum |-> s.lastOp,
                   batchStart |-> s.lastBatchEnd + 1, cleanUpTo |-> lowest,
                   requests |-> [i \in DOMAIN ops |->
                                   Find(s.log, ops[i]).request]]
  IN  Went(IF lowest < s.cleanUpTo THEN [closed EXCEPT !.status = "PANIC"]
           ELSE CleanLog(closed, lowest),
           x.out \cup {prepare})

Step(r, step) ==
  /\ replica[r].status # "PANIC"
  /\ step.s.view <= MaxView
  /\ replica' = [replica EXCEPT ![r] = step.s]
  /\ msgs' = msgs \cup step.out
  /\ UNCHANGED <<witness, restarts, invoked>>
-----------------------------------------------------------------------------
(* The normal case *)

(* A duplicate of the last request is answered if it has been executed.     *)
HandleDuplicateRequest(r, s, request) ==
  LET entry == s.clientTable[request.client] IN
  Step(r, Went(s, IF request.id = entry.id /\ entry.replied
                  THEN {Reply(request, entry.opnum)} ELSE {}))

(* The batch is full, or there is none under way.                            *)
BatchFull(s) ==
  s.batchComplete \/ s.lastOp - s.lastBatchEnd + 1 \notin 0 .. BatchSize

AppendRequest(r, s, request) ==
  LET known == UpdateClientTable(s, request)
      op    == s.lastOp + 1
      t     == [known EXCEPT !.lastOp = op,
                             !.log = AppendEntry(@, Entry(s.view, op, request))]
  IN  /\ op <= MaxOps
      /\ Step(r, IF BatchFull(t) THEN CloseBatch(Went(t, {}))
                 ELSE Went([t EXCEPT !.closeBatch = TRUE], {}))

HandleRequest(r) ==
  \E c \in Clients : \E id \in 1 .. invoked[c] :
    LET s       == [replica[r] EXCEPT !.clientAddresses = @ \cup {c}]
        request == [client |-> c, id |-> id]
    IN  /\ s.status = "NORMAL" /\ AmLeader(r, s)
        /\ IF id <= s.clientTable[c].id THEN HandleDuplicateRequest(r, s, request)
           ELSE AppendRequest(r, s, request)

CloseBatchTimeout(r) ==
  /\ replica[r].closeBatch
  /\ Step(r, CloseBatch(Went(replica[r], {})))

(* The leader tells what it has committed, and that it is there.            *)
SendNullCommit(r) ==
  /\ AmLeader(r, replica[r]) /\ replica[r].status = "NORMAL"
  /\ Step(r, Went(replica[r], {Commit(replica[r])}))

(* The requests of a PREPARE that come after the log's last one.             *)
Appended(s, m) ==
  FoldLeft(LAMBDA t, op :
             LET request == m.requests[op - m.batchStart + 1]
             IN  UpdateClientTable(
                   [t EXCEPT !.lastOp = @ + 1,
                             !.log = AppendEntry(@, Entry(m.view, op, request))],
                   request),
           s, Opnums(s.lastOp + 1, m.opnum))

(* A PREPARE of the replica's view: the log is cleaned first, if all have    *)
(* committed what the PREPARE says they have.                                 *)
HandlePrepareInView(r, m) ==
  LET s  == CleanLog(replica[r], m.cleanUpTo)
      ok == PrepareOK(r, s, m.view, m.opnum)
  IN  /\ m.cleanUpTo <= replica[r].lastCommitted
      /\ \/ /\ m.opnum <= s.lastOp
            /\ Step(r, Went(s, {ok}))
         \/ /\ m.opnum > s.lastOp /\ m.batchStart > s.lastOp + 1
            /\ Step(r, Went(s, RequestStateTransfer(r, s)))
         \/ /\ m.opnum > s.lastOp /\ m.batchStart <= s.lastOp + 1
            /\ Step(r, Went(Appended(s, m), {ok}))

(* One of a later view, or of the view that is being changed to, tells that *)
(* the STARTVIEW was missed.                                                  *)
HandlePrepare(r) ==
  LET s == replica[r] IN
  \E m \in Received("PREPARE") :
    /\ GetLeaderIndex(m.view) # r
    /\ \/ /\ m.view > s.view /\ s.status = "NORMAL"
          /\ Step(r, Went(s, RequestStateTransfer(r, s)))
       \/ /\ m.view = s.view /\ s.status = "VIEW_CHANGE"
          /\ Step(r, Went(s, RequestStateTransfer(r, s)))
       \/ /\ m.view = s.view /\ s.status = "NORMAL"
          /\ HandlePrepareInView(r, m)

PrepareOKQuorum(s, opnum) ==
  Cardinality({q \in s.prepareOKs : q.opnum = opnum}) >= QuorumSize - 1

(* The first quorum commits, is announced and lets the next batch go.       *)
HandlePrepareOKQuorum(r, x, opnum) ==
  LET committed == CommitUpTo(x, opnum)
      s   == [committed.s EXCEPT !.lastCommitteds[r] =
                committed.s.lastCommitted]
      all == {q \in s.prepareOKs : q.opnum = opnum}
      announced == Went(s, committed.out \cup {Commit(s)})
  IN  CASE Cardinality(all) >= QuorumSize -> Went(s, committed.out)
        [] Cardinality(all) < QuorumSize /\ s.lastBatchEnd # opnum -> announced
        [] Cardinality(all) < QuorumSize /\ s.lastBatchEnd = opnum ->
             LET done == Went([s EXCEPT !.batchComplete = TRUE], announced.out)
             IN  IF s.lastOp > opnum THEN CloseBatch(done) ELSE done

(* MUTANT of Heard: what the leader has committed passes for what the       *)
(* other has.                                                                 *)
MutantHeard(s, m) ==
  [s EXCEPT !.lastCommitteds[m.src] = m.opnum,
            !.prepareOKs = @ \cup {[opnum |-> m.opnum, src |-> m.src]}]

(* What the other has committed is taken from its last message to arrive.    *)
Heard(s, m) ==
  [s EXCEPT !.lastCommitteds[m.src] = m.lastCommitted,
            !.prepareOKs = @ \cup {[opnum |-> m.opnum, src |-> m.src]}]

HandlePrepareOK(r) ==
  \E m \in Received("PREPAREOK") :
    LET s == Heard(replica[r], m) IN
    /\ GetLeaderIndex(m.view) = r
    /\ replica[r].status = "NORMAL" /\ m.view >= replica[r].view
    /\ \/ /\ m.view > replica[r].view
          /\ Step(r, Went(replica[r], RequestStateTransfer(r, replica[r])))
       \/ /\ m.view = replica[r].view /\ ~PrepareOKQuorum(s, m.opnum)
          /\ Step(r, Went(s, {}))
       \/ /\ m.view = replica[r].view /\ PrepareOKQuorum(s, m.opnum)
          /\ CanCommit(s, m.opnum)
          /\ Step(r, HandlePrepareOKQuorum(r, Went(s, {}), m.opnum))

HandleCommit(r) ==
  LET s == replica[r] IN
  \E m \in Received("COMMIT") :
    /\ GetLeaderIndex(m.view) # r
    /\ s.status = "NORMAL"
    /\ \/ /\ \/ m.view > s.view
             \/ m.view = s.view /\ m.opnum > s.lastCommitted /\ m.opnum > s.lastOp
          /\ Step(r, Went(s, RequestStateTransfer(r, s)))
       \/ /\ m.view = s.view
          /\ m.opnum > s.lastCommitted /\ m.opnum <= s.lastOp
          /\ CanCommit(s, m.opnum)
          /\ Step(r, CommitUpTo(Went(s, {}), m.opnum))
-----------------------------------------------------------------------------
(* State transfer *)

HandleRequestStateTransfer(r) ==
  LET s == replica[r] IN
  \E m \in Received("REQUESTSTATETRANSFER") :
    /\ m.src # r /\ s.status = "NORMAL"
    /\ Step(r, Went(s, IF m.view > s.view THEN RequestStateTransfer(r, s)
                       ELSE {StateTransfer(s, m.opnum, m.src)}))

(* MUTANT of Transferred: an entry that is new is not counted.              *)
MutantTransferred(y, e) ==
  IF e.opnum <= y.s.lastOp THEN y
  ELSE [y EXCEPT !.s.log = AppendEntry(@, e)]

(* One entry of a STATETRANSFER: it is there, it replaces an entry of an    *)
(* older view and everything after it, or it is the next one.  y.old is the *)
(* opnum from which on the log is acknowledged.                               *)
Transferred(y, e) ==
  LET s    == y.s
      next == [s EXCEPT !.log = AppendEntry(@, e), !.lastOp = @ + 1]
      kept == AppendEntry(RemoveAfter(s.log, e.opnum), e)
  IN  CASE e.opnum <= s.lastCommitted -> y
        [] e.opnum > s.lastCommitted /\ e.opnum <= s.lastOp ->
             IF Find(s.log, e.opnum).view = e.view THEN y
             ELSE [s   |-> [s EXCEPT !.log = kept, !.lastOp = e.opnum],
                   old |-> e.opnum]
        [] e.opnum > s.lastCommitted /\ e.opnum > s.lastOp ->
             [y EXCEPT !.s = next]

(* Whatever the status, the entries are taken; a later view is entered, and *)
(* the view that is being changed to.                                         *)
HandleStateTransfer(r) ==
  \E m \in Received("STATETRANSFER") :
    LET s == replica[r]
        y == FoldLeft(Transferred, [s |-> s, old |-> s.lastOp], m.entries)
        u == UpdateClients(y.s, m.entries)
        t == IF Joins(s, m.view) THEN EnterView(u, m.view) ELSE u
    IN  /\ m.to = r /\ m.view >= s.view
        /\ CanCommit(t, m.opnum)
        /\ Step(r, SendPrepareOKs(r, CommitUpTo(Went(t, {}), m.opnum), y.old))
-----------------------------------------------------------------------------
(* View change *)

ViewChangeTimeout(r) ==
  LET s == replica[r] IN
  /\ r \in Impatient
  /\ s.status = "VIEW_CHANGE" \/ (s.status = "NORMAL" /\ ~AmLeader(r, s))
  /\ Step(r, StartViewChange(r, s, NextView(s.view)))

Joined(r, s, view) ==
  IF view > s.view THEN StartViewChange(r, s, view) ELSE Went(s, {})

HandleStartViewChange(r) ==
  \E m \in Received("STARTVIEWCHANGE") :
    LET x      == Joined(r, replica[r], m.view)
        s      == [x.s EXCEPT !.startViewChanges = With(@, m)]
        lowest == Min({LowestHeard(s), GetLowestReplicaCommit(s)})
    IN  /\ m.src # r
        /\ Joins(replica[r], m.view)
        /\ Step(r, IF /\ Cardinality(s.startViewChanges) >= QuorumSize - 1
                      /\ GetLeaderIndex(m.view) # r
                   THEN Went(s, x.out \cup {DoViewChange(r, s, lowest)})
                   ELSE Went(s, x.out))

DoViewChangeQuorum(s) == Cardinality(s.doViewChanges) >= QuorumSize - 1

(* The order of the viewstamps at the end of two logs.                       *)
Later(view, op, than) ==
  view > than.view \/ (view = than.view /\ op > than.opnum)

(* MUTANT of LatestMessages: any longer log will do, the shortest of them.  *)
MutantLatestMessages(s) ==
  {d \in s.doViewChanges : \A e \in s.doViewChanges : d.lastOp <= e.lastOp}

(* The message whose log ends with the latest viewstamp, if that is later   *)
(* than the last one of the leader's own log.                                *)
LatestMessages(s) ==
  {d \in s.doViewChanges :
     /\ Later(d.lastNormalView, d.lastOp, LastViewstamp(s.log))
     /\ \A e \in s.doViewChanges \ {d} :
          LET than == [view |-> d.lastNormalView, opnum |-> d.lastOp] IN
          /\ ~Later(e.lastNormalView, e.lastOp, than)
          /\ e.lastNormalView = d.lastNormalView /\ e.lastOp = d.lastOp =>
               d.src < e.src}

(* Where the log of the STARTVIEW starts: what the lowest of the messages   *)
(* has committed.  Without a STARTVIEWCHANGE the code reads past the end of *)
(* the empty set, so that anything may come out lower.                        *)
LowestCommitted(s) ==
  LET lowest == Min({d.lastCommitted : d \in s.doViewChanges}
                      \cup {s.lastCommitted, GetLowestReplicaCommit(s)})
  IN  IF s.startViewChanges = {} THEN 0 .. lowest
      ELSE {Min({q.lastCommitted : q \in s.startViewChanges} \cup {lowest})}

(* All have committed what the new leader itself has cleaned up to.           *)
Forgotten(s) ==
  [s EXCEPT !.lastCommitteds = [i \in Indices |-> s.cleanUpTo]]

HighestCommitted(s) ==
  Max({d.lastCommitted : d \in s.doViewChanges} \cup {s.lastCommitted})

(* The view is entered with the latest log.                                  *)
TakenOver(s, view) ==
  LET latest    == LatestMessages(s)
      d         == CHOOSE e \in latest : TRUE
      installed == IF latest = {} THEN s
                   ELSE UpdateClients([s EXCEPT !.log = Replaced(@, d)],
                                      d.entries)
      op        == IF latest = {} THEN LastOpnum(s.log) ELSE d.lastOp
  IN  EnterView([installed EXCEPT !.lastOp = op], view)

TakeOver(x, view, low) ==
  LET y == CommitUpTo(Went(TakenOver(x.s, view), x.out), HighestCommitted(x.s))
      s == Forgotten(y.s)
  IN  Went(s, y.out \cup {StartView(s, low)})

HandleDoViewChange(r) ==
  \E m \in Received("DOVIEWCHANGE") :
    LET x == Joined(r, replica[r], m.view)
        s == [x.s EXCEPT !.doViewChanges = With(@, m)]
    IN  /\ GetLeaderIndex(m.view) = r
        /\ Joins(replica[r], m.view)
        /\ \/ ~DoViewChangeQuorum(s) /\ Step(r, Went(s, x.out))
           \/ /\ DoViewChangeQuorum(s)
              /\ \A d \in LatestMessages(s) : Reaches(s, d)
              /\ CanCommit(TakenOver(s, m.view), HighestCommitted(s))
              /\ \E low \in LowestCommitted(s) :
                   Step(r, TakeOver(Went(s, x.out), m.view, low))

HandleStartView(r) ==
  LET s == replica[r] IN
  \E m \in Received("STARTVIEW") :
    LET known   == UpdateClients([s EXCEPT !.log = Replaced(s.log, m)],
                                 m.entries)
        entered == [EnterView(known, m.view) EXCEPT !.lastOp = m.lastOp]
    IN  /\ GetLeaderIndex(m.view) # r
        /\ Joins(s, m.view) /\ Reaches(s, m)
        /\ CanCommit(entered, m.lastCommitted)
        /\ Step(r, SendPrepareOKs(r, CommitUpTo(Went(entered, {}),
                                                m.lastCommitted), s.lastOp))
-----------------------------------------------------------------------------
(* Crash and recovery *)

(* Nothing is on disk: the replica comes back with an empty log and asks    *)
(* the others, under a nonce of its own.                                     *)
Restart(r) ==
  /\ MayRestart
  /\ restarts' = [restarts EXCEPT ![r] = @ + 1]
  /\ replica' = [replica EXCEPT ![r] = [InitialReplica EXCEPT
                                          !.status = "RECOVERING"]]
  /\ msgs' = msgs \cup {Recovery(r)'}
  /\ UNCHANGED <<witness, invoked>>

(* Only the leader's answer has its log, or what has not been cleaned of it. *)
RecoveryResponse(r, s, m) ==
  LET leads == AmLeader(r, s) IN
  [type |-> "RECOVERYRESPONSE", view |-> s.view, src |-> r, to |-> m.src,
   nonce |-> m.nonce, lastOp |-> IF leads THEN s.lastOp ELSE 0,
   lastCommitted |-> IF leads THEN s.lastCommitted ELSE 0,
   entries |-> IF leads THEN Dump(s.log, 0) ELSE << >>]

HandleRecovery(r) ==
  \E m \in Received("RECOVERY") :
    /\ m.src # r /\ replica[r].status = "NORMAL"
    /\ Step(r, Went(replica[r], {RecoveryResponse(r, replica[r], m)}))

HandleRecoveryResponse(r) ==
  \E m \in Received("RECOVERYRESPONSE") :
    LET s == [replica[r] EXCEPT !.recoveryResponses = With(@, m)]
        leader == FromLeader(s.recoveryResponses)
    IN  /\ m.to = r /\ m.nonce = Nonce(r)
        /\ s.status = "RECOVERING"
        /\ \/ /\ ~RecoveryResponseQuorum(s.recoveryResponses) \/ leader = {}
              /\ Step(r, Went(s, {}))
           \/ /\ RecoveryResponseQuorum(s.recoveryResponses)
              /\ \E d \in leader :
                   LET t == [EnterView([s EXCEPT !.log = Install(@, d.entries)],
                                       d.view) EXCEPT !.lastOp = d.lastOp]
                   IN  /\ CanCommit(t, d.lastCommitted)
                       /\ Step(r, CommitUpTo(Went(t, {}), d.lastCommitted))
-----------------------------------------------------------------------------
(* The client *)

Answered(c) ==
  \E m \in Received("REPLY") : m.request = [client |-> c, id |-> invoked[c]]

(* The first request, or the next one after the last one is answered.       *)
Invoke(c) ==
  /\ invoked[c] < MaxReqId
  /\ invoked[c] > 0 => Answered(c)
  /\ invoked' = [invoked EXCEPT ![c] = @ + 1]
  /\ UNCHANGED <<replica, witness, restarts, msgs>>

ReplicaNext(r) ==
  \/ HandleRequest(r) \/ CloseBatchTimeout(r) \/ SendNullCommit(r)
  \/ HandlePrepare(r) \/ HandlePrepareOK(r) \/ HandleCommit(r)
  \/ HandleRequestStateTransfer(r) \/ HandleStateTransfer(r)
  \/ ViewChangeTimeout(r) \/ HandleStartViewChange(r)
  \/ HandleDoViewChange(r) \/ HandleStartView(r)
  \/ Restart(r) \/ HandleRecovery(r) \/ HandleRecoveryResponse(r)
=============================================================================
