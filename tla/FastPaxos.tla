------------------------------ MODULE FastPaxos -----------------------------
(***************************************************************************)
(* The Fast Paxos replica and client (fastpaxos/replica.cc, client.cc).     *)
(* Only the normal case exists in the code: the view is 0 for ever, its     *)
(* leader is replica 0, the status is always NORMAL and nothing recovers.   *)
(* Clients send a request to every replica.  The leader's log decides the  *)
(* order; a follower appends what it receives (the fast path), reports it   *)
(* to the leader, and has the entry replaced when the leader's differs      *)
(* (the slow path).  One action is one message handler or timer callback:   *)
(* a replica is an event loop and runs them one at a time.                  *)
(***************************************************************************)
EXTENDS Configuration, Sequences

CONSTANTS
  Clients,
  Leader,      \* the replica with index GetLeaderIndex(0)
  Followers,   \* the others: nothing tells them apart
  Down,        \* followers that never receive anything
  MaxReqId,    \* bound: requests a client makes
  Redelivery,  \* TRUE: a datagram may arrive any number of times, or never
  MaxDrops,    \* bound: datagrams lost, when each arrives at most once
  MaxTransfers \* bound: STATETRANSFERs in flight

ASSUME FastPaxosAssumption ==
  /\ IsFiniteSet(Followers) /\ Followers # {} /\ Leader \notin Followers
  /\ Cardinality(Followers) = N - 1 /\ Down \subseteq Followers
  /\ MaxReqId \in Nat /\ MaxDrops \in Nat /\ MaxTransfers \in Nat
  /\ Redelivery \in BOOLEAN

Replicas == Followers \cup {Leader}
Listeners == Followers \ Down
Request == [client : Clients, reqid : 1 .. MaxReqId]

VARIABLES
  log,                \* log[r]: requests; entry i is the one with opnum i
  lastFastPath,       \* last opnum r has any entry for
  lastSlowPath,       \* last opnum r holds the leader's entry for
  lastCommitted,      \* last opnum r has executed
  clientTable,        \* clientTable[r][c]: r's last request of c, its reply
  clientAddresses,    \* clients r has heard from directly
  pendingPrepares,    \* PREPAREs a follower put aside
  pendingPrepareOKs,  \* PREPAREOKs the leader put aside
  requestedTransfer,  \* lastRequestStateTransferOpnum of r, 0 for none
  slowPrepareOKQuorum, fastPrepareOKQuorum,  \* the leader's: <<opnum, sender>>
  lastReqId,          \* the clients' request counters
  msgs, drops                                \* the network

logVars == <<log, lastFastPath, lastSlowPath, lastCommitted, clientTable>>
quorumVars == <<slowPrepareOKQuorum, fastPrepareOKQuorum>>
pendingVars == <<pendingPrepares, pendingPrepareOKs, requestedTransfer>>
vars == <<logVars, clientAddresses, quorumVars, pendingVars, lastReqId,
          msgs, drops>>

(* No entry: ClientTableEntry is value-initialised by map::operator[].     *)
ClientTableEntry == [lastReqId : Nat, replied : BOOLEAN, opnum : Nat]
NoEntry == [lastReqId |-> 0, replied |-> FALSE, opnum |-> 0]

Init ==
  /\ log = [r \in Replicas |-> << >>]
  /\ lastFastPath = [r \in Replicas |-> 0]
  /\ lastSlowPath = [r \in Replicas |-> 0]
  /\ lastCommitted = [r \in Replicas |-> 0]
  /\ clientTable = [r \in Replicas |-> [c \in Clients |-> NoEntry]]
  /\ clientAddresses = [r \in Replicas |-> {}]
  /\ pendingPrepares = [r \in Replicas |-> {}]
  /\ pendingPrepareOKs = {}
  /\ requestedTransfer = [r \in Replicas |-> 0]
  /\ slowPrepareOKQuorum = {}
  /\ fastPrepareOKQuorum = {}
  /\ lastReqId = [c \in Clients |-> 0]
  /\ msgs = {}
  /\ drops = 0

-----------------------------------------------------------------------------
(* Messages.  A reply's result is named by the opnum it was computed at: the *)
(* application is deterministic in the operations executed up to there.    *)

RequestTo(r, req) == [type |-> "REQUEST", dst |-> r, req |-> req]
Reply(req, k) == [type |-> "REPLY", req |-> req, opnum |-> k]
Prepare(r, k, req) == [type |-> "PREPARE", dst |-> r, opnum |-> k, req |-> req]
PrepareOK(r, k, req, slow) ==
  [type |-> "PREPAREOK", src |-> r, opnum |-> k, req |-> req, slowpath |-> slow]
Commit(r, k, req) == [type |-> "COMMIT", dst |-> r, opnum |-> k, req |-> req]

(* Bug: ask from the opnum before the one the receiver would start after.    *)
MutantTransferRequest(r, s, k) ==
  [type |-> "REQUESTSTATETRANSFER", src |-> r, dst |-> s, opnum |-> k - 1]

TransferRequest(r, s, k) ==
  [type |-> "REQUESTSTATETRANSFER", src |-> r, dst |-> s, opnum |-> k]

(* Bug: claim that all the entries sent are committed.                       *)
MutantStateTransfer(r, lo) ==
  [type |-> "STATETRANSFER", dst |-> r, opnum |-> lastSlowPath[Leader],
   first |-> lo + 1, entries |-> SubSeq(log[Leader], lo + 1, Len(log[Leader]))]

StateTransfer(r, lo) ==
  [type |-> "STATETRANSFER", dst |-> r, opnum |-> lastCommitted[Leader],
   first |-> lo + 1, entries |-> SubSeq(log[Leader], lo + 1, Len(log[Leader]))]

(* A handler consumes m, unless the network may deliver it again, and sends. *)
Receive(m, out) ==
  /\ m \in msgs
  /\ msgs' = (IF Redelivery THEN msgs ELSE msgs \ {m}) \cup out
  /\ UNCHANGED drops

(* The same for a handler that changes nothing else: when the network may     *)
(* deliver m again and the answer is on its way already, nothing happens.   *)
Answer(m, out) == Receive(m, out) /\ msgs' # msgs

Send(out) == msgs' = msgs \cup out /\ UNCHANGED drops

-----------------------------------------------------------------------------
(* Helpers the handlers share.                                              *)

(* Bug: forget to remember the request.                                      *)
MutantUpdateClientTable(row, reqs) == row

(* UpdateClientTable for each request of the set: remember a newer one.     *)
UpdateClientTable(row, reqs) ==
  [c \in Clients |->
     LET newer == {q.reqid : q \in {p \in reqs : /\ p.client = c
                                                 /\ p.reqid > row[c].lastReqId}}
     IN  IF newer = {} THEN row[c]
         ELSE [lastReqId |-> Max(newer), replied |-> FALSE, opnum |-> 0]]

(* The client table after executing rlog's entries from lo + 1 to hi: a       *)
(* reply is stored unless a later request of its client is known already.   *)
StoreReplies(row, rlog, lo, hi) ==
  [c \in Clients |->
     LET done == {i \in lo + 1 .. hi : /\ rlog[i].client = c
                                       /\ rlog[i].reqid >= row[c].lastReqId}
         newest == {i \in done : \A j \in done : rlog[j].reqid <= rlog[i].reqid}
     IN  IF done = {} THEN row[c]
         ELSE [lastReqId |-> rlog[Max(newest)].reqid, replied |-> TRUE,
               opnum |-> Max(newest)]]

(* The replies sent while executing those entries.                          *)
Replies(addresses, rlog, lo, hi) ==
  {Reply(rlog[i], i) : i \in {j \in lo + 1 .. hi :
                                rlog[j].client \in addresses}}

(* CommitUpTo(upto) at r, with rlog, slow and row the log, lastSlowPath and   *)
(* client table the handler has reached when it calls it.                   *)
CommitUpTo(r, rlog, slow, row, upto) ==
  LET hi == Larger(lastCommitted[r], upto) IN
  /\ log' = [log EXCEPT ![r] = rlog]
  /\ lastCommitted' = [lastCommitted EXCEPT ![r] = hi]
  /\ lastSlowPath' = [lastSlowPath EXCEPT ![r] = Larger(slow, hi)]
  /\ clientTable' = [clientTable EXCEPT
                       ![r] = StoreReplies(row, rlog, lastCommitted[r], hi)]

(* RequestStateTransfer: ask everyone, unless the last request was sent at    *)
(* the same, non-zero, lastCommitted.                                       *)
TransferSuppressed(r) ==
  requestedTransfer[r] # 0 /\ requestedTransfer[r] = lastCommitted[r]

TransferRequests(r) ==
  IF TransferSuppressed(r) THEN {}
  ELSE {TransferRequest(r, s, lastCommitted[r]) : s \in (Replicas \ Down) \ {r}}

RequestStateTransfer(r) ==
  requestedTransfer' = [requestedTransfer EXCEPT ![r] = lastCommitted[r]]

(* lastPrepare is the leader's newest entry: HandleRequest sets it and        *)
(* nothing else does.                                                       *)
LastPrepares ==
  {Prepare(r, lastSlowPath[Leader], log[Leader][lastSlowPath[Leader]]) :
     r \in Listeners}

(* Bug: never resend.                                                        *)
MutantResentPrepares == {}

(* ResendPrepare sends nothing when all the leader's operations have been     *)
(* executed.                                                                *)
ResentPrepares ==
  IF lastSlowPath[Leader] = lastCommitted[Leader] THEN {} ELSE LastPrepares

-----------------------------------------------------------------------------
(* HandleRequest.  A request no newer than the client's last is not           *)
(* appended; the last one is answered again if its reply is known.          *)
HandleDuplicateRequest(r, m) ==
  LET entry == clientTable[r][m.req.client] IN
  /\ m.req.reqid <= entry.lastReqId
  /\ clientAddresses' = [clientAddresses EXCEPT ![r] = @ \cup {m.req.client}]
  /\ Receive(m, IF m.req.reqid = entry.lastReqId /\ entry.replied
                THEN {Reply(m.req, entry.opnum)} ELSE {})
  /\ UNCHANGED <<logVars, quorumVars, pendingVars, lastReqId>>

(* A follower appends the request behind whatever it has and reports it.     *)
FollowerHandleRequest(r, m) ==
  LET k == lastFastPath[r] + 1 IN
  /\ m.req.reqid > clientTable[r][m.req.client].lastReqId
  /\ clientAddresses' = [clientAddresses EXCEPT ![r] = @ \cup {m.req.client}]
  /\ clientTable' = [clientTable EXCEPT ![r] = UpdateClientTable(@, {m.req})]
  /\ log' = [log EXCEPT ![r] = Append(@, m.req)]
  /\ lastFastPath' = [lastFastPath EXCEPT ![r] = k]
  /\ Receive(m, {PrepareOK(r, k, m.req, FALSE)})
  /\ UNCHANGED <<lastSlowPath, lastCommitted, quorumVars, pendingVars,
                 lastReqId>>

(* The leader appends it, and handles the PREPAREOKs that came before it.    *)
(* Those put aside for this opnum are fast-path ones.  Each one that conflicts *)
(* resends the PREPARE, unless the matching ones before it in the list have *)
(* already committed the request: resent is free in that case.              *)
LeaderHandleRequest(m, resent) ==
  LET c == m.req.client
      k == lastSlowPath[Leader] + 1
      ready == {p \in pendingPrepareOKs : p.opnum = k}
      matching == {p \in ready : p.req = m.req}
      oks == {p.src : p \in matching}
      quorum == oks # {} /\ Cardinality(oks) >= FastQuorumSize - 1
      rlog == Append(log[Leader], m.req)
      row == UpdateClientTable(clientTable[Leader], {m.req})
      addresses == clientAddresses[Leader] \cup {c}
      prepares == IF resent THEN {Prepare(r, k, m.req) : r \in Listeners} ELSE {}
  IN
  /\ m.req.reqid > clientTable[Leader][c].lastReqId
  /\ resent => ready # matching
  /\ ready # matching /\ ~quorum => resent
  /\ clientAddresses' = [clientAddresses EXCEPT ![Leader] = addresses]
  /\ lastFastPath' = [lastFastPath EXCEPT ![Leader] = k]
  /\ pendingPrepareOKs' = pendingPrepareOKs \ ready
  /\ fastPrepareOKQuorum' = fastPrepareOKQuorum \cup ({k} \X oks)
  /\ CommitUpTo(Leader, rlog, k, row,
                IF quorum THEN k ELSE lastCommitted[Leader])
  /\ Receive(m, prepares \cup
       IF quorum
       THEN {Commit(r, k, m.req) : r \in Listeners} \cup
            Replies(addresses, rlog, lastCommitted[Leader], k)
       ELSE {})
  /\ UNCHANGED <<slowPrepareOKQuorum, pendingPrepares, requestedTransfer,
                 lastReqId>>

-----------------------------------------------------------------------------
(* HandlePrepare, at a follower: the leader's entry for an opnum.             *)

(* Already prepared: acknowledge again.                                      *)
HandleOldPrepare(r, m) ==
  /\ m.opnum <= lastSlowPath[r]
  /\ Answer(m, {PrepareOK(r, m.opnum, m.req, TRUE)})
  /\ UNCHANGED <<logVars, clientAddresses, quorumVars, pendingVars, lastReqId>>

(* A gap: put it aside and ask for the missing entries.                      *)
HandleEarlyPrepare(r, m) ==
  /\ m.opnum > lastSlowPath[r] + 1
  /\ pendingPrepares' = [pendingPrepares EXCEPT ![r] = @ \cup {m}]
  /\ RequestStateTransfer(r)
  /\ Receive(m, TransferRequests(r))
  /\ UNCHANGED <<logVars, clientAddresses, quorumVars, pendingPrepareOKs,
                 lastReqId>>

(* Bug: append although there is an entry.                                    *)
MutantPlacedBehind(r, k, req) == Append(log[r], req)

(* r's log with req at k: behind all its entries (Log::Append) or in place of  *)
(* one of them (Log::SetRequest).                                           *)
Placed(r, k, req) == IF k > lastFastPath[r] THEN Append(log[r], req)
                     ELSE [log[r] EXCEPT ![k] = req]

(* The next one: append it, or replace the fast-path entry at its place.     *)
HandlePrepare(r, m) ==
  LET k == m.opnum IN
  /\ k = lastSlowPath[r] + 1
  /\ log' = [log EXCEPT ![r] = Placed(r, k, m.req)]
  /\ lastFastPath' = [lastFastPath EXCEPT ![r] = Larger(@, k)]
  /\ lastSlowPath' = [lastSlowPath EXCEPT ![r] = k]
  /\ clientTable' = [clientTable EXCEPT ![r] = UpdateClientTable(@, {m.req})]
  /\ Receive(m, {PrepareOK(r, k, m.req, TRUE)})
  /\ UNCHANGED <<lastCommitted, clientAddresses, quorumVars, pendingVars,
                 lastReqId>>

-----------------------------------------------------------------------------
(* HandlePrepareOK, at the leader.                                            *)

HandleOldPrepareOK(m) ==
  /\ m.opnum <= lastCommitted[Leader]
  /\ Answer(m, {})
  /\ UNCHANGED <<logVars, clientAddresses, quorumVars, pendingVars, lastReqId>>

(* The leader has not received a request for this opnum yet.                 *)
DeferPrepareOK(m) ==
  /\ m.opnum > lastSlowPath[Leader]
  /\ pendingPrepareOKs' = pendingPrepareOKs \cup {m}
  /\ Receive(m, {})
  /\ UNCHANGED <<logVars, clientAddresses, quorumVars, pendingPrepares,
                 requestedTransfer, lastReqId>>

(* Bug: compare the request id and not the client id.                        *)
MutantConflicting(m) == ~m.slowpath /\ m.req.reqid # log[Leader][m.opnum].reqid

(* A fast-path acknowledgement of another request than the leader's.         *)
Conflicting(m) == ~m.slowpath /\ m.req # log[Leader][m.opnum]

HandleConflictingPrepareOK(m) ==
  /\ m.opnum > lastCommitted[Leader] /\ m.opnum <= lastSlowPath[Leader]
  /\ Conflicting(m)
  /\ Answer(m, ResentPrepares)
  /\ UNCHANGED <<logVars, clientAddresses, quorumVars, pendingVars, lastReqId>>

(* An acknowledgement that counts: with a quorum on its path the operation  *)
(* and all before it are executed and the followers are told, once.         *)
HandlePrepareOK(m) ==
  LET k == m.opnum
      L == Leader
      quorum == IF m.slowpath THEN slowPrepareOKQuorum ELSE fastPrepareOKQuorum
      required == (IF m.slowpath THEN QuorumSize ELSE FastQuorumSize) - 1
      counted == quorum \cup {<<k, m.src>>}
      oks == {s \in Replicas : <<k, s>> \in counted}
      reached == Cardinality(oks) >= required
  IN
  /\ k > lastCommitted[L] /\ k <= lastSlowPath[L]
  /\ ~Conflicting(m)
  /\ IF m.slowpath
     THEN slowPrepareOKQuorum' = counted /\ UNCHANGED fastPrepareOKQuorum
     ELSE fastPrepareOKQuorum' = counted /\ UNCHANGED slowPrepareOKQuorum
  /\ CommitUpTo(L, log[L], lastSlowPath[L], clientTable[L],
                IF reached THEN k ELSE lastCommitted[L])
  /\ Receive(m, IF ~reached THEN {}
                ELSE Replies(clientAddresses[L], log[L], lastCommitted[L], k) \cup
                     IF Cardinality(oks) > required THEN {}
                     ELSE {Commit(r, k, log[L][k]) : r \in Listeners})
  /\ UNCHANGED <<lastFastPath, clientAddresses, pendingVars, lastReqId>>

-----------------------------------------------------------------------------
(* HandleCommit, at a follower.  A COMMIT for an opnum the slow path has not  *)
(* reached is used only if it is the very next one: it carries that one     *)
(* request and no other.                                                    *)

Committable(r, k) == k <= lastSlowPath[r] + 1

HandleUselessCommit(r, m) ==
  /\ \/ m.opnum <= lastCommitted[r]
     \/ ~Committable(r, m.opnum) /\ m.opnum <= lastFastPath[r]
  /\ Answer(m, {})
  /\ UNCHANGED <<logVars, clientAddresses, quorumVars, pendingVars, lastReqId>>

HandleEarlyCommit(r, m) ==
  /\ m.opnum > lastFastPath[r]
  /\ RequestStateTransfer(r)
  /\ Receive(m, TransferRequests(r))
  /\ UNCHANGED <<logVars, clientAddresses, quorumVars, pendingPrepares,
                 pendingPrepareOKs, lastReqId>>

HandleCommit(r, m) ==
  LET k == m.opnum
      rlog == IF k > lastSlowPath[r] THEN Placed(r, k, m.req) ELSE log[r]
  IN
  /\ k > lastCommitted[r] /\ k <= lastFastPath[r] /\ Committable(r, k)
  /\ CommitUpTo(r, rlog, lastSlowPath[r], clientTable[r], k)
  /\ Receive(m, Replies(clientAddresses[r], rlog, lastCommitted[r], k))
  /\ UNCHANGED <<lastFastPath, clientAddresses, quorumVars, pendingVars,
                 lastReqId>>

-----------------------------------------------------------------------------
(* State transfer.                                                           *)

(* HandleRequestStateTransfer: the leader sends its log from the opnum after  *)
(* the requester's lastCommitted, and its own lastCommitted; others do not  *)
(* answer.                                                                  *)
HandleRequestStateTransfer(r, m) ==
  /\ Cardinality({t \in msgs : t.type = "STATETRANSFER"}) < MaxTransfers
  /\ Answer(m, IF r = Leader THEN {StateTransfer(m.src, m.opnum)} ELSE {})
  /\ UNCHANGED <<logVars, clientAddresses, quorumVars, pendingVars, lastReqId>>

(* HandleStateTransfer: entries up to lastSlowPath are kept, the others       *)
(* replace or extend the log; then the committed ones are executed, and the *)
(* prepared ones from the old lastSlowPath on acknowledged (SendPrepareOKs). *)
(* The PREPAREs put aside are dropped: the loop meant to handle them runs    *)
(* over the list that was just cleared.                                     *)
LastEntry(m) == m.first + Len(m.entries) - 1

(* Bug: install only what is behind all entries.                             *)
MutantInstalled(r, m) ==
  [i \in 1 .. Larger(lastFastPath[r], LastEntry(m)) |->
     IF i > lastFastPath[r] THEN m.entries[i - m.first + 1] ELSE log[r][i]]

Installed(r, m) ==
  [i \in 1 .. Larger(lastFastPath[r], LastEntry(m)) |->
     IF i > lastSlowPath[r] /\ i <= LastEntry(m)
     THEN m.entries[i - m.first + 1] ELSE log[r][i]]

HandleStateTransfer(r, m) ==
  LET slow == Larger(lastSlowPath[r], LastEntry(m))
      rlog == Installed(r, m)
      hi == Larger(lastCommitted[r], m.opnum)
      unacked == {i \in lastSlowPath[r] .. slow : i > hi}
      row == UpdateClientTable(
               StoreReplies(clientTable[r], rlog, lastCommitted[r], hi),
               {rlog[i] : i \in unacked})
  IN
  /\ log' = [log EXCEPT ![r] = rlog]
  /\ lastFastPath' = [lastFastPath EXCEPT ![r] = Larger(@, LastEntry(m))]
  /\ lastSlowPath' = [lastSlowPath EXCEPT ![r] = Larger(slow, hi)]
  /\ lastCommitted' = [lastCommitted EXCEPT ![r] = hi]
  /\ clientTable' = [clientTable EXCEPT ![r] = row]
  /\ pendingPrepares' = [pendingPrepares EXCEPT ![r] = {}]
  /\ Receive(m, Replies(clientAddresses[r], rlog, lastCommitted[r], hi) \cup
                {PrepareOK(r, i, rlog[i], TRUE) : i \in unacked})
  /\ UNCHANGED <<clientAddresses, quorumVars, pendingPrepareOKs,
                 requestedTransfer, lastReqId>>

-----------------------------------------------------------------------------
(* Timers.                                                                    *)

(* The leader's timer runs from its first request on.                        *)
ResendPrepareTimeout ==
  /\ lastSlowPath[Leader] > 0
  /\ Send(ResentPrepares)
  /\ UNCHANGED <<logVars, clientAddresses, quorumVars, pendingVars, lastReqId>>

StateTransferTimeout(r) ==
  /\ requestedTransfer[r] # 0
  /\ requestedTransfer' = [requestedTransfer EXCEPT ![r] = 0]
  /\ UNCHANGED <<logVars, clientAddresses, quorumVars, pendingPrepares,
                 pendingPrepareOKs, lastReqId, msgs, drops>>

-----------------------------------------------------------------------------
(* The client.  It has one request at a time, sends it to every replica, and   *)
(* takes the first reply to it, from any replica: a reply in flight counts  *)
(* as taken, since all that follows from taking it is the next Invoke, and  *)
(* a reply lost before the client took it is a Drop.                        *)
CurrentRequest(c) == [client |-> c, reqid |-> lastReqId[c]]

Answered(c) ==
  \E m \in msgs : m.type = "REPLY" /\ m.req = CurrentRequest(c)

Invoke(c) ==
  /\ lastReqId[c] = 0 \/ Answered(c)
  /\ lastReqId[c] < MaxReqId
  /\ lastReqId' = [lastReqId EXCEPT ![c] = @ + 1]
  /\ Send({RequestTo(r, [client |-> c, reqid |-> lastReqId[c] + 1]) :
             r \in Replicas \ Down})
  /\ UNCHANGED <<logVars, clientAddresses, quorumVars, pendingVars>>

(* The retry timer runs until the reply has come.                            *)
ResendRequest(c) ==
  /\ lastReqId[c] > 0 /\ ~Answered(c)
  /\ Send({RequestTo(r, CurrentRequest(c)) : r \in Replicas \ Down})
  /\ UNCHANGED <<logVars, clientAddresses, quorumVars, pendingVars, lastReqId>>

(* The network loses a datagram.                                             *)
Drop(m) ==
  /\ drops < MaxDrops
  /\ drops' = drops + 1
  /\ msgs' = msgs \ {m}
  /\ UNCHANGED <<logVars, clientAddresses, quorumVars, pendingVars, lastReqId>>

-----------------------------------------------------------------------------
(* ReceiveMessage: the handler of a message is chosen by its type.           *)
Deliver(m) ==
  \/ /\ m.type = "REQUEST"
     /\ \/ HandleDuplicateRequest(m.dst, m)
        \/ m.dst \in Followers /\ FollowerHandleRequest(m.dst, m)
        \/ m.dst = Leader /\ \E resent \in BOOLEAN :
                               LeaderHandleRequest(m, resent)
  \/ /\ m.type = "PREPARE"
     /\ \/ HandleOldPrepare(m.dst, m) \/ HandleEarlyPrepare(m.dst, m)
        \/ HandlePrepare(m.dst, m)
  \/ /\ m.type = "PREPAREOK"
     /\ \/ HandleOldPrepareOK(m) \/ DeferPrepareOK(m)
        \/ HandleConflictingPrepareOK(m) \/ HandlePrepareOK(m)
  \/ /\ m.type = "COMMIT"
     /\ \/ HandleUselessCommit(m.dst, m) \/ HandleEarlyCommit(m.dst, m)
        \/ HandleCommit(m.dst, m)
  \/ m.type = "REQUESTSTATETRANSFER" /\ HandleRequestStateTransfer(m.dst, m)
  \/ m.type = "STATETRANSFER" /\ HandleStateTransfer(m.dst, m)

Timeout ==
  \/ ResendPrepareTimeout
  \/ \E r \in Replicas : StateTransferTimeout(r)
  \/ \E c \in Clients : ResendRequest(c)

Next ==
  \/ \E c \in Clients : Invoke(c)
  \/ \E m \in msgs : Deliver(m) \/ Drop(m)
  \/ Timeout

Spec == Init /\ [][Next]_vars

(* Fairness.  Every message that stays in flight is delivered: one conjunct   *)
(* for each kind, receiver and sender or opnum.  Every timer keeps firing,  *)
(* since Timeout::Reset arms it again before the callback runs.             *)
Fairness ==
  /\ \A c \in Clients :
       /\ WF_vars(ResendRequest(c))
       /\ \A r \in Replicas :
            WF_vars(\E m \in msgs : m.type = "REQUEST" /\ m.req.client = c
                                    /\ m.dst = r /\ Deliver(m))
  /\ WF_vars(ResendPrepareTimeout)
  /\ \A r \in Replicas :
       /\ WF_vars(StateTransferTimeout(r))
       /\ WF_vars(\E m \in msgs : m.type = "STATETRANSFER" /\ m.dst = r
                                  /\ Deliver(m))
       /\ \A s \in Replicas :
            WF_vars(\E m \in msgs : m.type = "REQUESTSTATETRANSFER"
                                    /\ m.src = r /\ m.dst = s /\ Deliver(m))
       /\ \A k \in 1 .. Cardinality(Clients) * MaxReqId :
            /\ WF_vars(\E m \in msgs : m.type \in {"PREPARE", "COMMIT"}
                                       /\ m.dst = r /\ m.opnum = k /\ Deliver(m))
            /\ WF_vars(\E m \in msgs : m.type = "PREPAREOK" /\ m.slowpath
                                       /\ m.src = r /\ m.opnum = k /\ Deliver(m))
            /\ WF_vars(\E m \in msgs : m.type = "PREPAREOK" /\ ~m.slowpath
                                       /\ m.src = r /\ m.opnum = k /\ Deliver(m))

FairSpec == Spec /\ Fairness

-----------------------------------------------------------------------------
Message ==
  [type : {"REQUEST"}, dst : Replicas, req : Request]
  \cup [type : {"REPLY"}, req : Request, opnum : Nat]
  \cup [type : {"PREPARE", "COMMIT"}, dst : Replicas, opnum : Nat, req : Request]
  \cup [type : {"PREPAREOK"}, src : Replicas, opnum : Nat, req : Request,
        slowpath : BOOLEAN]
  \cup [type : {"REQUESTSTATETRANSFER"}, src : Replicas, dst : Replicas,
        opnum : Nat]
  \cup [type : {"STATETRANSFER"}, dst : Replicas, opnum : Nat, first : Nat,
        entries : Seq(Request)]

(* The type of every variable.                                               *)
TypeOK ==
  /\ log \in [Replicas -> Seq(Request)]
  /\ lastFastPath \in [Replicas -> Nat]
  /\ lastSlowPath \in [Replicas -> Nat]
  /\ lastCommitted \in [Replicas -> Nat]
  /\ clientTable \in [Replicas -> [Clients -> ClientTableEntry]]
  /\ clientAddresses \in [Replicas -> SUBSET Clients]
  /\ pendingPrepares \in [Replicas -> SUBSET Message]
  /\ pendingPrepareOKs \subseteq Message
  /\ requestedTransfer \in [Replicas -> Nat]
  /\ slowPrepareOKQuorum \subseteq Nat \X Replicas
  /\ fastPrepareOKQuorum \subseteq Nat \X Replicas
  /\ lastReqId \in [Clients -> 0 .. MaxReqId]
  /\ msgs \subseteq Message
  /\ drops \in 0 .. MaxDrops

(* The ASSERTs on the three path counters (replica.cc:149, 341, 470, 689,     *)
(* 755, 771) and on the opnum an entry is appended at (log.cc:60-62): the   *)
(* counters are ordered, the log ends at lastFastPath, and the leader has   *)
(* no fast-path tail, whichever of four handlers moved them.                *)
PathsOrdered ==
  /\ \A r \in Replicas : /\ lastCommitted[r] <= lastSlowPath[r]
                         /\ lastSlowPath[r] <= lastFastPath[r]
                         /\ lastFastPath[r] = Len(log[r])
  /\ lastSlowPath[Leader] = lastFastPath[Leader]

(* r holds the leader's entry at k.                                          *)
Holds(r, k) ==
  /\ k \in DOMAIN log[r] /\ k \in DOMAIN log[Leader]
  /\ log[r][k] = log[Leader][k]

(* "Slow-path response is guaranteed to match ours" (replica.cc:561): a        *)
(* replica's log agrees with the leader's up to its lastSlowPath, however   *)
(* its fast-path entries conflicted before and whichever of PREPARE, COMMIT *)
(* and STATETRANSFER, in whatever order, replaced them.                     *)
SlowPathMatches ==
  /\ \A r \in Replicas : \A k \in 1 .. lastSlowPath[r] : Holds(r, k)
  /\ \A m \in msgs : m.type = "PREPAREOK" /\ m.slowpath =>
        /\ Holds(m.src, m.opnum) /\ m.req = log[Leader][m.opnum]

(* The leader has ordered, or executed, req at k.                            *)
Ordered(k, req) == k \in DOMAIN log[Leader] /\ log[Leader][k] = req
ExecutedAt(k, req) == k \in 1 .. lastCommitted[Leader] /\ Ordered(k, req)

(* A superquorum holds k, or a majority k and everything before it.          *)
Backed(k) ==
  \/ Cardinality({r \in Replicas : Holds(r, k)}) >= FastQuorumSize
  \/ Cardinality({r \in Replicas : \A i \in 1 .. k : Holds(r, i)}) >= QuorumSize

(* What the leader may tell the followers to commit: its own entry at that    *)
(* opnum, held by a superquorum, or by a majority together with everything  *)
(* before it.  It relies on QuorumSet counting a sender once and on a        *)
(* follower never giving up an entry it acknowledged that is the leader's.  *)
CommitBackedByQuorum ==
  \A m \in msgs : m.type = "COMMIT" => ExecutedAt(m.opnum, m.req) /\ Backed(m.opnum)

(* "Not guaranteed that any replicas except the leader have executed this     *)
(* request" (fastpaxos-test.cc:155): whatever replica answers, the leader   *)
(* has executed the request at the opnum of the reply, so that a client     *)
(* never sees two results for one request.                                  *)
RepliesFromLeadersOrder ==
  \A m \in msgs : m.type = "REPLY" => ExecutedAt(m.opnum, m.req)

Executed == [r \in Replicas |-> SubSeq(log[r], 1, lastCommitted[r])]

RL == INSTANCE ReplicatedLog WITH Ops <- Request, executed <- Executed

(* Every step of the protocol is a step of the replicated log, or none: the   *)
(* executed prefixes agree, only grow and hold no request twice.            *)
ImplementsReplicatedLog == RL!Spec

(* Every request is eventually answered, although datagrams are lost: the     *)
(* client's retries, the PREPAREs the leader resends and state transfer     *)
(* make up for the losses.                                                  *)
ClientsAnswered == \A c \in Clients : (lastReqId[c] > 0) ~> Answered(c)
-----------------------------------------------------------------------------
(* The inductive invariant behind the safety properties: what every message,  *)
(* table and quorum says about the leader's log, the only order there is.   *)

(* A follower keeps what it acknowledged, or has the leader's entry instead.  *)
Acknowledged(r, k, req) ==
  /\ k \in 1 .. lastFastPath[r]
  /\ k > lastSlowPath[r] => log[r][k] = req

MessageOK(m) ==
  /\ m.type = "PREPARE" => m.dst \in Followers /\ Ordered(m.opnum, m.req)
  /\ m.type = "COMMIT" => m.dst \in Followers /\ ExecutedAt(m.opnum, m.req)
  /\ m.type = "REPLY" => ExecutedAt(m.opnum, m.req)
  /\ m.type = "PREPAREOK" =>
       /\ m.src \in Followers
       /\ IF m.slowpath
          THEN m.opnum \in 1 .. lastSlowPath[m.src] /\ Ordered(m.opnum, m.req)
          ELSE Acknowledged(m.src, m.opnum, m.req)
  /\ m.type = "REQUESTSTATETRANSFER" =>
       m.src \in Followers /\ m.opnum <= lastCommitted[m.src]
  /\ m.type = "STATETRANSFER" =>
       /\ m.dst \in Followers
       /\ m.first \in 1 .. lastCommitted[m.dst] + 1
       /\ m.opnum <= lastCommitted[Leader] /\ m.opnum <= LastEntry(m)
       /\ \A i \in DOMAIN m.entries : Ordered(m.first + i - 1, m.entries[i])

(* The leader is ahead of everyone.                                          *)
LeaderAhead ==
  \A r \in Replicas : /\ lastSlowPath[r] <= lastSlowPath[Leader]
                      /\ lastCommitted[r] <= lastCommitted[Leader]
                      /\ \A k \in 1 .. lastSlowPath[r] : Holds(r, k)

MessagesOK == /\ \A m \in msgs : MessageOK(m)
              /\ \A m \in pendingPrepareOKs :
                   m.type = "PREPAREOK" /\ MessageOK(m)

QuorumsOK ==
  /\ \A q \in slowPrepareOKQuorum :
       q[2] \in Followers /\ q[1] \in 1 .. lastSlowPath[q[2]]
  /\ \A q \in fastPrepareOKQuorum : q[2] \in Followers /\ Holds(q[2], q[1])

(* A stored reply is the leader's; the leader's table is ahead of its log,    *)
(* which therefore holds no request twice.                                  *)
TablesOK ==
  /\ \A r \in Replicas : \A c \in Clients :
       clientTable[r][c].replied =>
         ExecutedAt(clientTable[r][c].opnum,
                    [client |-> c, reqid |-> clientTable[r][c].lastReqId])
  /\ \A k \in DOMAIN log[Leader] :
       log[Leader][k].reqid <= clientTable[Leader][log[Leader][k].client].lastReqId
  /\ RL!Distinct(log[Leader])

(* The inductive invariant.                                                  *)
IInv == /\ TypeOK /\ PathsOrdered /\ LeaderAhead /\ MessagesOK /\ QuorumsOK
        /\ TablesOK /\ CommitBackedByQuorum
=============================================================================
