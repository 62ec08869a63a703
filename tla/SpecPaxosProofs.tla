-------------------------- MODULE SpecPaxosProofs --------------------------
(***************************************************************************)
(* Proofs about SpecPaxos, for any number of replicas, clients, requests    *)
(* and views, logs cut anywhere, and every behaviour of the network: views   *)
(* and the logs in them advance, no message makes its leader panic, a         *)
(* replica commits only what it has, and its client table names entries of    *)
(* its log.                                                                    *)
(***************************************************************************)
EXTENDS SpecPaxos, NaturalFacts, SequenceTheorems

-----------------------------------------------------------------------------
(* The inductive invariant                                                   *)

LogEntry == [view : Nat, request : Request, prev : Nat]

(* An entry as it travels.                                                    *)
SentEntry == [opnum : Nat, view : Nat, request : Request,
              hash : Seq(Request), committed : BOOLEAN]

DVCMessage ==
  [type : {"DOVIEWCHANGE"}, view : Nat, src : Indices, lastNormalView : Nat,
   lastSpeculative : Nat, lastCommitted : Nat, entries : Seq(SentEntry)]

ReplicaState ==
  [status : {"NORMAL", "VIEW_CHANGE"}, view : Nat, log : Seq(LogEntry),
   lastCommitted : Nat,
   clientTable : [Clients -> [id : 0 .. MaxReqId, op : Nat]],
   clientAddresses : SUBSET Clients, pendingRequests : Seq(Request),
   pendingSync : Nat,
   syncReplies : SUBSET [opnum : Nat, src : Indices, hash : Seq(Request)],
   startViewChanges : SUBSET Indices, doViewChanges : SUBSET DVCMessage,
   inViews : SUBSET Indices, sentDoViewChange : BOOLEAN,
   needFillDVC : BOOLEAN]

(* The entries of a log are of views up to v, and each has the client's last *)
(* one before it.                                                             *)
LogOK(s, v) ==
  \A i \in 1 .. Len(s.log) :
    /\ s.log[i].view <= v
    /\ s.log[i].prev < i
    /\ s.log[i].prev # 0 =>
         s.log[s.log[i].prev].request.client = s.log[i].request.client

(* What the client table has is in the log.                                  *)
TableOK(s) ==
  \A c \in Clients : LET e == s.clientTable[c] IN
    /\ e.op <= Len(s.log)
    /\ e.op = 0 <=> e.id = 0
    /\ e.op # 0 => s.log[e.op].request = [client |-> c, id |-> e.id]

(* Entries that travel are a piece of a log that ends at last; the hash of   *)
(* an entry has those before it in it.                                        *)
WellDumped(entries, last, view) ==
  /\ \A i \in 1 .. Len(entries) :
       /\ entries[i].opnum = entries[1].opnum + i - 1
       /\ entries[i].view <= view
  /\ entries # << >> => /\ entries[1].opnum >= 1
                        /\ entries[1].opnum + Len(entries) - 1 = last
  /\ \A i \in 2 .. Len(entries) :
       entries[i - 1].hash =
         [n \in 1 .. entries[i - 1].opnum |-> entries[i].hash[n]]

DVCOK(d) ==
  /\ WellDumped(d.entries, d.lastSpeculative, d.view)
  /\ d.lastCommitted <= d.lastSpeculative

(* A kept DOVIEWCHANGE has no gap to the log, once longer ones were asked    *)
(* for, or if it is the replica's own.                                        *)
KeptOK(r, s) ==
  /\ IsFiniteSet(s.doViewChanges)
  /\ \A d \in s.doViewChanges :
       /\ DVCOK(d)
       /\ d.view <= s.view
       /\ (s.needFillDVC \/ d.src = r) /\ d.entries # << >> =>
            d.entries[1].opnum <= Len(s.log) + 1

StateOK(r, s) ==
  /\ s \in ReplicaState
  /\ s.view <= MaxView
  /\ LogOK(s, s.view)
  /\ TableOK(s)
  /\ s.lastCommitted <= Len(s.log)
  /\ KeptOK(r, s)

(* What can be said of a message whatever has become of the replicas.        *)
MessageOK(m) ==
  /\ m.view \in 0 .. MaxView
  /\ m.type = "SYNC" =>
       m \in [type : {"SYNC"}, view : Nat, lastCommitted : Nat,
              hash : Seq(Request), lastSpeculative : Nat]
  /\ m.type = "SYNCREPLY" =>
       m \in [type : {"SYNCREPLY"}, view : Nat, src : Indices,
              lastSpeculative : Nat, hash : Seq(Request)]
  /\ m.type = "STARTVIEWCHANGE" => m.src \in Indices
  /\ m.type = "DOVIEWCHANGE" => /\ m \in DVCMessage
                                /\ DVCOK(m)
                                /\ m.src # GetLeaderIndex(m.view)
  /\ m.type = "STARTVIEW" =>
       /\ m \in [type : {"STARTVIEW"}, view : Nat, to : SUBSET Indices,
                 lastSpeculative : Nat, lastCommitted : Nat,
                 entries : Seq(SentEntry)]
       /\ WellDumped(m.entries, m.lastSpeculative, m.view)
       /\ m.lastCommitted <= m.lastSpeculative
  /\ m.type = "INVIEW" => m.src \in Indices /\ m.lastSpeculative \in Nat
  /\ m.type = "FILLLOGGAP" => m.src \in Indices /\ m.lastCommitted \in Nat
  /\ m.type = "FILLDVCGAP" => /\ m.to \in Indices /\ m.lastCommitted \in Nat
                              /\ m.to # GetLeaderIndex(m.view)

(* The leader of the view v has entered it, with a log of k entries or more, *)
(* or has left it.                                                            *)
Led(rep, v, k) ==
  LET l == rep[GetLeaderIndex(v)] IN
  l.view > v \/ (l.view = v /\ l.status = "NORMAL" /\ k <= Len(l.log))

(* What a message says of the replicas.                                      *)
MessageHolds(rep, m) ==
  /\ m.type \in {"SYNC", "SYNCREPLY", "STARTVIEW", "INVIEW"} =>
       Led(rep, m.view, m.lastSpeculative)
  /\ m.type = "STARTVIEW" /\ m.entries = << >> =>
       \A r \in m.to : m.lastSpeculative <= rep[r].lastCommitted
  /\ m.type = "FILLLOGGAP" => /\ Led(rep, m.view, 0)
                              /\ m.lastCommitted <= rep[m.src].lastCommitted

(* A SYNC that a replica waits to answer was its leader's.                   *)
PendingHolds(rep, r) ==
  rep[r].pendingSync # 0 => Led(rep, rep[r].view, rep[r].pendingSync)

IInv ==
  /\ replica \in [Indices -> ReplicaState]
  /\ invoked \in [Clients -> 0 .. MaxReqId]
  /\ \A r \in Indices : StateOK(r, replica[r]) /\ PendingHolds(replica, r)
  /\ \A m \in msgs : MessageOK(m) /\ MessageHolds(replica, m)

-----------------------------------------------------------------------------
(* Sequences                                                                 *)

(* Appending keeps what was there.                                           *)
LEMMA Appending ==
  ASSUME NEW S, NEW q \in Seq(S), NEW e \in S
  PROVE  /\ Append(q, e) \in Seq(S)
         /\ Len(Append(q, e)) = Len(q) + 1
         /\ \A i \in 1 .. Len(q) : Append(q, e)[i] = q[i]
         /\ Append(q, e)[Len(q) + 1] = e
BY AppendProperties

(* A beginning of a sequence.                                                *)
LEMMA Beginning ==
  ASSUME NEW S, NEW q \in Seq(S), NEW n \in 0 .. Len(q)
  PROVE  /\ SubSeq(q, 1, n) \in Seq(S)
         /\ Len(SubSeq(q, 1, n)) = n
         /\ \A i \in 1 .. n : SubSeq(q, 1, n)[i] = q[i]
<1>1. Len(q) \in Nat
  OBVIOUS
<1>2. \A i \in 1 .. n : q[i] \in S
  BY <1>1, ElementOfSeq
<1>. QED BY <1>1, <1>2, SubSeqProperties

-----------------------------------------------------------------------------
(* The log                                                                   *)

(* What a replica's log and client table are all through a handler that will *)
(* leave it in the view v.                                                    *)
Fine(s, v) == s \in ReplicaState /\ LogOK(s, v) /\ TableOK(s)

(* What is said of a log and a client table holds wherever they are the same. *)
LEMMA SameLog ==
  ASSUME NEW s, NEW t, NEW v, t.log = s.log, t.clientTable = s.clientTable
  PROVE  /\ LogOK(s, v) => LogOK(t, v)
         /\ TableOK(s) => TableOK(t)
BY DEF LogOK, TableOK

Extends(s, t) ==
  /\ Len(s.log) <= Len(t.log)
  /\ \A i \in 1 .. Len(s.log) : t.log[i] = s.log[i]

(* What execution leaves as it is.                                           *)
SameButLog(s, t) ==
  /\ t.status = s.status /\ t.view = s.view
  /\ t.lastCommitted = s.lastCommitted /\ t.pendingSync = s.pendingSync
  /\ t.doViewChanges = s.doViewChanges /\ t.needFillDVC = s.needFillDVC

Speculated(s, t, view, request, v) ==
  /\ Fine(t, v) /\ Extends(s, t) /\ SameButLog(s, t)
  /\ Len(t.log) = Len(s.log) + 1
  /\ t.log[Len(t.log)].view = view
  /\ t.log[Len(t.log)].request = request

(* Executing a request speculatively adds an entry for it (Speculate).       *)
LEMMA SpeculateFine ==
  ASSUME NEW s, NEW v \in Nat, Fine(s, v), NEW view \in 0 .. v,
         NEW request \in Request
  PROVE  Speculated(s, Speculate(s, view, request), view, request, v)
<1>. DEFINE c     == request.client
            old   == s.clientTable[c]
            e     == Entry(view, request, old.op)
            log   == Append(s.log, e)
            entry == IF old.id = request.id THEN old
                     ELSE [id |-> request.id, op |-> Len(s.log) + 1]
            table == [s.clientTable EXCEPT ![c] = entry]
            t     == [s EXCEPT !.log = log, !.clientTable = table]
<1>1. Speculate(s, view, request) = t
  BY DEF Speculate, lastSpeculative
<1>2. /\ s \in ReplicaState
      /\ s.log \in Seq(LogEntry) /\ Len(s.log) \in Nat
      /\ s.clientTable \in [Clients -> [id : 0 .. MaxReqId, op : Nat]]
  BY LenProperties DEF Fine, ReplicaState
<1>3. /\ c \in Clients /\ request.id \in 1 .. MaxReqId
      /\ request = [client |-> c, id |-> request.id]
  BY DEF Request
<1>4. /\ old \in [id : 0 .. MaxReqId, op : Nat]
      /\ old.op <= Len(s.log)
      /\ old.op # 0 => s.log[old.op].request = [client |-> c, id |-> old.id]
      /\ old.op = 0 <=> old.id = 0
  BY <1>2, <1>3 DEF Fine, TableOK
<1>5. e \in LogEntry /\ e.view = view /\ e.request = request /\ e.prev = old.op
  BY <1>4 DEF LogEntry, Entry
<1>6. /\ log \in Seq(LogEntry)
      /\ Len(log) = Len(s.log) + 1
      /\ \A i \in 1 .. Len(s.log) : log[i] = s.log[i]
      /\ log[Len(s.log) + 1] = e
  <2>. HIDE DEF e
  <2>. QED BY <1>2, <1>5, Appending
<1>7. entry \in [id : 0 .. MaxReqId, op : Nat]
  <2>1. request.id \in 0 .. MaxReqId /\ Len(s.log) + 1 \in Nat
    BY <1>2, <1>3, SpecPaxosAssumption
  <2>. QED BY <1>4, <2>1
<1>8. table \in [Clients -> [id : 0 .. MaxReqId, op : Nat]]
  <2>. HIDE DEF entry
  <2>. QED BY <1>2, <1>3, <1>7
<1>9. /\ t \in ReplicaState /\ t.log = log /\ t.clientTable = table
      /\ SameButLog(s, t)
  <2>. HIDE DEF log, table
  <2>. QED BY <1>2, <1>6, <1>8 DEF ReplicaState, SameButLog
<1>. HIDE DEF t, log
<1>10. LogOK(t, v)
  <2>. SUFFICES ASSUME NEW i \in 1 .. Len(s.log) + 1
                PROVE  /\ log[i].view <= v
                       /\ log[i].prev < i
                       /\ log[i].prev # 0 =>
                            log[log[i].prev].request.client = log[i].request.client
    BY <1>9, <1>6 DEF LogOK
  <2>1. CASE i \in 1 .. Len(s.log)
    <3>1. log[i] = s.log[i] /\ s.log[i] \in LogEntry
      BY <2>1, <1>2, <1>6
    <3>2. /\ s.log[i].view <= v /\ s.log[i].prev < i
          /\ s.log[i].prev # 0 =>
               s.log[s.log[i].prev].request.client = s.log[i].request.client
      BY <2>1 DEF Fine, LogOK
    <3>3. s.log[i].prev # 0 => s.log[i].prev \in 1 .. Len(s.log)
      BY <3>1, <3>2, <2>1, <1>2 DEF LogEntry
    <3>. QED BY <3>1, <3>2, <3>3, <1>6
  <2>2. CASE i = Len(s.log) + 1
    <3>1. log[i] = e
      BY <2>2, <1>6
    <3>2. old.op # 0 => /\ old.op \in 1 .. Len(s.log)
                        /\ log[old.op].request.client = c
      <4>. HIDE DEF old, c
      <4>1. old.op # 0 => old.op \in 1 .. Len(s.log)
        BY <1>2, <1>4
      <4>2. old.op # 0 => s.log[old.op].request.client = c
        BY <1>4
      <4>. QED BY <1>6, <4>1, <4>2
    <3>. QED BY <3>1, <3>2, <1>2, <1>4, <1>5, <2>2
  <2>. QED BY <2>1, <2>2, <1>2
<1>11. TableOK(t)
  <2>. SUFFICES ASSUME NEW d \in Clients
                PROVE  /\ table[d].op <= Len(log)
                       /\ table[d].op = 0 <=> table[d].id = 0
                       /\ table[d].op # 0 =>
                            log[table[d].op].request = [client |-> d, id |-> table[d].id]
    BY <1>9 DEF TableOK
  <2>1. ASSUME NEW b \in Clients
        PROVE  /\ s.clientTable[b].op \in Nat
               /\ s.clientTable[b].op <= Len(s.log)
               /\ s.clientTable[b].op = 0 <=> s.clientTable[b].id = 0
               /\ s.clientTable[b].op # 0 =>
                    log[s.clientTable[b].op].request =
                      [client |-> b, id |-> s.clientTable[b].id]
    <3>1. /\ s.clientTable[b].op \in Nat
          /\ s.clientTable[b].op <= Len(s.log)
          /\ s.clientTable[b].op = 0 <=> s.clientTable[b].id = 0
          /\ s.clientTable[b].op # 0 =>
               s.log[s.clientTable[b].op].request =
                 [client |-> b, id |-> s.clientTable[b].id]
      BY <1>2 DEF Fine, TableOK
    <3>2. s.clientTable[b].op # 0 => s.clientTable[b].op \in 1 .. Len(s.log)
      BY <3>1, <1>2
    <3>. QED BY <3>1, <3>2, <1>6
  <2>2. CASE d # c \/ old.id = request.id
    <3>1. table[d] = s.clientTable[d]
      BY <2>2, <1>2, <1>3
    <3>2. Len(s.log) <= Len(log)
      BY <1>2, <1>6
    <3>3. /\ s.clientTable[d].op \in Nat
          /\ s.clientTable[d].op <= Len(s.log)
          /\ s.clientTable[d].op = 0 <=> s.clientTable[d].id = 0
          /\ s.clientTable[d].op # 0 =>
               log[s.clientTable[d].op].request =
                 [client |-> d, id |-> s.clientTable[d].id]
      BY <2>1
    <3>4. Len(log) \in Nat
      BY <1>2, <1>6
    <3>. HIDE DEF table
    <3>5. table[d].op <= Len(log)
      BY <3>1, <3>2, <3>3, <3>4, <1>2
    <3>. QED BY <3>1, <3>3, <3>5
  <2>3. CASE d = c /\ old.id # request.id
    <3>1. table[d].id = request.id /\ table[d].op = Len(s.log) + 1
      BY <2>3, <1>2, <1>3
    <3>. HIDE DEF table
    <3>. QED BY <3>1, <2>3, <1>2, <1>3, <1>5, <1>6
  <2>. QED BY <2>2, <2>3
<1>12. Extends(s, t) /\ Len(t.log) = Len(s.log) + 1 /\ t.log[Len(t.log)] = e
  BY <1>2, <1>6, <1>9 DEF Extends
<1>. QED BY <1>1, <1>5, <1>9, <1>10, <1>11, <1>12 DEF Speculated, Fine

-----------------------------------------------------------------------------
(* Execution of a request                                                    *)

IsReply(m, v) == m.type = "SPECULATIVEREPLY" /\ m.view \in 0 .. v

IsSyncReply(s, m) ==
  /\ m \in [type : {"SYNCREPLY"}, view : Nat, src : Indices,
            lastSpeculative : Nat, hash : Seq(Request)]
  /\ m.view = s.view
  /\ s.pendingSync # 0 /\ m.lastSpeculative = s.pendingSync

(* From x to y, requests may be executed, deferred or answered.              *)
Executed(x, y, v) ==
  /\ Fine(y.s, v) /\ Extends(x.s, y.s) /\ SameButLog(x.s, y.s)
  /\ x.s.status # "NORMAL" => y.s.log = x.s.log
  /\ \A m \in y.out : m \in x.out \/ IsReply(m, v) \/ IsSyncReply(x.s, m)

LEMMA ExecutedReflexive ==
  ASSUME NEW x, NEW v \in Nat, Fine(x.s, v)
  PROVE  Executed(x, x, v)
<1>1. Len(x.s.log) \in Nat
  BY LenProperties DEF Fine, ReplicaState
<1>. QED BY <1>1 DEF Executed, Extends, SameButLog

LEMMA ExecutedTransitive ==
  ASSUME NEW x, NEW y, NEW z, NEW v \in Nat, Fine(x.s, v),
         Executed(x, y, v), Executed(y, z, v)
  PROVE  Executed(x, z, v)
<1>1. /\ Len(x.s.log) \in Nat /\ Len(y.s.log) \in Nat /\ Len(z.s.log) \in Nat
  BY LenProperties DEF Executed, Fine, ReplicaState
<1>2. Extends(x.s, z.s)
  <2>1. Extends(x.s, y.s) /\ Extends(y.s, z.s)
    BY DEF Executed
  <2>2. Len(x.s.log) <= Len(y.s.log) /\ Len(y.s.log) <= Len(z.s.log)
    BY <2>1 DEF Extends
  <2>3. Len(x.s.log) <= Len(z.s.log)
    BY <1>1, <2>2
  <2>4. ASSUME NEW i \in 1 .. Len(x.s.log) PROVE z.s.log[i] = x.s.log[i]
    <3>1. i \in 1 .. Len(y.s.log)
      BY <1>1, <2>2
    <3>. QED BY <2>1, <3>1 DEF Extends
  <2>. QED BY <2>3, <2>4 DEF Extends
<1>3. SameButLog(x.s, z.s)
  BY DEF Executed, SameButLog
<1>4. \A m \in z.out : m \in x.out \/ IsReply(m, v) \/ IsSyncReply(x.s, m)
  <2>1. \A m : IsSyncReply(y.s, m) => IsSyncReply(x.s, m)
    BY DEF IsSyncReply, Executed, SameButLog
  <2>. QED BY <2>1 DEF Executed
<1>. QED BY <1>2, <1>3, <1>4 DEF Executed, SameButLog

(* The hashes of a log are sequences of requests.                            *)
LEMMA HashType ==
  ASSUME NEW log \in Seq(LogEntry), NEW n \in 0 .. Len(log)
  PROVE  Hash(log, n) \in Seq(Request)
<1>1. Len(log) \in Nat
  BY LenProperties
<1>2. \A i \in 1 .. n : log[i].request \in Request
  <2>. TAKE i \in 1 .. n
  <2>1. i \in 1 .. Len(log)
    BY <1>1
  <2>2. log[i] \in LogEntry
    BY <2>1, ElementOfSeq
  <2>. QED BY <2>2 DEF LogEntry
<1>3. [i \in 1 .. n |-> log[i].request] \in [1 .. n -> Request]
  BY <1>2
<1>4. n \in Nat
  BY <1>1
<1>. QED BY <1>3, <1>4 DEF Hash

LEMMA ExecuteRequestFine ==
  ASSUME NEW r \in Indices, NEW x, NEW v \in Nat, Fine(x.s, v), x.s.view <= v,
         NEW request \in Request
  PROVE  Executed(x, ExecuteRequest(r, x, request), v)
<1>. DEFINE c     == request.client
            s     == [x.s EXCEPT !.clientAddresses = @ \cup {c}]
            last  == s.clientTable[c].id
            done  == Speculate(s, s.view, request)
            opnum == lastSpeculative(done)
            sync  == IF opnum = s.pendingSync
                     THEN {SyncReply(r, done, opnum)} ELSE {}
            y     == ExecuteRequest(r, x, request)
<1>1. c \in Clients /\ request.id \in 1 .. MaxReqId
  BY DEF Request
<1>2. x.s \in ReplicaState /\ LogOK(x.s, v) /\ TableOK(x.s)
  BY DEF Fine
<1>3. /\ s \in ReplicaState /\ s.log = x.s.log
      /\ s.clientTable = x.s.clientTable /\ SameButLog(x.s, s)
  BY <1>1, <1>2 DEF ReplicaState, SameButLog
<1>. HIDE DEF s
<1>4. Fine(s, v) /\ s.view \in 0 .. v
  <2>1. LogOK(s, v) /\ TableOK(s)
    BY <1>2, <1>3, SameLog
  <2>2. s.view \in Nat /\ s.view <= v
    BY <1>3 DEF SameButLog, ReplicaState
  <2>. QED BY <1>3, <2>1, <2>2 DEF Fine
<1>5. last \in 0 .. MaxReqId
  BY <1>1, <1>3 DEF ReplicaState
<1>6. Len(s.log) \in Nat /\ s.log \in Seq(LogEntry)
  BY <1>3, LenProperties DEF ReplicaState
<1>7. ASSUME NEW out PROVE Executed(x, Went(s, x.out \cup out), v)
                           <=> \A m \in out : \/ m \in x.out
                                              \/ IsReply(m, v)
                                              \/ IsSyncReply(x.s, m)
  <2>1. Extends(x.s, s)
    BY <1>3, <1>6 DEF Extends
  <2>2. Went(s, x.out \cup out).s = s /\ Went(s, x.out \cup out).out = x.out \cup out
    BY DEF Went
  <2>. QED BY <1>3, <1>4, <2>1, <2>2, Zenon DEF Executed
<1>8. CASE request.id < last
  <2>1. y = Went(s, x.out)
    BY <1>8, <1>1, <1>5 DEF ExecuteRequest, s
  <2>2. Went(s, x.out) = Went(s, x.out \cup {})
    OBVIOUS
  <2>. QED BY <2>1, <2>2, <1>7
<1>9. CASE request.id = last
  <2>. DEFINE op == s.clientTable[c].op
  <2>1. y = Went(s, x.out \cup Answer(r, s, request))
    BY <1>9, <1>1, <1>5 DEF ExecuteRequest, s
  <2>2. /\ op \in 1 .. Len(s.log)
    <3>1. op \in Nat /\ op # 0 /\ op <= Len(s.log)
      <4>1. s.clientTable[c] \in [id : 0 .. MaxReqId, op : Nat]
        BY <1>1, <1>3 DEF ReplicaState
      <4>2. op <= Len(s.log) /\ (op = 0 <=> last = 0)
        BY <1>1, <1>4 DEF Fine, TableOK
      <4>. QED BY <4>1, <4>2, <1>1, <1>9
    <3>. QED BY <3>1, <1>6
  <2>3. s.log[op].view \in 0 .. v
    <3>1. s.log[op] \in LogEntry
      BY <2>2, <1>6, ElementOfSeq
    <3>2. s.log[op].view <= v
      BY <2>2, <1>4 DEF Fine, LogOK
    <3>3. s.log[op].view \in Nat
      BY <3>1 DEF LogEntry
    <3>. QED BY <3>2, <3>3
  <2>4. \A m \in Answer(r, s, request) : IsReply(m, v)
    BY <2>3 DEF Answer, Reply, IsReply
  <2>. QED BY <2>1, <2>4, <1>7
<1>10. CASE request.id > last /\ s.status # "NORMAL"
  <2>. DEFINE pending == IF Contains(s.pendingRequests, request)
                         THEN s.pendingRequests
                         ELSE Append(s.pendingRequests, request)
              t == [s EXCEPT !.pendingRequests = pending]
  <2>1. y = Went(t, x.out)
    BY <1>10, <1>1, <1>5 DEF ExecuteRequest, s
  <2>2. pending \in Seq(Request)
    <3>1. s.pendingRequests \in Seq(Request)
      BY <1>3 DEF ReplicaState
    <3>. QED BY <3>1, AppendProperties
  <2>3. /\ t \in ReplicaState /\ t.log = s.log
        /\ t.clientTable = s.clientTable /\ SameButLog(s, t)
    <3>. HIDE DEF pending
    <3>. QED BY <2>2, <1>3 DEF ReplicaState, SameButLog
  <2>. HIDE DEF t
  <2>4. LogOK(t, v) /\ TableOK(t)
    BY <2>3, <1>4, SameLog DEF Fine
  <2>5. Extends(x.s, t) /\ SameButLog(x.s, t)
    BY <2>3, <1>3, <1>6 DEF Extends, SameButLog
  <2>. QED BY <2>1, <2>3, <2>4, <2>5, <1>3 DEF Executed, Went, Fine
<1>11. CASE request.id > last /\ s.status = "NORMAL"
  <2>1. y = Went(done, x.out \cup {Reply(r, done, opnum, FALSE)} \cup sync)
    BY <1>11, <1>1, <1>5 DEF ExecuteRequest, s
  <2>2. Speculated(s, done, s.view, request, v)
    BY <1>4, SpeculateFine
  <2>3. /\ opnum = Len(s.log) + 1
        /\ done.log[opnum].view = s.view
        /\ done.log \in Seq(LogEntry) /\ opnum = Len(done.log)
    BY <2>2 DEF Speculated, lastSpeculative, Fine, ReplicaState
  <2>. HIDE DEF done
  <2>4. Fine(done, v) /\ Extends(x.s, done) /\ SameButLog(x.s, done)
    BY <2>2, <1>3 DEF Speculated, Extends, SameButLog
  <2>5. IsReply(Reply(r, done, opnum, FALSE), v)
    BY <2>3, <1>4 DEF IsReply, Reply
  <2>6. ASSUME NEW m \in sync PROVE IsSyncReply(x.s, m)
    <3>1. m = SyncReply(r, done, opnum) /\ opnum = s.pendingSync
      OBVIOUS
    <3>2. opnum \in Nat \ {0} /\ opnum \in 0 .. Len(done.log)
      BY <2>3, <1>6
    <3>3. Hash(done.log, opnum) \in Seq(Request)
      BY <2>3, <3>2, HashType
    <3>4. done.view = x.s.view /\ s.pendingSync = x.s.pendingSync /\ x.s.view \in Nat
      BY <2>4, <1>3, <1>2 DEF SameButLog, ReplicaState
    <3>. HIDE DEF opnum
    <3>. QED BY <3>1, <3>2, <3>3, <3>4 DEF IsSyncReply, SyncReply
  <2>7. x.s.status = "NORMAL"
    BY <1>11, <1>3 DEF SameButLog
  <2>8. Went(done, x.out \cup {Reply(r, done, opnum, FALSE)} \cup sync).s = done
    BY DEF Went
  <2>9. \A m \in y.out : m \in x.out \/ IsReply(m, v) \/ IsSyncReply(x.s, m)
    <3>1. y.out = x.out \cup {Reply(r, done, opnum, FALSE)} \cup sync
      BY <2>1 DEF Went
    <3>. HIDE DEF sync
    <3>. QED BY <3>1, <2>5, <2>6, Zenon
  <2>. HIDE DEF sync, opnum
  <2>. QED BY <2>1, <2>4, <2>7, <2>8, <2>9 DEF Executed
<1>12. s.status \in {"NORMAL", "VIEW_CHANGE"} /\ request.id \in Nat /\ last \in Nat
  BY <1>1, <1>3, <1>5 DEF ReplicaState
<1>. QED BY <1>8, <1>9, <1>10, <1>11, <1>12

-----------------------------------------------------------------------------
(* Entering a view                                                           *)

Executing == INSTANCE LeftFolds WITH Op <- ExecuteRequest

(* Executing several requests is executing each.                             *)
LEMMA ExecutingFine ==
  ASSUME NEW r \in Indices, NEW x, NEW v \in Nat, Fine(x.s, v), x.s.view <= v,
         NEW requests \in Seq(Request)
  PROVE  Executed(x, Executing!Fold(r, x, requests), v)
<1>1. PICK run : Executing!IsRun(run, r, x, requests)
  BY Executing!FoldSteps, Zenon
<1>. DEFINE n == Len(requests)
            T == {i \in 0 .. n : Executed(x, run[i], v)}
<1>2. /\ run[0] = x
      /\ Executing!Fold(r, x, requests) = run[n]
      /\ \A i \in 1 .. n : run[i] = ExecuteRequest(r, run[i - 1], requests[i])
  BY <1>1 DEF Executing!IsRun
<1>3. n \in Nat
  OBVIOUS
<1>4. 0 \in T
  BY <1>2, <1>3, ExecutedReflexive
<1>5. ASSUME NEW i \in 1 .. n, i - 1 \in T PROVE i \in T
  <2>1. Executed(x, run[i - 1], v)
    BY <1>5
  <2>2. requests[i] \in Request
    BY ElementOfSeq
  <2>3. Fine(run[i - 1].s, v) /\ run[i - 1].s.view <= v
    BY <2>1 DEF Executed, SameButLog
  <2>4. Executed(run[i - 1], run[i], v)
    <3>1. Executed(run[i - 1], ExecuteRequest(r, run[i - 1], requests[i]), v)
      BY <2>2, <2>3, ExecuteRequestFine
    <3>. QED BY <3>1, <1>2
  <2>5. Executed(x, run[i], v)
    BY <2>1, <2>4, ExecutedTransitive
  <2>. QED BY <2>5, <1>3
<1>6. n \in T
  <2>. HIDE DEF T
  <2>1. \A i \in 0 .. n : i \in T
    BY <1>3, <1>4, <1>5, RangeInduction
  <2>. QED BY <2>1, <1>3
<1>. QED BY <1>2, <1>6

EnteredView(x, y, view, v) ==
  /\ Fine(y.s, v) /\ Extends(x.s, y.s)
  /\ y.s.status = "NORMAL" /\ y.s.view = view
  /\ y.s.lastCommitted = x.s.lastCommitted /\ y.s.pendingSync = 0
  /\ y.s.doViewChanges = {}
  /\ \A m \in y.out : m \in x.out \/ IsReply(m, v)

LEMMA EnterViewFine ==
  ASSUME NEW r \in Indices, NEW x, NEW v \in Nat, Fine(x.s, v),
         NEW view \in 0 .. v
  PROVE  EnteredView(x, EnterView(r, x, view), view, v)
<1>. DEFINE entered == [x.s EXCEPT !.view = view, !.status = "NORMAL",
                             !.syncReplies = {}, !.startViewChanges = {},
                             !.doViewChanges = {}, !.inViews = {},
                             !.sentDoViewChange = FALSE,
                             !.needFillDVC = FALSE, !.pendingSync = 0,
                             !.pendingRequests = << >>]
            x0 == Went(entered, x.out)
            y  == EnterView(r, x, view)
<1>1. y = Executing!Fold(r, x0, x.s.pendingRequests)
  BY DEF EnterView, Executing!Fold, FoldLeft, MapThenFoldSet,
         Executing!FoldLeft, Executing!MapThenFoldSet, Max, Executing!Max
<1>2. x.s \in ReplicaState
  BY DEF Fine
<1>3. view \in Nat /\ << >> \in Seq(Request)
  OBVIOUS
<1>4. /\ entered \in ReplicaState
      /\ entered.log = x.s.log /\ entered.clientTable = x.s.clientTable
      /\ entered.status = "NORMAL" /\ entered.view = view
      /\ entered.lastCommitted = x.s.lastCommitted
      /\ entered.pendingSync = 0 /\ entered.doViewChanges = {}
  BY <1>2, <1>3 DEF ReplicaState
<1>. HIDE DEF entered
<1>5. Fine(entered, v)
  BY <1>4, SameLog DEF Fine
<1>6. x0.s = entered /\ x0.out = x.out
  BY DEF Went
<1>7. Executed(x0, y, v)
  <2>1. x.s.pendingRequests \in Seq(Request)
    BY <1>2 DEF ReplicaState
  <2>2. x0.s.view <= v
    BY <1>4, <1>6
  <2>. HIDE DEF x0, y
  <2>. QED BY <1>1, <1>5, <1>6, <2>1, <2>2, ExecutingFine
<1>8. \A m : ~IsSyncReply(entered, m)
  BY <1>4 DEF IsSyncReply
<1>. HIDE DEF x0
<1>9. Extends(x.s, y.s)
  BY <1>4, <1>6, <1>7 DEF Executed, Extends
<1>10. SameButLog(entered, y.s) /\ Fine(y.s, v)
  BY <1>6, <1>7 DEF Executed
<1>11. \A m \in y.out : m \in x.out \/ IsReply(m, v)
  BY <1>6, <1>7, <1>8 DEF Executed
<1>12. /\ y.s.status = "NORMAL" /\ y.s.view = view
       /\ y.s.lastCommitted = x.s.lastCommitted /\ y.s.pendingSync = 0
       /\ y.s.doViewChanges = {}
  BY <1>4, <1>10 DEF SameButLog
<1>. QED BY <1>9, <1>10, <1>11, <1>12 DEF EnteredView

-----------------------------------------------------------------------------
(* Rolling back                                                              *)

RolledBack(s, t, backto, v) ==
  /\ Fine(t, v) /\ SameButLog(s, t) /\ Extends(t, s)
  /\ \/ Len(t.log) = backto
     \/ Len(t.log) = Len(s.log) /\ Len(s.log) <= backto

(* The table of a log that was cut is the one the log is of: an entry of a   *)
(* client that stays is followed by none of the client's that goes, or by one *)
(* that points to it.                                                         *)
LEMMA RollbackToFine ==
  ASSUME NEW s, NEW v \in Nat, Fine(s, v), NEW backto \in Nat
  PROVE  RolledBack(s, RollbackTo(s, backto), backto, v)
<1>. DEFINE n     == Len(s.log)
            log   == SubSeq(s.log, 1, backto)
            table == RevertedTable(s, backto)
            t     == [s EXCEPT !.clientTable = table, !.log = log]
<1>1. /\ s \in ReplicaState /\ s.log \in Seq(LogEntry) /\ n \in Nat
      /\ s.clientTable \in [Clients -> [id : 0 .. MaxReqId, op : Nat]]
  BY LenProperties DEF Fine, ReplicaState
<1>2. CASE backto >= n
  <2>1. RollbackTo(s, backto) = s
    BY <1>2 DEF RollbackTo, lastSpeculative
  <2>2. Extends(s, s) /\ SameButLog(s, s)
    BY <1>1 DEF Extends, SameButLog
  <2>. QED BY <1>1, <1>2, <2>1, <2>2 DEF RolledBack
<1>3. CASE backto < n
  <2>1. RollbackTo(s, backto) = t
    BY <1>1, <1>3 DEF RollbackTo, lastSpeculative
  <2>2. backto \in 0 .. n
    BY <1>1, <1>3
  <2>3. /\ log \in Seq(LogEntry)
        /\ Len(log) = backto
        /\ \A i \in 1 .. backto : log[i] = s.log[i]
    BY <1>1, <2>2, Beginning
  <2>. HIDE DEF log
  <2>4. \A i \in 1 .. n : /\ s.log[i] \in LogEntry
                          /\ s.log[i].request \in Request
                          /\ s.log[i].prev \in 0 .. i - 1
                          /\ s.log[i].view <= v
                          /\ s.log[i].prev # 0 =>
                               s.log[s.log[i].prev].request.client =
                                 s.log[i].request.client
    <3>. TAKE i \in 1 .. n
    <3>1. s.log[i] \in LogEntry
      BY <1>1, ElementOfSeq
    <3>. QED BY <3>1 DEF Fine, LogOK, LogEntry
  <2>5. ASSUME NEW c \in Clients
        PROVE  /\ table[c] \in [id : 0 .. MaxReqId, op : Nat]
               /\ table[c].op <= backto
               /\ table[c].op = 0 <=> table[c].id = 0
               /\ table[c].op # 0 =>
                    s.log[table[c].op].request = [client |-> c, id |-> table[c].id]
    <3>. DEFINE old  == s.clientTable[c]
                gone == {i \in backto + 1 .. n : s.log[i].request.client = c}
                op   == s.log[Min(gone)].prev
    <3>1. table[c] = IF gone = {} THEN old
                     ELSE [op |-> op, id |-> IF op = 0 THEN 0 ELSE s.log[op].request.id]
      BY DEF RevertedTable, lastSpeculative
    <3>2. /\ old \in [id : 0 .. MaxReqId, op : Nat]
          /\ old.op <= n
          /\ old.op = 0 <=> old.id = 0
          /\ old.op # 0 => s.log[old.op].request = [client |-> c, id |-> old.id]
      BY <1>1 DEF Fine, TableOK
    <3>. HIDE DEF table
    <3>3. CASE gone = {}
      <4>1. old.op <= backto
        <5>. SUFFICES ASSUME old.op > backto PROVE FALSE
          BY <3>2
        <5>1. old.op \in backto + 1 .. n /\ s.log[old.op].request.client = c
          BY <3>2, <1>1
        <5>. QED BY <5>1, <3>3
      <4>. QED BY <4>1, <3>1, <3>2, <3>3
    <3>4. CASE gone # {}
      <4>1. Min(gone) \in gone /\ \A i \in gone : Min(gone) <= i
        <5>1. \A i \in gone : i \in Nat
          BY <1>1
        <5>2. gone \subseteq Nat
          <6>. HIDE DEF gone
          <6>. QED BY <5>1
        <5>. HIDE DEF gone
        <5>. QED BY <3>4, <5>2, MinOfNaturals
      <4>. DEFINE m == Min(gone)
      <4>2. m \in 1 .. n /\ m > backto /\ s.log[m].request.client = c
        BY <4>1, <1>1
      <4>3. op \in 0 .. m - 1 /\ (op # 0 => s.log[op].request.client = c)
        BY <4>2, <2>4
      <4>4. op <= backto
        <5>1. op \in backto + 1 .. n /\ s.log[op].request.client = c => op \in gone
          <6>. HIDE DEF op
          <6>. QED OBVIOUS
        <5>2. op \in gone => m <= op
          <6>. HIDE DEF gone, op
          <6>. QED BY <4>1
        <5>. HIDE DEF gone, op, m
        <5>. QED BY <4>2, <4>3, <5>1, <5>2, <1>1
      <4>5. table[c] = [op |-> op, id |-> IF op = 0 THEN 0 ELSE s.log[op].request.id]
        BY <3>1, <3>4
      <4>. HIDE DEF gone, op
      <4>6. CASE op = 0
        BY <4>5, <4>6, SpecPaxosAssumption
      <4>7. CASE op # 0
        <5>1. op \in 1 .. n
          BY <4>2, <4>3, <4>7
        <5>2. s.log[op].request \in Request /\ s.log[op].request.client = c
          BY <5>1, <4>3, <4>7, <2>4
        <5>3. /\ s.log[op].request.id \in 1 .. MaxReqId
              /\ s.log[op].request = [client |-> c, id |-> s.log[op].request.id]
          BY <5>2 DEF Request
        <5>. QED BY <4>4, <4>5, <4>7, <5>1, <5>3, SpecPaxosAssumption
      <4>. QED BY <4>6, <4>7
    <3>. QED BY <3>3, <3>4
  <2>6. table \in [Clients -> [id : 0 .. MaxReqId, op : Nat]]
    <3>1. \A c \in Clients : table[c] \in [id : 0 .. MaxReqId, op : Nat]
      BY <2>5
    <3>. QED BY <3>1 DEF RevertedTable
  <2>. HIDE DEF table
  <2>7. /\ t \in ReplicaState /\ t.log = log /\ t.clientTable = table
        /\ SameButLog(s, t)
    BY <1>1, <2>3, <2>6 DEF ReplicaState, SameButLog
  <2>. HIDE DEF t
  <2>8. LogOK(t, v)
    <3>. SUFFICES ASSUME NEW i \in 1 .. backto
                  PROVE  /\ log[i].view <= v
                         /\ log[i].prev < i
                         /\ log[i].prev # 0 =>
                              log[log[i].prev].request.client = log[i].request.client
      BY <2>3, <2>7 DEF LogOK
    <3>1. i \in 1 .. n /\ log[i] = s.log[i]
      BY <1>1, <2>2, <2>3
    <3>2. log[i].prev # 0 => log[log[i].prev] = s.log[log[i].prev]
      BY <3>1, <2>2, <2>3, <2>4
    <3>. QED BY <3>1, <3>2, <2>4
  <2>9. TableOK(t)
    <3>. SUFFICES ASSUME NEW c \in Clients
                  PROVE  /\ table[c].op <= backto
                         /\ table[c].op = 0 <=> table[c].id = 0
                         /\ table[c].op # 0 =>
                              log[table[c].op].request = [client |-> c, id |-> table[c].id]
      BY <2>3, <2>7 DEF TableOK
    <3>1. /\ table[c].op \in Nat
          /\ table[c].op <= backto
          /\ table[c].op = 0 <=> table[c].id = 0
          /\ table[c].op # 0 =>
               s.log[table[c].op].request = [client |-> c, id |-> table[c].id]
      BY <2>5
    <3>2. table[c].op # 0 => table[c].op \in 1 .. backto
      BY <3>1
    <3>. QED BY <3>1, <3>2, <2>3
  <2>10. Extends(t, s)
    BY <1>1, <2>2, <2>3, <2>7 DEF Extends
  <2>. QED BY <2>1, <2>3, <2>7, <2>8, <2>9, <2>10 DEF RolledBack, Fine
<1>. QED BY <1>1, <1>2, <1>3

-----------------------------------------------------------------------------
(* Installing a log                                                          *)

(* A log that fits: it starts where the replica's own log ends, or before,    *)
(* and its entries are as many as their numbers need.                          *)
Installable(s, entries, v) ==
  /\ entries \in Seq(SentEntry)
  /\ \A i \in 1 .. Len(entries) :
       /\ entries[i].view <= v
       /\ entries[i].opnum <= Last(entries).opnum
  /\ entries # << >> =>
       /\ entries[1].opnum \in 1 .. Len(s.log) + 1
       /\ Last(entries).opnum <= entries[1].opnum + Len(entries) - 1

InstallEntry(r, x, e) ==
  LET done == Speculate(x.s, e.view, e.request)
  IN  Went(done,
           IF e.request.client \notin done.clientAddresses THEN x.out
           ELSE x.out \cup {Reply(r, done, lastSpeculative(done), e.committed)})

Installing == INSTANCE LeftFolds WITH Op <- InstallEntry

(* After k entries have been installed.                                      *)
HasInstalled(x, y, k, v) ==
  /\ Fine(y.s, v) /\ SameButLog(x.s, y.s)
  /\ Len(y.s.log) = Len(x.s.log) + k
  /\ \A m \in y.out : m \in x.out \/ IsReply(m, v)

LEMMA InstallEntryFine ==
  ASSUME NEW r \in Indices, NEW x, NEW y, NEW k \in Nat, NEW v \in Nat,
         NEW e \in SentEntry, Fine(x.s, v), e.view <= v, HasInstalled(x, y, k, v)
  PROVE  HasInstalled(x, InstallEntry(r, y, e), k + 1, v)
<1>. DEFINE done == Speculate(y.s, e.view, e.request)
            z    == InstallEntry(r, y, e)
<1>1. e.view \in 0 .. v /\ e.request \in Request
  BY DEF SentEntry
<1>2. Fine(y.s, v)
  BY DEF HasInstalled
<1>3. Speculated(y.s, done, e.view, e.request, v)
  BY <1>1, <1>2, SpeculateFine
<1>4. z.s = done /\ \A m \in z.out : \/ m \in y.out
                                     \/ m = Reply(r, done, Len(done.log), e.committed)
  <2>1. z = Went(done, IF e.request.client \notin done.clientAddresses THEN y.out
                       ELSE y.out \cup {Reply(r, done, Len(done.log), e.committed)})
    BY DEF InstallEntry, lastSpeculative
  <2>. HIDE DEF done, z
  <2>. QED BY <2>1, Zenon DEF Went
<1>. HIDE DEF done
<1>5. IsReply(Reply(r, done, Len(done.log), e.committed), v)
  <2>1. done.log[Len(done.log)].view \in 0 .. v
    BY <1>1, <1>3 DEF Speculated
  <2>. QED BY <2>1 DEF Reply, IsReply
<1>6. SameButLog(x.s, done)
  BY <1>3 DEF Speculated, SameButLog, HasInstalled
<1>7. Len(x.s.log) \in Nat
  BY LenProperties DEF Fine, ReplicaState
<1>8. Len(done.log) = Len(x.s.log) + (k + 1)
  <2>1. Len(done.log) = Len(y.s.log) + 1
    BY <1>3 DEF Speculated
  <2>2. Len(y.s.log) = Len(x.s.log) + k
    BY DEF HasInstalled
  <2>3. \A n \in Nat : (n + k) + 1 = n + (k + 1)
    OBVIOUS
  <2>. QED BY <2>1, <2>2, <2>3, <1>7, Zenon
<1>9. \A m \in z.out : m \in x.out \/ IsReply(m, v)
  BY <1>4, <1>5 DEF HasInstalled
<1>. QED BY <1>3, <1>4, <1>6, <1>8, <1>9 DEF HasInstalled, Speculated

LEMMA InstallingFine ==
  ASSUME NEW r \in Indices, NEW x, NEW v \in Nat, Fine(x.s, v),
         NEW entries \in Seq(SentEntry),
         \A i \in 1 .. Len(entries) : entries[i].view <= v
  PROVE  HasInstalled(x, Installing!Fold(r, x, entries), Len(entries), v)
<1>1. PICK run : Installing!IsRun(run, r, x, entries)
  BY Installing!FoldSteps, Zenon
<1>. DEFINE n == Len(entries)
            T == {i \in 0 .. n : HasInstalled(x, run[i], i, v)}
<1>2. /\ run[0] = x
      /\ Installing!Fold(r, x, entries) = run[n]
      /\ \A i \in 1 .. n : run[i] = InstallEntry(r, run[i - 1], entries[i])
  BY <1>1 DEF Installing!IsRun
<1>3. n \in Nat
  OBVIOUS
<1>4. 0 \in T
  <2>1. Len(x.s.log) \in Nat
    BY LenProperties DEF Fine, ReplicaState
  <2>2. HasInstalled(x, x, 0, v)
    BY <2>1 DEF HasInstalled, SameButLog
  <2>. QED BY <1>2, <1>3, <2>2
<1>5. ASSUME NEW i \in 1 .. n, i - 1 \in T PROVE i \in T
  <2>1. HasInstalled(x, run[i - 1], i - 1, v) /\ i - 1 \in Nat
    BY <1>5
  <2>2. entries[i] \in SentEntry /\ entries[i].view <= v
    BY ElementOfSeq
  <2>3. HasInstalled(x, InstallEntry(r, run[i - 1], entries[i]), i - 1 + 1, v)
    BY <2>1, <2>2, InstallEntryFine
  <2>4. i - 1 + 1 = i /\ run[i] = InstallEntry(r, run[i - 1], entries[i])
    BY <1>2, <1>3
  <2>5. HasInstalled(x, run[i], i, v)
    BY <2>3, <2>4
  <2>. QED BY <2>5, <1>3
<1>6. n \in T
  <2>. HIDE DEF T
  <2>1. \A i \in 0 .. n : i \in T
    BY <1>3, <1>4, <1>5, RangeInduction
  <2>. QED BY <2>1, <1>3
<1>. QED BY <1>2, <1>6

(* What is to be installed of the entries by a replica whose log ends at k.  *)
LEMMA FreshEntries ==
  ASSUME NEW entries \in Seq(SentEntry), NEW k \in Nat, NEW start \in Nat,
         NEW newLast \in Nat,
         IF entries = << >> THEN start = 0 /\ newLast = 0
         ELSE start \in 1 .. k + 1 /\ newLast <= start + Len(entries) - 1
  PROVE  LET fresh == SubSeq(entries, k + 2 - start, newLast + 1 - start)
         IN  /\ fresh \in Seq(SentEntry)
             /\ Len(fresh) = IF newLast > k THEN newLast - k ELSE 0
             /\ \A i \in 1 .. Len(fresh) :
                  \E j \in 1 .. Len(entries) : fresh[i] = entries[j]
<1>. DEFINE low   == k + 2 - start
            high  == newLast + 1 - start
            fresh == SubSeq(entries, low, high)
<1>1. low \in Int /\ high \in Int /\ Len(entries) \in Nat
  OBVIOUS
<1>2. CASE low <= high
  <2>1. entries # << >>
    BY <1>2
  <2>2. low >= 1 /\ high <= Len(entries)
    BY <2>1, <1>1
  <2>3. \A i \in low .. high : i \in 1 .. Len(entries) /\ entries[i] \in SentEntry
    BY <2>2, <1>1, ElementOfSeq
  <2>4. /\ fresh \in Seq(SentEntry)
        /\ Len(fresh) = high - low + 1
        /\ \A i \in 1 .. high - low + 1 : fresh[i] = entries[low + i - 1]
    BY <1>1, <1>2, <2>3, SubSeqProperties
  <2>. HIDE DEF fresh
  <2>5. \A i \in 1 .. Len(fresh) :
          low + i - 1 \in 1 .. Len(entries) /\ fresh[i] = entries[low + i - 1]
    BY <1>1, <2>2, <2>4
  <2>6. Len(fresh) = IF newLast > k THEN newLast - k ELSE 0
    BY <1>2, <2>4
  <2>. QED BY <2>4, <2>5, <2>6 DEF fresh
<1>3. CASE high < low
  <2>1. fresh = << >>
    BY <1>1, <1>3, SubSeqEmpty
  <2>2. ~(newLast > k)
    BY <1>3
  <2>. QED BY <2>1, <2>2
<1>. QED BY <1>1, <1>2, <1>3

(* Committing changes nothing else.                                          *)
LEMMA CommitUpToFine ==
  ASSUME NEW s, NEW v, Fine(s, v), NEW upto \in Nat
  PROVE  LET t == CommitUpTo(s, upto)
         IN  /\ Fine(t, v) /\ t.log = s.log /\ t.status = s.status
             /\ t.view = s.view /\ t.pendingSync = s.pendingSync
             /\ t.doViewChanges = s.doViewChanges
             /\ t.needFillDVC = s.needFillDVC
             /\ t.lastCommitted = Larger(s.lastCommitted, upto)
<1>. DEFINE t == CommitUpTo(s, upto)
            m == Larger(s.lastCommitted, upto)
<1>1. s \in ReplicaState /\ LogOK(s, v) /\ TableOK(s)
  BY DEF Fine
<1>2. m \in Nat
  BY <1>1 DEF Larger, ReplicaState
<1>3. t = [s EXCEPT !.lastCommitted = m]
  BY DEF CommitUpTo
<1>. HIDE DEF m, t
<1>4. /\ t \in ReplicaState /\ t.log = s.log /\ t.clientTable = s.clientTable
      /\ t.status = s.status
      /\ t.view = s.view /\ t.pendingSync = s.pendingSync
      /\ t.doViewChanges = s.doViewChanges
      /\ t.needFillDVC = s.needFillDVC
      /\ t.lastCommitted = m
  BY <1>1, <1>2, <1>3 DEF ReplicaState
<1>5. LogOK(t, v) /\ TableOK(t)
  BY <1>1, <1>4, SameLog
<1>. QED BY <1>4, <1>5 DEF Fine, m, t

Installed(s, y, entries, v) ==
  /\ Fine(y.s, v)
  /\ y.s.status = s.status /\ y.s.view = s.view
  /\ y.s.lastCommitted >= s.lastCommitted
  /\ y.s.lastCommitted <= Len(y.s.log)
  /\ entries # << >> => Last(entries).opnum <= Len(y.s.log)
  /\ \A m \in y.out : IsReply(m, v)

(* Installing a log that fits leaves all of it and all that was committed,   *)
(* and commits no more than there is.                                          *)
LEMMA InstallLogFine ==
  ASSUME NEW r \in Indices, NEW s, NEW v \in Nat, Fine(s, v),
         s.lastCommitted <= Len(s.log), NEW entries, Installable(s, entries, v)
  PROVE  Installed(s, InstallLog(r, s, entries), entries, v)
<1>. DEFINE n         == Len(s.log)
            start     == IF entries = << >> THEN 0 ELSE entries[1].opnum
            newLast   == IF entries = << >> THEN 0 ELSE Last(entries).opnum
            marked    == {e.opnum : e \in {f \in ToSet(entries) : f.committed}}
            target    == Max({s.lastCommitted} \cup marked)
            from      == Larger(s.lastCommitted + 1, start)
            agree     == Agree(s, entries, from, target)
            early     == CommitUpTo(s, Max({s.lastCommitted} \cup agree))
            low       == Larger(early.lastCommitted + 1, start)
            same      == Agree(early, entries, low, newLast)
            backto    == Max({low - 1} \cup same)
            kept      == RollbackTo(early, backto)
            fresh     == SubSeq(entries, lastSpeculative(kept) + 2 - start,
                                newLast + 1 - start)
            x         == Went(kept, {})
            done      == Installing!Fold(r, x, fresh)
            t         == CommitUpTo(done.s, target)
            y         == InstallLog(r, s, entries)
<1>1. y = Went(t, done.out)
  BY DEF InstallLog, InstallEntry, Installing!Fold, FoldLeft, MapThenFoldSet,
         Installing!FoldLeft, Installing!MapThenFoldSet, Max, Installing!Max
<1>. HIDE DEF y
<1>2. n \in Nat /\ s.lastCommitted \in 0 .. n
  BY LenProperties DEF Fine, ReplicaState
<1>3. /\ entries \in Seq(SentEntry) /\ Len(entries) \in Nat
      /\ start \in Nat /\ newLast \in Nat /\ start <= n + 1
      /\ IF entries = << >> THEN start = 0 /\ newLast = 0
         ELSE start >= 1 /\ newLast <= start + Len(entries) - 1
  <2>1. entries \in Seq(SentEntry) /\ Len(entries) \in Nat
    BY DEF Installable
  <2>2. CASE entries = << >>
    BY <2>1, <2>2, <1>2
  <2>3. CASE entries # << >>
    <3>1. Len(entries) \in 1 .. Len(entries)
      BY <2>1, <2>3
    <3>2. entries[Len(entries)] \in SentEntry
      BY <2>1, <3>1, ElementOfSeq
    <3>3. Last(entries).opnum \in Nat
      BY <3>2 DEF Last, SentEntry
    <3>4. /\ entries[1].opnum \in 1 .. n + 1
          /\ Last(entries).opnum <= entries[1].opnum + Len(entries) - 1
      BY <2>3 DEF Installable
    <3>. QED BY <2>1, <2>3, <3>3, <3>4, <1>2
  <2>. QED BY <2>2, <2>3
<1>4. \A k \in marked : k \in 0 .. newLast
  <2>. SUFFICES ASSUME NEW i \in 1 .. Len(entries) PROVE entries[i].opnum \in 0 .. newLast
    BY <1>3 DEF ToSet
  <2>1. entries[i] \in SentEntry /\ entries # << >>
    BY <1>3, ElementOfSeq
  <2>2. entries[i].opnum <= Last(entries).opnum
    BY DEF Installable
  <2>3. entries[i].opnum \in Nat
    BY <2>1 DEF SentEntry
  <2>4. newLast = Last(entries).opnum
    BY <2>1
  <2>. HIDE DEF newLast
  <2>. QED BY <2>2, <2>3, <2>4, <1>3
<1>. HIDE DEF marked, start, newLast
<1>5. target \in Nat /\ target <= Larger(n, newLast) /\ s.lastCommitted <= target
  <2>. DEFINE b == Larger(n, newLast)
  <2>1. b \in Nat /\ s.lastCommitted \in 0 .. b /\ \A k \in marked : k \in 0 .. b
    BY <1>2, <1>3, <1>4 DEF Larger
  <2>. HIDE DEF b
  <2>2. target \in s.lastCommitted .. b
    BY <2>1, MaxWith
  <2>. HIDE DEF target
  <2>. QED BY <1>2, <2>1, <2>2 DEF b
<1>. HIDE DEF target
<1>6. from \in Nat
  BY <1>2, <1>3 DEF Larger
<1>. HIDE DEF from
<1>7. Max({s.lastCommitted} \cup agree) \in s.lastCommitted .. n
  <2>1. \A k \in agree : k \in 0 .. n
    BY <1>2, <1>5, <1>6 DEF Agree, lastSpeculative
  <2>. HIDE DEF agree
  <2>. QED BY <1>2, <2>1, MaxWith
<1>. DEFINE e == Max({s.lastCommitted} \cup agree)
<1>8. /\ Fine(early, v) /\ early.log = s.log /\ early.status = s.status
      /\ early.view = s.view /\ early.lastCommitted = e
  <2>. HIDE DEF e
  <2>1. e \in Nat /\ Larger(s.lastCommitted, e) = e
    BY <1>2, <1>7 DEF Larger, e
  <2>. QED BY <2>1, CommitUpToFine DEF e
<1>. HIDE DEF e, early
<1>9. e \in s.lastCommitted .. n
  BY <1>7 DEF e
<1>10. low \in Nat /\ low - 1 \in 0 .. n /\ low >= e + 1 /\ low >= start
  BY <1>2, <1>3, <1>8, <1>9 DEF Larger
<1>. HIDE DEF low
<1>11. backto \in low - 1 .. n
  <2>1. \A k \in same : k \in 0 .. n
    BY <1>2, <1>3, <1>8, <1>10 DEF Agree, lastSpeculative
  <2>. HIDE DEF same
  <2>. QED BY <1>2, <1>10, <2>1, MaxWith
<1>. HIDE DEF backto
<1>12. RolledBack(early, kept, backto, v)
  <2>1. backto \in Nat
    BY <1>10, <1>11
  <2>. QED BY <1>8, <2>1, RollbackToFine
<1>. HIDE DEF kept
<1>. DEFINE k == Len(kept.log)
<1>13. k \in Nat /\ k = backto
  BY <1>2, <1>8, <1>10, <1>11, <1>12 DEF RolledBack
<1>14. /\ Fine(kept, v) /\ kept.status = s.status /\ kept.view = s.view
       /\ kept.lastCommitted = e
  BY <1>8, <1>12 DEF RolledBack, SameButLog
<1>15. k >= e /\ start <= k + 1
  BY <1>2, <1>3, <1>9, <1>10, <1>11, <1>13
<1>16. /\ fresh \in Seq(SentEntry)
       /\ Len(fresh) = IF newLast > k THEN newLast - k ELSE 0
       /\ \A i \in 1 .. Len(fresh) : fresh[i].view <= v
  <2>1. IF entries = << >> THEN start = 0 /\ newLast = 0
        ELSE start \in 1 .. k + 1 /\ newLast <= start + Len(entries) - 1
    <3>. HIDE DEF k
    <3>. QED BY <1>3, <1>13, <1>15
  <2>2. lastSpeculative(kept) = k
    BY DEF lastSpeculative
  <2>3. /\ fresh \in Seq(SentEntry)
        /\ Len(fresh) = IF newLast > k THEN newLast - k ELSE 0
        /\ \A i \in 1 .. Len(fresh) :
             \E j \in 1 .. Len(entries) : fresh[i] = entries[j]
    <3>. HIDE DEF k
    <3>. QED BY <1>3, <1>13, <2>1, <2>2, FreshEntries
  <2>4. \A j \in 1 .. Len(entries) : entries[j].view <= v
    BY DEF Installable
  <2>. HIDE DEF fresh
  <2>. QED BY <2>3, <2>4
<1>. HIDE DEF fresh
<1>17. HasInstalled(x, done, Len(fresh), v)
  <2>1. x.s = kept
    BY DEF Went
  <2>. HIDE DEF x
  <2>. QED BY <2>1, <1>14, <1>16, InstallingFine
<1>. HIDE DEF done
<1>18. /\ Fine(done.s, v) /\ done.s.status = s.status
       /\ done.s.view = s.view /\ done.s.lastCommitted = e
       /\ Len(done.s.log) = k + Len(fresh)
       /\ \A m \in done.out : IsReply(m, v)
  <2>1. x.s = kept /\ x.out = {}
    BY DEF Went
  <2>. HIDE DEF x
  <2>. QED BY <1>14, <1>17, <2>1 DEF HasInstalled, SameButLog
<1>19. /\ Len(done.s.log) \in Nat
       /\ Len(done.s.log) >= newLast /\ Len(done.s.log) >= k
  <2>. HIDE DEF k
  <2>. QED BY <1>3, <1>13, <1>16, <1>18
<1>20. target <= Len(done.s.log)
  <2>1. CASE target <= newLast
    BY <2>1, <1>3, <1>5, <1>19
  <2>2. CASE target > newLast
    <3>1. target = s.lastCommitted
      <4>1. target \in {s.lastCommitted} \cup marked
        <5>1. \A i \in marked : i \in 0 .. Larger(n, newLast)
          BY <1>2, <1>3, <1>4 DEF Larger
        <5>2. s.lastCommitted \in 0 .. Larger(n, newLast) /\ Larger(n, newLast) \in Nat
          BY <1>2, <1>3 DEF Larger
        <5>3. \A i \in {s.lastCommitted} \cup marked : i \in 0 .. Larger(n, newLast)
          BY <5>1, <5>2
        <5>4. {s.lastCommitted} \cup marked # {}
          OBVIOUS
        <5>. QED BY <5>2, <5>3, <5>4, MaxOfBounded DEF target
      <4>. QED BY <4>1, <2>2, <1>3, <1>4
    <3>. QED BY <3>1, <1>2, <1>9, <1>13, <1>15, <1>19
  <2>. QED BY <2>1, <2>2, <1>3, <1>5
<1>21. /\ Fine(t, v) /\ t.log = done.s.log /\ t.status = s.status /\ t.view = s.view
       /\ t.lastCommitted = Larger(e, target)
  BY <1>5, <1>18, CommitUpToFine
<1>. HIDE DEF t
<1>22. Larger(e, target) <= Len(done.s.log) /\ Larger(e, target) >= s.lastCommitted
  BY <1>2, <1>5, <1>9, <1>13, <1>15, <1>19, <1>20 DEF Larger
<1>23. y.s = t /\ y.out = done.out
  BY <1>1 DEF Went
<1>24. entries # << >> => Last(entries).opnum <= Len(done.s.log)
  BY <1>19 DEF newLast
<1>. QED BY <1>18, <1>21, <1>22, <1>23, <1>24 DEF Installed, y

-----------------------------------------------------------------------------
(* Images, sequences of sequences, sequences of sets                         *)

(* The greatest value of a function on a finite set.                         *)
LEMMA Greatest ==
  ASSUME NEW S, IsFiniteSet(S), S # {}, NEW f \in [S -> Nat]
  PROVE  LET m == Max({f[d] : d \in S})
         IN  /\ m \in Nat
             /\ \A d \in S : f[d] <= m
             /\ \E d \in S : f[d] = m
<1>. DEFINE T == {f[d] : d \in S}
<1>1. f \in Surjection(S, T)
  BY Zenon DEF Surjection
<1>2. IsFiniteSet(T)
  <2>. HIDE DEF T
  <2>. QED BY <1>1, FS_Surjection
<1>3. T \subseteq Nat /\ T # {}
  OBVIOUS
<1>4. Max(T) \in T /\ \A x \in T : x <= Max(T)
  <2>. HIDE DEF T
  <2>. QED BY <1>2, <1>3, MaxOfFinite
<1>5. Max(T) \in Nat
  <2>. HIDE DEF T
  <2>. QED BY <1>3, <1>4
<1>6. \A d \in S : f[d] \in T
  OBVIOUS
<1>7. \E d \in S : f[d] = Max(T)
  BY <1>4, Zenon
<1>. QED BY <1>4, <1>5, <1>6, <1>7, Zenon

Join(none, x, q) == x \o q

Joining == INSTANCE LeftFolds WITH Op <- Join

IsJoin(run, seqs) ==
  /\ run[0] = << >>
  /\ FlattenSeq(seqs) = run[Len(seqs)]
  /\ \A i \in 1 .. Len(seqs) : run[i] = run[i - 1] \o seqs[i]

(* What flattening passes through.                                           *)
LEMMA FlattenSteps ==
  ASSUME NEW S, NEW seqs \in Seq(Seq(S))
  PROVE  \E run : IsJoin(run, seqs)
<1>1. PICK run : Joining!IsRun(run, 0, << >>, seqs)
  BY Joining!FoldSteps, Zenon
<1>. DEFINE n == Len(seqs)
<1>2. /\ run[0] = << >>
      /\ \A i \in 1 .. n : run[i] = run[i - 1] \o seqs[i]
  BY <1>1 DEF Joining!IsRun, Join
<1>3. n \in Nat
  OBVIOUS
<1>4. CASE n = 0
  <2>1. seqs = << >>
    BY <1>4, EmptySeq
  <2>2. FlattenSeq(seqs) = run[n]
    BY <2>1, <1>2, <1>4 DEF FlattenSeq
  <2>. QED BY <2>2, <1>2 DEF IsJoin
<1>5. CASE n # 0
  <2>. DEFINE next(f) == [i \in 1 .. n |-> IF i = 1 THEN seqs[i] ELSE f[i - 1] \o seqs[i]]
              flatten == CHOOSE f : f = next(f)
              g == [i \in 1 .. n |-> run[i]]
  <2>1. FlattenSeq(seqs) = flatten[n]
    BY <1>5, Zenon DEF FlattenSeq
  <2>2. 1 \in 1 .. n /\ n \in 1 .. n
    BY <1>3, <1>5
  <2>3. run[1] = seqs[1]
    <3>1. seqs[1] \in Seq(S)
      BY <2>2, ElementOfSeq
    <3>2. run[1] = run[0] \o seqs[1]
      <4>1. 1 - 1 = 0
        OBVIOUS
      <4>. QED BY <1>2, <2>2, <4>1
    <3>. QED BY <3>1, <3>2, <1>2, ConcatEmptySeq
  <2>4. ASSUME NEW i \in 1 .. n, i # 1 PROVE g[i - 1] = run[i - 1]
    <3>1. i - 1 \in 1 .. n
      BY <2>4, <1>3
    <3>. QED BY <3>1
  <2>5. g = next(g)
    <3>1. \A i \in 1 .. n : run[i] = IF i = 1 THEN seqs[i] ELSE g[i - 1] \o seqs[i]
      <4>. HIDE DEF g
      <4>. QED BY <2>3, <2>4, <1>2, Zenon
    <3>. QED BY <3>1, Zenon
  <2>6. flatten = next(flatten)
    <3>. HIDE DEF next, g
    <3>. QED BY <2>5, Zenon
  <2>. HIDE DEF flatten
  <2>. DEFINE T == {i \in 0 .. n : i # 0 => flatten[i] = run[i]}
  <2>7. 0 \in T
    BY <1>3
  <2>8. ASSUME NEW i \in 1 .. n, i - 1 \in T PROVE i \in T
    <3>1. flatten[i] = IF i = 1 THEN seqs[i] ELSE flatten[i - 1] \o seqs[i]
      BY <2>6, Zenon
    <3>2. i # 1 => flatten[i - 1] = run[i - 1]
      BY <2>8
    <3>3. flatten[i] = run[i]
      BY <3>1, <3>2, <2>3, <1>2
    <3>. QED BY <3>3, <1>3
  <2>9. n \in T
    <3>. HIDE DEF T
    <3>1. \A i \in 0 .. n : i \in T
      BY <1>3, <2>7, <2>8, RangeInduction
    <3>. QED BY <3>1, <1>3
  <2>10. flatten[n] = run[n]
    BY <2>9, <1>5
  <2>. QED BY <2>1, <2>10, <1>2 DEF IsJoin
<1>. QED BY <1>4, <1>5

(* Flattening sequences of the same elements is a sequence of them.           *)
LEMMA FlattenType ==
  ASSUME NEW S, NEW seqs \in Seq(Seq(S))
  PROVE  FlattenSeq(seqs) \in Seq(S)
<1>1. PICK run : IsJoin(run, seqs)
  BY FlattenSteps
<1>. DEFINE n == Len(seqs)
            T == {i \in 0 .. n : run[i] \in Seq(S)}
<1>2. n \in Nat
  OBVIOUS
<1>3. 0 \in T
  <2>1. run[0] = << >>
    BY <1>1 DEF IsJoin
  <2>2. << >> \in Seq(S)
    OBVIOUS
  <2>3. 0 \in 0 .. n
    BY <1>2
  <2>. QED BY <2>1, <2>2, <2>3, Zenon
<1>4. ASSUME NEW i \in 1 .. n, i - 1 \in T PROVE i \in T
  <2>1. run[i - 1] \in Seq(S) /\ seqs[i] \in Seq(S)
    BY <1>4, ElementOfSeq
  <2>2. run[i] = run[i - 1] \o seqs[i]
    BY <1>1 DEF IsJoin
  <2>3. run[i] \in Seq(S)
    BY <2>1, <2>2, ConcatProperties
  <2>. QED BY <2>3, <1>2
<1>5. n \in T
  <2>. HIDE DEF T
  <2>1. \A i \in 0 .. n : i \in T
    BY <1>2, <1>3, <1>4, RangeInduction
  <2>. QED BY <2>1, <1>2
<1>. QED BY <1>1, <1>5 DEF IsJoin

(* The elements of a finite set in a row: as many as there are.              *)
LEMMA SetToSeqType ==
  ASSUME NEW S, IsFiniteSet(S)
  PROVE  /\ SetToSeq(S) \in Seq(S)
         /\ S # {} => Len(SetToSeq(S)) >= 1
         /\ S = {} => SetToSeq(S) = << >>
<1>. DEFINE n == Cardinality(S)
<1>1. n \in Nat /\ ExistsBijection(1 .. n, S)
  BY FS_CardinalityType
<1>2. \E f \in [1 .. n -> S] : IsInjective(f)
  BY <1>1 DEF ExistsBijection, Bijection, Injection
<1>3. SetToSeq(S) \in [1 .. n -> S]
  <2>. HIDE DEF n
  <2>1. (CHOOSE f \in [1 .. n -> S] : IsInjective(f)) \in [1 .. n -> S]
    BY <1>2, Zenon
  <2>. QED BY <2>1 DEF SetToSeq, n
<1>4. S # {} => n # 0
  BY FS_EmptySet
<1>5. S = {} => n = 0
  BY FS_EmptySet
<1>. HIDE DEF n
<1>6. SetToSeq(S) \in Seq(S) /\ Len(SetToSeq(S)) = n
  BY <1>1, <1>3
<1>7. S = {} => SetToSeq(S) = << >>
  BY <1>5, <1>6, EmptySeq
<1>. QED BY <1>1, <1>4, <1>6, <1>7
-----------------------------------------------------------------------------
(* Merging logs                                                              *)

(* DOVIEWCHANGEs that logs can be merged from.                               *)
Mergeable(dvcs, v) ==
  /\ dvcs \subseteq DVCMessage /\ IsFiniteSet(dvcs) /\ dvcs # {}
  /\ \A d \in dvcs : DVCOK(d) /\ d.view <= v

(* The message d has the entry k.                                            *)
Reaches(d, k) == d.entries # << >> /\ d.entries[1].opnum <= k

(* The entry of an opnum is where it is looked for.                          *)
LEMMA EntryAtFine ==
  ASSUME NEW d \in DVCMessage, DVCOK(d), NEW k \in Nat,
         k <= d.lastSpeculative, Reaches(d, k)
  PROVE  /\ EntryAt(d, k) \in SentEntry
         /\ EntryAt(d, k).opnum = k
         /\ EntryAt(d, k).view <= d.view
<1>. DEFINE start == d.entries[1].opnum
            n     == Len(d.entries)
            i     == k - start + 1
<1>1. /\ d.entries \in Seq(SentEntry) /\ n \in Nat /\ d.entries # << >>
      /\ n # 0
  BY EmptySeq DEF DVCMessage, Reaches
<1>2. start \in Nat
  <2>1. 1 \in 1 .. n
    BY <1>1
  <2>2. d.entries[1] \in SentEntry
    BY <1>1, <2>1, ElementOfSeq
  <2>. QED BY <2>2 DEF SentEntry
<1>3. start + n - 1 = d.lastSpeculative /\ start <= k
  BY <1>1 DEF DVCOK, WellDumped, Reaches
<1>. HIDE DEF start
<1>4. i \in 1 .. n
  <2>. HIDE DEF n
  <2>. QED BY <1>1, <1>2, <1>3
<1>5. EntryAt(d, k) = d.entries[i]
  BY DEF EntryAt, start
<1>6. d.entries[i] \in SentEntry
  <2>. HIDE DEF i
  <2>. QED BY <1>1, <1>4, ElementOfSeq
<1>7. d.entries[i].opnum = start + i - 1 /\ d.entries[i].view <= d.view
  <2>. HIDE DEF i
  <2>. QED BY <1>4 DEF DVCOK, WellDumped, start
<1>8. start + i - 1 = k
  <2>. HIDE DEF n
  <2>. QED BY <1>2
<1>. QED BY <1>5, <1>6, <1>7, <1>8

LEMMA OpnumsFine ==
  ASSUME NEW low \in Nat, NEW high \in Nat
  PROVE  /\ Opnums(low, high) \in Seq(Nat)
         /\ Len(Opnums(low, high)) = Larger(high - low + 1, 0)
         /\ DOMAIN Opnums(low, high) = 1 .. Larger(high - low + 1, 0)
         /\ \A i \in 1 .. Len(Opnums(low, high)) :
              Opnums(low, high)[i] = low + i - 1 /\ low + i - 1 \in low .. high
<1>. DEFINE n == Larger(high - low + 1, 0)
<1>1. n \in Nat /\ (n # 0 => n = high - low + 1)
  BY DEF Larger
<1>2. Opnums(low, high) = [i \in 1 .. n |-> low + i - 1]
  BY DEF Opnums
<1>. HIDE DEF n
<1>3. \A i \in 1 .. n : low + i - 1 \in low .. high /\ low + i - 1 \in Nat
  BY <1>1
<1>4. [i \in 1 .. n |-> low + i - 1] \in [1 .. n -> Nat]
  BY <1>3
<1>5. /\ Opnums(low, high) \in Seq(Nat) /\ Len(Opnums(low, high)) = n
      /\ DOMAIN Opnums(low, high) = 1 .. n
  BY <1>1, <1>2, <1>4
<1>. QED BY <1>2, <1>3, <1>5 DEF n

(* The entries from low to high of a message that has them.                  *)
LEMMA EntriesFine ==
  ASSUME NEW d \in DVCMessage, DVCOK(d), NEW low \in Nat, NEW high \in Nat,
         high <= d.lastSpeculative, low <= high => Reaches(d, low)
  PROVE  /\ Entries(d, low, high) \in Seq(SentEntry)
         /\ Len(Entries(d, low, high)) = Larger(high - low + 1, 0)
         /\ \A i \in 1 .. Len(Entries(d, low, high)) :
              /\ Entries(d, low, high)[i].opnum = low + i - 1
              /\ Entries(d, low, high)[i].view <= d.view
<1>. DEFINE n == Larger(high - low + 1, 0)
            opnums == Opnums(low, high)
            entries == Entries(d, low, high)
<1>1. n \in Nat
  BY DEF Larger
<1>2. /\ Len(opnums) = n /\ DOMAIN opnums = 1 .. n
      /\ \A i \in 1 .. n : opnums[i] = low + i - 1 /\ low + i - 1 \in low .. high
  BY OpnumsFine
<1>3. entries = [i \in 1 .. n |-> EntryAt(d, opnums[i])]
  BY <1>2, Zenon DEF Entries
<1>. HIDE DEF opnums
<1>4. ASSUME NEW i \in 1 .. n
      PROVE  /\ EntryAt(d, opnums[i]) \in SentEntry
             /\ EntryAt(d, opnums[i]).opnum = low + i - 1
             /\ EntryAt(d, opnums[i]).view <= d.view
  <2>. DEFINE k == opnums[i]
  <2>1. k = low + i - 1 /\ k \in low .. high
    BY <1>2
  <2>2. d.lastSpeculative \in Nat
    BY DEF DVCMessage
  <2>3. low <= high
    BY <2>1
  <2>4. d.entries # << >> /\ d.entries[1].opnum <= low
    BY <2>3 DEF Reaches
  <2>5. d.entries[1].opnum \in Nat
    <3>1. d.entries \in Seq(SentEntry)
      BY DEF DVCMessage
    <3>2. 1 \in 1 .. Len(d.entries)
      BY <3>1, <2>4
    <3>3. d.entries[1] \in SentEntry
      BY <3>1, <3>2, ElementOfSeq
    <3>. QED BY <3>3 DEF SentEntry
  <2>. HIDE DEF k
  <2>6. k \in Nat /\ k <= d.lastSpeculative /\ Reaches(d, k)
    BY <2>1, <2>2, <2>4, <2>5 DEF Reaches
  <2>7. /\ EntryAt(d, k) \in SentEntry
        /\ EntryAt(d, k).opnum = k
        /\ EntryAt(d, k).view <= d.view
    BY <2>6, EntryAtFine
  <2>. QED BY <2>1, <2>7 DEF k
<1>. HIDE DEF n
<1>5. entries \in [1 .. n -> SentEntry]
  BY <1>3, <1>4
<1>6. entries \in Seq(SentEntry) /\ Len(entries) = n
  BY <1>1, <1>3, <1>5
<1>7. \A i \in 1 .. n : entries[i] = EntryAt(d, opnums[i])
  BY <1>3
<1>. QED BY <1>4, <1>6, <1>7 DEF n

(* The one that is met first is one of them.                                 *)
LEMMA FirstFine ==
  ASSUME NEW S, S \subseteq DVCMessage, S # {}
  PROVE  First(S) \in S
<1>. DEFINE srcs == {d.src : d \in S}
<1>1. srcs \subseteq Nat /\ srcs # {}
  <2>1. \A d \in S : d.src \in Nat
    BY ConfigurationAssumption DEF DVCMessage, Indices
  <2>. QED BY <2>1
<1>2. Min(srcs) \in srcs /\ \A n \in srcs : Min(srcs) <= n
  <2>. HIDE DEF srcs
  <2>. QED BY <1>1, MinOfNaturals
<1>3. \E d \in S : \A e \in S : d.src <= e.src
  <2>1. PICK d \in S : d.src = Min(srcs)
    BY <1>2
  <2>2. \A e \in S : e.src \in srcs
    OBVIOUS
  <2>. QED BY <2>1, <2>2, <1>2, Zenon
<1>. QED BY <1>3, Zenon DEF First

(* The logs of the latest view can be merged too.                            *)
LEMMA LatestFine ==
  ASSUME NEW v \in Nat, NEW dvcs, Mergeable(dvcs, v)
  PROVE  /\ Mergeable(LatestViewMessages(dvcs), v)
         /\ LatestViewMessages(dvcs) \subseteq dvcs
<1>. DEFINE f == [d \in dvcs |-> d.lastNormalView]
            m == Max({d.lastNormalView : d \in dvcs})
            latest == LatestViewMessages(dvcs)
<1>1. f \in [dvcs -> Nat]
  BY DEF Mergeable, DVCMessage
<1>2. {f[d] : d \in dvcs} = {d.lastNormalView : d \in dvcs}
  OBVIOUS
<1>3. \E d \in dvcs : f[d] = m
  <2>1. IsFiniteSet(dvcs) /\ dvcs # {}
    BY DEF Mergeable
  <2>2. \E d \in dvcs : f[d] = Max({f[e] : e \in dvcs})
    <3>. HIDE DEF f
    <3>. QED BY <1>1, <2>1, Greatest
  <2>. HIDE DEF f
  <2>. QED BY <2>2, <1>2
<1>4. latest = {d \in dvcs : d.lastNormalView = m}
  BY DEF LatestViewMessages
<1>5. latest # {} /\ latest \subseteq dvcs
  BY <1>3, <1>4
<1>. HIDE DEF latest
<1>6. IsFiniteSet(latest)
  BY <1>5, FS_Subset DEF Mergeable
<1>. QED BY <1>5, <1>6 DEF Mergeable, latest

LEMMA MostCommittedFine ==
  ASSUME NEW v \in Nat, NEW latest, Mergeable(latest, v)
  PROVE  MostCommitted(latest) \in latest
<1>. DEFINE f == [d \in latest |-> d.lastCommitted]
            m == Max({f[d] : d \in latest})
            most == {d \in latest : \A e \in latest : e.lastCommitted <= d.lastCommitted}
<1>1. f \in [latest -> Nat]
  BY DEF Mergeable, DVCMessage
<1>2. \A d \in latest : f[d] = d.lastCommitted
  OBVIOUS
<1>3. (\A d \in latest : f[d] <= m) /\ \E d \in latest : f[d] = m
  <2>. HIDE DEF f
  <2>1. IsFiniteSet(latest) /\ latest # {}
    BY DEF Mergeable
  <2>. QED BY <1>1, <2>1, Greatest
<1>. HIDE DEF f, m
<1>4. most # {}
  <2>1. PICK d \in latest : f[d] = m
    BY <1>3
  <2>2. \A e \in latest : e.lastCommitted <= d.lastCommitted
    BY <2>1, <1>2, <1>3
  <2>. QED BY <2>2
<1>5. most \subseteq latest /\ most \subseteq DVCMessage
  BY DEF Mergeable
<1>6. MostCommitted(latest) = First(most)
  BY DEF MostCommitted
<1>. HIDE DEF most
<1>7. First(most) \in most
  BY <1>4, <1>5, FirstFine
<1>. QED BY <1>5, <1>6, <1>7
(* What the logs have committed comes in a row.                              *)
LEMMA CommittedPartFine ==
  ASSUME NEW v \in Nat, NEW latest, Mergeable(latest, v), NEW maxStart \in Nat
  PROVE  LET part  == CommittedPart(latest, maxStart)
             first == part[1].opnum
         IN  /\ part \in Seq(SentEntry)
             /\ \A i \in 1 .. Len(part) :
                  part[i].view <= v /\ part[i].opnum = first + i - 1
             /\ part = << >> => QuorumStart(latest, maxStart) = Larger(1, maxStart)
             /\ part # << >> =>
                  /\ \E d \in latest : /\ d.entries # << >>
                                       /\ first = Larger(d.entries[1].opnum, maxStart)
                  /\ QuorumStart(latest, maxStart) = first + Len(part)
<1>. DEFINE most  == MostCommitted(latest)
            low   == Larger(most.entries[1].opnum, maxStart)
            high  == most.lastCommitted
            entries == IF most.entries = << >> THEN << >> ELSE Entries(most, low, high)
            part  == CommittedPart(latest, maxStart)
            first == part[1].opnum
            n     == Len(entries)
<1>1. part = [i \in DOMAIN entries |-> MergedEntry(entries[i], TRUE)]
  BY Zenon DEF CommittedPart
<1>2. most \in latest
  BY MostCommittedFine
<1>. HIDE DEF most
<1>3. most \in DVCMessage /\ DVCOK(most) /\ most.view <= v
  BY <1>2 DEF Mergeable
<1>4. /\ entries \in Seq(SentEntry)
      /\ \A i \in 1 .. n : entries[i].view <= v
      /\ entries # << >> => /\ most.entries # << >>
                            /\ low \in Nat /\ high \in Nat /\ n = high - low + 1
                            /\ maxStart <= low
                            /\ \A i \in 1 .. n : entries[i].opnum = low + i - 1
  <2>1. CASE most.entries = << >>
    <3>1. entries = << >>
      BY <2>1
    <3>. HIDE DEF entries
    <3>2. entries \in Seq(SentEntry) /\ n = 0
      BY <3>1
    <3>3. \A i \in 1 .. 0 : FALSE
      OBVIOUS
    <3>. QED BY <3>1, <3>2, <3>3, Zenon
  <2>2. CASE most.entries # << >>
    <3>1. entries = Entries(most, low, high)
      BY <2>2
    <3>2. most.entries[1].opnum \in Nat
      <4>1. most.entries \in Seq(SentEntry)
        BY <1>3 DEF DVCMessage
      <4>2. 1 \in 1 .. Len(most.entries)
        BY <4>1, <2>2
      <4>3. most.entries[1] \in SentEntry
        BY <4>1, <4>2, ElementOfSeq
      <4>. QED BY <4>3 DEF SentEntry
    <3>3. low \in Nat /\ maxStart <= low /\ most.entries[1].opnum <= low
      BY <3>2 DEF Larger
    <3>4. high \in Nat /\ high <= most.lastSpeculative
      BY <1>3 DEF DVCMessage, DVCOK
    <3>5. Reaches(most, low)
      BY <2>2, <3>3 DEF Reaches
    <3>. HIDE DEF low, high
    <3>6. /\ Entries(most, low, high) \in Seq(SentEntry)
          /\ Len(Entries(most, low, high)) = Larger(high - low + 1, 0)
          /\ \A i \in 1 .. Len(Entries(most, low, high)) :
               /\ Entries(most, low, high)[i].opnum = low + i - 1
               /\ Entries(most, low, high)[i].view <= most.view
      BY <1>3, <3>3, <3>4, <3>5, EntriesFine
    <3>. HIDE DEF entries
    <3>7. \A i \in 1 .. n : entries[i].view <= v
      <4>1. ASSUME NEW i \in 1 .. n PROVE entries[i].view <= v
        <5>1. entries[i].view <= most.view /\ entries[i] \in SentEntry
          BY <3>1, <3>6, ElementOfSeq
        <5>2. entries[i].view \in Nat /\ most.view \in Nat
          BY <5>1, <1>3 DEF SentEntry, DVCMessage
        <5>. QED BY <5>1, <5>2, <1>3
      <4>. QED BY <4>1
    <3>8. entries # << >> => n # 0
      BY <3>1, <3>6, EmptySeq
    <3>9. entries # << >> => n = high - low + 1
      BY <3>1, <3>3, <3>4, <3>6, <3>8 DEF Larger
    <3>. QED BY <3>1, <2>2, <3>3, <3>4, <3>6, <3>7, <3>9
  <2>. QED BY <2>1, <2>2
<1>5. n \in Nat /\ DOMAIN entries = 1 .. n
  BY <1>4
<1>. HIDE DEF entries
<1>6. \A i \in 1 .. n :
        LET e == MergedEntry(entries[i], TRUE)
        IN  /\ e \in SentEntry
            /\ e.view = entries[i].view /\ e.opnum = entries[i].opnum
  <2>. TAKE i \in 1 .. n
  <2>1. entries[i] \in SentEntry
    BY <1>4, ElementOfSeq
  <2>. QED BY <2>1 DEF MergedEntry, SentEntry
<1>7. /\ part \in Seq(SentEntry) /\ Len(part) = n
      /\ \A i \in 1 .. n : part[i] = MergedEntry(entries[i], TRUE)
  <2>. HIDE DEF part, n
  <2>1. part = [i \in 1 .. n |-> MergedEntry(entries[i], TRUE)]
    BY <1>1, <1>5
  <2>2. part \in [1 .. n -> SentEntry]
    BY <2>1, <1>6
  <2>3. part \in Seq(SentEntry) /\ Len(part) = n
    BY <2>2, <1>5
  <2>4. \A i \in 1 .. n : part[i] = MergedEntry(entries[i], TRUE)
    BY <2>1, Zenon
  <2>. QED BY <2>3, <2>4
<1>8. \A i \in 1 .. n : part[i].view <= v /\ part[i].opnum = entries[i].opnum
  BY <1>4, <1>6, <1>7
<1>. HIDE DEF low, high, part
<1>9. CASE part = << >>
  <2>1. Len(part) = 0
    BY <1>9
  <2>2. QuorumStart(latest, maxStart) = Larger(1, maxStart)
    BY <1>9, Zenon DEF QuorumStart, part
  <2>. QED BY <2>1, <2>2, <1>7, <1>9, <1>8 DEF part
<1>10. CASE part # << >>
  <2>1. Len(part) # 0
    BY <1>7, <1>10, EmptySeq
  <2>2. entries # << >> /\ n \in 1 .. n /\ 1 \in 1 .. n
    BY <2>1, <1>5, <1>7
  <2>3. /\ most.entries # << >>
        /\ low \in Nat /\ high \in Nat /\ n = high - low + 1
        /\ maxStart <= low
        /\ \A i \in 1 .. n : entries[i].opnum = low + i - 1
    BY <1>4, <2>2
  <2>4. first = low
    <3>1. part[1].opnum = low + 1 - 1
      BY <2>2, <2>3, <1>8
    <3>. QED BY <3>1, <2>3
  <2>5. Last(part).opnum = low + n - 1
    BY <2>2, <2>3, <1>7, <1>8 DEF Last
  <2>6. QuorumStart(latest, maxStart) = Larger(Last(part).opnum + 1, maxStart)
    BY <1>10, Zenon DEF QuorumStart, part
  <2>7. QuorumStart(latest, maxStart) = first + n
    <3>. HIDE DEF first, n
    <3>0. low \in Nat /\ maxStart <= low
      BY <2>3
    <3>1. \A k \in Nat : k # 0 => Larger(low + k - 1 + 1, maxStart) = low + k
      <4>. TAKE k \in Nat
      <4>1. low + k - 1 + 1 = low + k /\ low + k >= maxStart
        BY <3>0
      <4>. QED BY <4>1 DEF Larger
    <3>2. Len(part) \in Nat /\ n # 0
      BY <2>1, <1>7
    <3>. QED BY <2>4, <2>5, <2>6, <3>1, <3>2, <1>7
  <2>8. \E d \in latest : /\ d.entries # << >>
                          /\ first = Larger(d.entries[1].opnum, maxStart)
    BY <1>2, <2>3, <2>4 DEF low
  <2>9. \A i \in 1 .. n : part[i].opnum = first + i - 1
    BY <1>8, <2>3, <2>4
  <2>. QED BY <1>7, <1>8, <1>10, <2>7, <2>8, <2>9 DEF part
<1>. QED BY <1>9, <1>10

(* The logs that reach the opnum k have it.                                  *)
AllReach(latest, k) == \A d \in latest : k <= d.lastSpeculative => Reaches(d, k)

Matched(latest, k, h) == {d \in Having(latest, k) : EntryAt(d, k).hash = h}

Enough(latest, k) ==
  {h \in {EntryAt(d, k).hash : d \in Having(latest, k)} :
     Cardinality(Matched(latest, k, h)) >= MatchingEntriesNeeded(latest)}

(* What is found at an opnum are entries with that number, one or more for   *)
(* what enough of the logs have there.                                        *)
LEMMA FoundAtFine ==
  ASSUME NEW v \in Nat, NEW latest, Mergeable(latest, v), NEW k \in Nat,
         AllReach(latest, k)
  PROVE  LET found == FoundAt(latest, k)
         IN  /\ found \in Seq(SentEntry)
             /\ \A i \in 1 .. Len(found) : found[i].opnum = k /\ found[i].view <= v
             /\ found # << >> <=> Enough(latest, k) # {}
<1>. DEFINE hashes == {EntryAt(d, k).hash : d \in Having(latest, k)}
            enough == Enough(latest, k)
            e(h)   == MergedEntry(EntryAt(First(Matched(latest, k, h)), k), FALSE)
            S      == {e(h) : h \in enough}
            found  == FoundAt(latest, k)
<1>1. found = SetToSeq(S)
  BY DEF FoundAt, Enough, Matched
<1>2. ASSUME NEW h \in enough PROVE e(h) \in SentEntry /\ e(h).opnum = k /\ e(h).view <= v
  <2>. DEFINE M == Matched(latest, k, h)
              d == First(M)
  <2>1. M # {} /\ M \subseteq DVCMessage /\ M \subseteq Having(latest, k)
    BY DEF Enough, Matched, Having, Mergeable
  <2>2. d \in Having(latest, k)
    <3>. HIDE DEF M
    <3>. QED BY <2>1, FirstFine
  <2>. HIDE DEF d
  <2>3. d \in DVCMessage /\ DVCOK(d) /\ d.view <= v /\ k <= d.lastSpeculative /\ Reaches(d, k)
    BY <2>2 DEF Having, Mergeable, AllReach, DVCMessage
  <2>4. /\ EntryAt(d, k) \in SentEntry
        /\ EntryAt(d, k).opnum = k
        /\ EntryAt(d, k).view <= d.view
    BY <2>3, EntryAtFine
  <2>5. EntryAt(d, k).view <= v
    BY <2>3, <2>4 DEF SentEntry, DVCMessage
  <2>. QED BY <2>4, <2>5 DEF MergedEntry, SentEntry, d
<1>3. IsFiniteSet(enough)
  <2>1. IsFiniteSet(Having(latest, k))
    <3>1. Having(latest, k) \subseteq latest
      BY DEF Having
    <3>. QED BY <3>1, FS_Subset DEF Mergeable
  <2>. DEFINE f == [d \in Having(latest, k) |-> EntryAt(d, k).hash]
  <2>2. f \in Surjection(Having(latest, k), hashes)
    BY Zenon DEF Surjection
  <2>3. IsFiniteSet(hashes)
    <3>. HIDE DEF f, hashes
    <3>. QED BY <2>1, <2>2, FS_Surjection
  <2>4. enough \subseteq hashes
    BY DEF Enough
  <2>. HIDE DEF hashes, enough
  <2>. QED BY <2>3, <2>4, FS_Subset
<1>4. IsFiniteSet(S)
  <2>. DEFINE f == [h \in enough |-> e(h)]
  <2>1. f \in Surjection(enough, S)
    <3>. HIDE DEF enough, e
    <3>. QED BY Zenon DEF Surjection
  <2>. HIDE DEF f, S, enough
  <2>. QED BY <2>1, <1>3, FS_Surjection
<1>5. /\ found \in Seq(S)
      /\ S # {} => Len(found) >= 1
      /\ S = {} => found = << >>
  <2>. HIDE DEF S, found
  <2>. QED BY <1>1, <1>4, SetToSeqType
<1>. HIDE DEF found
<1>6. S \subseteq SentEntry
  <2>. HIDE DEF e, enough
  <2>. QED BY <1>2
<1>7. found \in Seq(SentEntry)
  <2>. HIDE DEF S
  <2>. QED BY <1>5, <1>6, SeqMonotonic
<1>8. \A x \in S : x.opnum = k /\ x.view <= v
  <2>. HIDE DEF e, enough
  <2>. QED BY <1>2
<1>9. \A i \in 1 .. Len(found) : found[i] \in S
  <2>. HIDE DEF S
  <2>. QED BY <1>5, ElementOfSeq
<1>10. S = {} <=> enough = {}
  <2>. HIDE DEF enough, e
  <2>. QED OBVIOUS
<1>11. Len(<< >>) = 0
  OBVIOUS
<1>12. found # << >> <=> S # {}
  <2>. HIDE DEF S
  <2>. QED BY <1>5, <1>11
<1>. HIDE DEF S
<1>. QED BY <1>7, <1>8, <1>9, <1>10, <1>12, Zenon DEF found

(* Logs that have the same entry have the same one before it: what is found  *)
(* at an opnum has something found below it.                                  *)
LEMMA FoundBefore ==
  ASSUME NEW v \in Nat, NEW latest, Mergeable(latest, v), NEW k \in Nat,
         AllReach(latest, k), Enough(latest, k + 1) # {}
  PROVE  Enough(latest, k) # {}
<1>1. PICK h \in {EntryAt(d, k + 1).hash : d \in Having(latest, k + 1)} :
        Cardinality(Matched(latest, k + 1, h)) >= MatchingEntriesNeeded(latest)
  BY DEF Enough
<1>. DEFINE g == [n \in 1 .. k |-> h[n]]
            M == Matched(latest, k, g)
            L == Matched(latest, k + 1, h)
<1>2. ASSUME NEW d \in L PROVE d \in M
  <2>1. /\ d \in latest /\ d.lastSpeculative >= k + 1
        /\ EntryAt(d, k + 1).hash = h
    BY DEF Matched, Having
  <2>2. d \in DVCMessage /\ DVCOK(d)
    BY <2>1 DEF Mergeable
  <2>3. d.lastSpeculative \in Nat /\ d.entries \in Seq(SentEntry)
    BY <2>2 DEF DVCMessage
  <2>4. d.lastSpeculative >= k /\ k <= d.lastSpeculative
    BY <2>1, <2>3
  <2>5. Reaches(d, k)
    BY <2>1, <2>4 DEF AllReach
  <2>. DEFINE start == d.entries[1].opnum
              len   == Len(d.entries)
              i     == (k + 1) - start + 1
  <2>6. d.entries # << >> /\ len \in Nat /\ start <= k
    BY <2>3, <2>5 DEF Reaches
  <2>7. start \in Nat
    <3>1. 1 \in 1 .. len
      BY <2>3, <2>6
    <3>2. d.entries[1] \in SentEntry
      BY <2>3, <3>1, ElementOfSeq
    <3>. QED BY <3>2 DEF SentEntry
  <2>8. start + len - 1 = d.lastSpeculative
    BY <2>2, <2>6 DEF DVCOK, WellDumped
  <2>9. /\ \A j \in 1 .. len : d.entries[j].opnum = start + j - 1
        /\ \A j \in 2 .. len :
             d.entries[j - 1].hash =
               [n \in 1 .. d.entries[j - 1].opnum |-> d.entries[j].hash[n]]
    BY <2>2 DEF DVCOK, WellDumped
  <2>10. EntryAt(d, k + 1) = d.entries[i] /\ EntryAt(d, k) = d.entries[k - start + 1]
    BY Zenon DEF EntryAt
  <2>. HIDE DEF start, len
  <2>11. i \in 2 .. len /\ i - 1 \in 1 .. len
    BY <2>1, <2>6, <2>7, <2>8
  <2>12. k - start + 1 = i - 1 /\ start + (i - 1) - 1 = k
    BY <2>7
  <2>. HIDE DEF i
  <2>13. d.entries[i - 1].opnum = k
    BY <2>9, <2>11, <2>12
  <2>14. d.entries[i - 1].hash = [n \in 1 .. k |-> d.entries[i].hash[n]]
    BY <2>9, <2>11, <2>13
  <2>15. EntryAt(d, k).hash = g
    BY <2>1, <2>10, <2>12, <2>14
  <2>. HIDE DEF g
  <2>. QED BY <2>1, <2>4, <2>15 DEF Matched, Having
<1>3. L # {} /\ L \subseteq latest /\ M \subseteq latest
  BY DEF Matched, Having
<1>. HIDE DEF L, M
<1>4. L \subseteq M
  BY <1>2
<1>5. IsFiniteSet(L) /\ IsFiniteSet(M) /\ Cardinality(L) <= Cardinality(M)
  <2>1. IsFiniteSet(latest)
    BY DEF Mergeable
  <2>2. IsFiniteSet(M)
    BY <2>1, <1>3, FS_Subset
  <2>. QED BY <2>2, <1>4, FS_Subset
<1>6. MatchingEntriesNeeded(latest) \in Nat
  <2>. DEFINE S == {FastQuorumSize - F, Cardinality(latest)}
  <2>1. Cardinality(latest) \in Nat
    BY FS_CardinalityType DEF Mergeable
  <2>2. FastQuorumSize - F \in Nat
    BY ConfigurationAssumption DEF FastQuorumSize
  <2>3. S \subseteq Nat /\ S # {}
    BY <2>1, <2>2
  <2>. HIDE DEF S
  <2>4. Min(S) \in S
    BY <2>3, MinOfNaturals
  <2>. QED BY <2>3, <2>4 DEF S, MatchingEntriesNeeded
<1>7. Cardinality(L) \in Nat /\ Cardinality(M) \in Nat
  BY <1>5, FS_CardinalityType
<1>8. Cardinality(M) >= MatchingEntriesNeeded(latest)
  <2>1. Cardinality(L) >= MatchingEntriesNeeded(latest)
    BY <1>1 DEF L
  <2>. QED BY <2>1, <1>5, <1>6, <1>7
<1>9. \E d \in Having(latest, k) : EntryAt(d, k).hash = g
  BY <1>3, <1>4 DEF M, Matched
<1>. HIDE DEF g
<1>. QED BY <1>8, <1>9 DEF M, Enough
(* Entries from low on, one or more of a number.                             *)
Rising(out, low, v) ==
  /\ out \in Seq(SentEntry)
  /\ \A i \in 1 .. Len(out) : /\ out[i].view <= v
                              /\ out[i].opnum <= Last(out).opnum
  /\ out # << >> => /\ out[1].opnum = low
                    /\ Last(out).opnum <= low + Len(out) - 1

(* The parts of two entries of a concatenation.                              *)
LEMMA Concatenated ==
  ASSUME NEW S, NEW p \in Seq(S), NEW q \in Seq(S), q # << >>
  PROVE  /\ p \o q \in Seq(S)
         /\ Len(p \o q) = Len(p) + Len(q)
         /\ p \o q # << >>
         /\ Len(q) \in Nat \ {0} /\ Len(p) \in Nat
         /\ Last(p \o q) = Last(q)
         /\ p = << >> => (p \o q)[1] = q[1]
         /\ p # << >> => (p \o q)[1] = p[1]
         /\ \A i \in 1 .. Len(p \o q) :
              \/ \E j \in 1 .. Len(p) : (p \o q)[i] = p[j]
              \/ \E j \in 1 .. Len(q) : (p \o q)[i] = q[j]
<1>. DEFINE m == Len(p)
            n == Len(q)
            pq == p \o q
<1>1. m \in Nat /\ n \in Nat /\ n # 0 /\ (p = << >> <=> m = 0)
  BY EmptySeq
<1>2. /\ pq \in Seq(S) /\ Len(pq) = m + n
      /\ \A i \in 1 .. m + n : pq[i] = IF i <= m THEN p[i] ELSE q[i - m]
  BY ConcatProperties
<1>. HIDE DEF m, n, pq
<1>3. pq # << >>
  BY <1>1, <1>2, EmptySeq
<1>4. Last(pq) = Last(q)
  <2>1. pq[m + n] = q[n]
    <3>1. m + n \in 1 .. m + n /\ ~(m + n <= m) /\ (m + n) - m = n
      BY <1>1
    <3>2. pq[m + n] = q[(m + n) - m]
      BY <3>1, <1>2, Zenon
    <3>. QED BY <3>1, <3>2
  <2>. QED BY <2>1, <1>2 DEF Last, n
<1>5. pq[1] = IF m = 0 THEN q[1] ELSE p[1]
  <2>1. 1 \in 1 .. m + n /\ (1 <= m <=> m # 0) /\ (m = 0 => 1 - m = 1)
    BY <1>1
  <2>. QED BY <2>1, <1>2
<1>6. ASSUME NEW i \in 1 .. m + n
      PROVE  (\E j \in 1 .. m : pq[i] = p[j]) \/ (\E j \in 1 .. n : pq[i] = q[j])
  <2>1. CASE i <= m
    <3>1. i \in 1 .. m
      BY <2>1, <1>1
    <3>. QED BY <3>1, <2>1, <1>2
  <2>2. CASE ~(i <= m)
    <3>1. i - m \in 1 .. n
      BY <2>2, <1>1
    <3>. QED BY <3>1, <2>2, <1>2
  <2>. QED BY <2>1, <2>2
<1>. QED BY <1>1, <1>2, <1>3, <1>4, <1>5, <1>6 DEF m, n, pq

(* What is found at the opnums from low on rises: where nothing is found,    *)
(* nothing is found any more.                                                  *)
LEMMA QuorumPartFine ==
  ASSUME NEW v \in Nat, NEW latest, Mergeable(latest, v), NEW maxStart \in Nat,
         QuorumStart(latest, maxStart) \in Nat,
         \A k \in Nat : k >= QuorumStart(latest, maxStart) => AllReach(latest, k)
  PROVE  Rising(QuorumPart(latest, maxStart), QuorumStart(latest, maxStart), v)
<1>. DEFINE low    == QuorumStart(latest, maxStart)
            high   == MaxSpeculative(latest)
            opnums == Opnums(low, high)
            n      == Larger(high - low + 1, 0)
            seqs   == [i \in 1 .. n |-> FoundAt(latest, opnums[i])]
            part   == QuorumPart(latest, maxStart)
<1>1. high \in Nat
  <2>. DEFINE f == [d \in latest |-> d.lastSpeculative]
  <2>1. f \in [latest -> Nat]
    BY DEF Mergeable, DVCMessage
  <2>2. {f[d] : d \in latest} = {d.lastSpeculative : d \in latest}
    OBVIOUS
  <2>3. Max({f[d] : d \in latest}) \in Nat
    <3>1. IsFiniteSet(latest) /\ latest # {}
      BY DEF Mergeable
    <3>. HIDE DEF f
    <3>. QED BY <2>1, <3>1, Greatest
  <2>. HIDE DEF f
  <2>. QED BY <2>2, <2>3 DEF MaxSpeculative
<1>2. low \in Nat /\ \A k \in Nat : k >= low => AllReach(latest, k)
  OBVIOUS
<1>. HIDE DEF low, high
<1>3. /\ DOMAIN opnums = 1 .. n /\ n \in Nat
      /\ \A i \in 1 .. n : opnums[i] = low + i - 1
  <2>1. n \in Nat
    BY <1>1, <1>2 DEF Larger
  <2>2. /\ DOMAIN opnums = 1 .. n /\ Len(opnums) = n
        /\ \A i \in 1 .. Len(opnums) : opnums[i] = low + i - 1
    <3>. HIDE DEF n
    <3>. QED BY <1>1, <1>2, OpnumsFine DEF n
  <2>. QED BY <2>1, <2>2
<1>4. part = FlattenSeq(seqs)
  BY <1>3, Zenon DEF QuorumPart, low, high
<1>. HIDE DEF n, opnums, part
<1>5. ASSUME NEW i \in 1 .. n
      PROVE  /\ seqs[i] \in Seq(SentEntry)
             /\ \A j \in 1 .. Len(seqs[i]) : /\ seqs[i][j].opnum = low + i - 1
                                             /\ seqs[i][j].view <= v
             /\ seqs[i] # << >> <=> Enough(latest, low + i - 1) # {}
  <2>1. low + i - 1 \in Nat /\ low + i - 1 >= low
    BY <1>2
  <2>2. AllReach(latest, low + i - 1)
    <3>1. \A k \in Nat : k = low + i - 1 => AllReach(latest, k)
      BY <1>2, <2>1
    <3>. QED BY <3>1, <2>1
  <2>3. seqs[i] = FoundAt(latest, low + i - 1)
    BY <1>3
  <2>. HIDE DEF seqs
  <2>4. LET found == FoundAt(latest, low + i - 1)
        IN  /\ found \in Seq(SentEntry)
            /\ \A j \in 1 .. Len(found) : found[j].opnum = low + i - 1 /\ found[j].view <= v
            /\ found # << >> <=> Enough(latest, low + i - 1) # {}
    BY <2>1, <2>2, FoundAtFine
  <2>. QED BY <2>3, <2>4
<1>6. ASSUME NEW i \in 2 .. n, seqs[i] # << >> PROVE seqs[i - 1] # << >>
  <2>. DEFINE k == low + (i - 1) - 1
  <2>1. i \in 1 .. n /\ i - 1 \in 1 .. n
    BY <1>3
  <2>2. k \in Nat /\ k >= low /\ k + 1 = low + i - 1
    BY <1>2, <1>3
  <2>. HIDE DEF k, seqs
  <2>3. Enough(latest, k + 1) # {}
    BY <2>1, <2>2, <1>5, <1>6
  <2>4. AllReach(latest, k)
    BY <2>2, <1>2
  <2>5. Enough(latest, k) # {}
    BY <2>2, <2>3, <2>4, FoundBefore
  <2>. QED BY <2>1, <2>5, <1>5 DEF k
<1>7. seqs \in Seq(Seq(SentEntry)) /\ Len(seqs) = n
  <2>1. seqs \in [1 .. n -> Seq(SentEntry)]
    <3>1. \A i \in 1 .. n : FoundAt(latest, opnums[i]) \in Seq(SentEntry)
      BY <1>5
    <3>. QED BY <3>1
  <2>. HIDE DEF seqs
  <2>. QED BY <2>1, <1>3
<1>. HIDE DEF seqs
<1>8. PICK run : IsJoin(run, seqs)
  BY <1>7, FlattenSteps
<1>. DEFINE Far(i) == i # 0 /\ seqs[i] # << >> =>
                        /\ run[i] # << >>
                        /\ Last(run[i]).opnum = low + i - 1
                        /\ Len(run[i]) >= i
            T == {i \in 0 .. n : Rising(run[i], low, v) /\ Far(i)}
<1>9. 0 \in T
  <2>1. run[0] = << >>
    BY <1>8 DEF IsJoin
  <2>2. << >> \in Seq(SentEntry) /\ Len(<< >>) = 0 /\ 0 \in 0 .. n
    BY <1>3
  <2>3. Rising(<< >>, low, v)
    BY <2>2 DEF Rising
  <2>. QED BY <2>1, <2>2, <2>3, Zenon
<1>10. ASSUME NEW i \in 1 .. n, i - 1 \in T PROVE i \in T
  <2>. DEFINE p == run[i - 1]
              q == seqs[i]
  <2>1. i \in 0 .. n /\ i \in Nat /\ i # 0
    BY <1>3
  <2>2. run[i] = p \o q
    BY <1>7, <1>8 DEF IsJoin
  <2>3. Rising(p, low, v) /\ p \in Seq(SentEntry)
    BY <1>10 DEF Rising
  <2>4. CASE q = << >>
    <3>1. run[i] = p
      BY <2>2, <2>3, <2>4, ConcatEmptySeq
    <3>. QED BY <3>1, <2>1, <2>3, <2>4
  <2>5. CASE q # << >>
    <3>1. /\ q \in Seq(SentEntry)
          /\ \A j \in 1 .. Len(q) : q[j].opnum = low + i - 1 /\ q[j].view <= v
      BY <1>5
    <3>2. i # 1 => /\ p # << >> /\ Last(p).opnum = low + (i - 1) - 1
                   /\ Len(p) >= i - 1
      <4>1. ASSUME i # 1 PROVE i \in 2 .. n /\ i - 1 # 0
        BY <4>1, <2>1
      <4>. QED BY <4>1, <1>6, <1>10, <2>5
    <3>3. i = 1 => p = << >>
      <4>1. run[0] = << >> /\ 1 - 1 = 0
        BY <1>8 DEF IsJoin
      <4>. QED BY <4>1
    <3>. HIDE DEF p, q
    <3>4. /\ p \o q \in Seq(SentEntry)
          /\ Len(p \o q) = Len(p) + Len(q)
          /\ p \o q # << >>
          /\ Len(q) \in Nat \ {0} /\ Len(p) \in Nat
          /\ Last(p \o q) = Last(q)
          /\ p = << >> => (p \o q)[1] = q[1]
          /\ p # << >> => (p \o q)[1] = p[1]
          /\ \A x \in 1 .. Len(p \o q) :
               \/ \E j \in 1 .. Len(p) : (p \o q)[x] = p[j]
               \/ \E j \in 1 .. Len(q) : (p \o q)[x] = q[j]
      BY <2>3, <2>5, <3>1, Concatenated
    <3>. DEFINE pq == p \o q
                len == Len(p) + Len(q)
                b == low + i - 1
    <3>5. 1 \in 1 .. Len(q) /\ Len(q) \in 1 .. Len(q)
      BY <3>4
    <3>6. Last(pq).opnum = b
      BY <3>1, <3>4, <3>5 DEF Last
    <3>7. len >= i
      BY <3>2, <3>4, <2>1
    <3>8. \A x \in 1 .. Len(pq) : pq[x].view <= v /\ pq[x].opnum <= b
      <4>1. \A j \in 1 .. Len(q) : q[j].view <= v /\ q[j].opnum <= b
        <5>1. b \in Int /\ b <= b
          BY <1>2, <2>1
        <5>. QED BY <3>1, <5>1
      <4>2. \A j \in 1 .. Len(p) : p[j].view <= v /\ p[j].opnum <= b
        <5>1. CASE i = 1
          <6>1. Len(p) = 0
            BY <5>1, <3>3
          <6>. QED BY <6>1
        <5>2. CASE i # 1
          <6>. TAKE j \in 1 .. Len(p)
          <6>1. p[j].view <= v /\ p[j].opnum <= Last(p).opnum
            BY <2>3 DEF Rising
          <6>2. p[j] \in SentEntry
            BY <2>3, ElementOfSeq
          <6>3. p[j].opnum \in Nat
            BY <6>2 DEF SentEntry
          <6>4. p[j].opnum <= low + (i - 1) - 1
            BY <6>1, <3>2, <5>2
          <6>. QED BY <6>1, <6>3, <6>4, <1>2, <2>1
        <5>. QED BY <5>1, <5>2
      <4>. HIDE DEF pq, b
      <4>. QED BY <4>1, <4>2, <3>4, Zenon DEF pq
    <3>9. pq[1].opnum = low
      <4>1. CASE i = 1
        <5>1. q[1].opnum = low + 1 - 1
          BY <4>1, <3>1, <3>5
        <5>. QED BY <4>1, <5>1, <3>3, <3>4, <1>2
      <4>2. CASE i # 1
        <5>1. p[1].opnum = low
          BY <4>2, <3>2, <2>3 DEF Rising
        <5>. QED BY <4>2, <5>1, <3>2, <3>4
      <4>. QED BY <4>1, <4>2
    <3>. HIDE DEF pq, len
    <3>10. pq \in Seq(SentEntry) /\ Len(pq) = len /\ pq # << >> /\ len \in Nat
      BY <3>4 DEF pq, len
    <3>11. b <= low + len - 1
      BY <3>7, <3>10, <1>2, <2>1
    <3>. HIDE DEF b
    <3>12. Rising(pq, low, v)
      BY <3>6, <3>8, <3>9, <3>10, <3>11 DEF Rising
    <3>13. run[i] = pq
      BY <2>2 DEF pq
    <3>14. Far(i)
      BY <3>6, <3>7, <3>10, <3>13 DEF b
    <3>. HIDE DEF Far
    <3>. QED BY <2>1, <3>12, <3>13, <3>14
  <2>. QED BY <2>4, <2>5
<1>11. n \in T
  <2>. HIDE DEF T
  <2>1. \A i \in 0 .. n : i \in T
    BY <1>3, <1>9, <1>10, RangeInduction
  <2>. QED BY <2>1, <1>3
<1>12. Rising(run[n], low, v)
  BY <1>11
<1>. QED BY <1>4, <1>7, <1>8, <1>12 DEF IsJoin, part, low
(* Adding an operation keeps a log that fits.                                *)
LEMMA AddUnseenFine ==
  ASSUME NEW s, Len(s.log) \in Nat, NEW v \in Nat, NEW out,
         Installable(s, out, v), NEW e \in SentEntry
  PROVE  Installable(s, AddUnseen(v, out, e), v)
<1>. DEFINE next == IF out = << >> THEN 1 ELSE Last(out).opnum + 1
            hash == IF out = << >> THEN << >> ELSE Last(out).hash
            x    == [opnum |-> next, view |-> v, request |-> e.request,
                     hash |-> Append(hash, e.request), committed |-> FALSE]
            new  == Append(out, x)
            n    == Len(out)
<1>1. CASE AddUnseen(v, out, e) = out
  BY <1>1
<1>2. CASE AddUnseen(v, out, e) = new
  <2>1. out \in Seq(SentEntry) /\ n \in Nat /\ (out # << >> => n # 0)
    BY EmptySeq DEF Installable
  <2>2. out # << >> => Last(out) \in SentEntry
    <3>1. out # << >> => n \in 1 .. n
      BY <2>1
    <3>. QED BY <2>1, <3>1, ElementOfSeq DEF Last
  <2>3. next \in Nat /\ hash \in Seq(Request) /\ e.request \in Request
    BY <2>2 DEF SentEntry
  <2>4. x \in SentEntry /\ x.view = v /\ x.opnum = next
    <3>. HIDE DEF next, hash
    <3>1. Append(hash, e.request) \in Seq(Request)
      BY <2>3, AppendProperties
    <3>. QED BY <2>3, <3>1 DEF SentEntry
  <2>. HIDE DEF x
  <2>5. /\ new \in Seq(SentEntry)
        /\ Len(new) = n + 1
        /\ \A i \in 1 .. n : new[i] = out[i]
        /\ new[n + 1] = x
    BY <2>1, <2>4, Appending
  <2>. HIDE DEF new
  <2>6. Last(new) = x /\ Last(new).opnum = next
    BY <2>4, <2>5 DEF Last
  <2>7. \A i \in 1 .. n : out[i].view <= v /\ out[i].opnum <= next
    <3>. TAKE i \in 1 .. n
    <3>1. out[i].view <= v /\ out[i].opnum <= Last(out).opnum
      BY DEF Installable
    <3>2. out # << >>
      BY <2>1
    <3>3. out[i] \in SentEntry
      BY <2>1, ElementOfSeq
    <3>4. next = Last(out).opnum + 1 /\ out[i].opnum \in Nat /\ Last(out).opnum \in Nat
      BY <2>2, <3>2, <3>3 DEF SentEntry
    <3>. QED BY <3>1, <3>4
  <2>8. \A i \in 1 .. Len(new) : new[i].view <= v /\ new[i].opnum <= Last(new).opnum
    <3>1. \A i \in 1 .. n + 1 : i \in 1 .. n \/ i = n + 1
      BY <2>1
    <3>2. v <= v /\ next <= next
      BY <2>3
    <3>. QED BY <2>4, <2>5, <2>6, <2>7, <3>1, <3>2
  <2>9. /\ new[1].opnum \in 1 .. Len(s.log) + 1
        /\ next <= new[1].opnum + Len(new) - 1
    <3>1. CASE out = << >>
      <4>1. n = 0 /\ n + 1 = 1 /\ next = 1
        BY <3>1
      <4>2. new[1].opnum = 1
        BY <4>1, <2>4, <2>5
      <4>. QED BY <4>1, <4>2, <2>5
    <3>2. CASE out # << >>
      <4>1. 1 \in 1 .. n
        BY <3>2, <2>1
      <4>2. new[1] = out[1]
        BY <4>1, <2>5
      <4>3. /\ out[1].opnum \in 1 .. Len(s.log) + 1
            /\ Last(out).opnum <= out[1].opnum + n - 1
        BY <3>2 DEF Installable
      <4>4. next = Last(out).opnum + 1 /\ Last(out).opnum \in Nat
        BY <2>2, <3>2 DEF SentEntry
      <4>5. n \in Nat /\ Len(new) = n + 1 /\ out[1].opnum \in Nat
        <5>1. out[1] \in SentEntry
          BY <4>1, <2>1, ElementOfSeq
        <5>. QED BY <5>1, <2>1, <2>5 DEF SentEntry
      <4>. HIDE DEF next, n, new
      <4>6. next <= out[1].opnum + Len(new) - 1
        BY <4>3, <4>4, <4>5
      <4>. QED BY <4>2, <4>3, <4>6
    <3>. QED BY <3>1, <3>2
  <2>10. Installable(s, new, v)
    BY <2>5, <2>6, <2>8, <2>9 DEF Installable
  <2>. QED BY <1>2, <2>10 DEF new
<1>3. AddUnseen(v, out, e) = out \/ AddUnseen(v, out, e) = new
  BY Zenon DEF AddUnseen
<1>. QED BY <1>1, <1>2, <1>3

Merging == INSTANCE LeftFolds WITH Op <- AddUnseen

(* What of a replica's log is to be merged last.                             *)
LEMMA SpeculativeFine ==
  ASSUME NEW v \in Nat, NEW latest, Mergeable(latest, v), NEW maxStart \in Nat,
         NEW r,
         \A d \in latest :
           LET low == Larger(d.lastCommitted + 1, maxStart)
           IN  low <= d.lastSpeculative => Reaches(d, low)
  PROVE  SpeculativeFrom(latest, r, maxStart) \in Seq(SentEntry)
<1>. DEFINE own == {d \in latest : d.src = r}
            d   == First(own)
            low == Larger(d.lastCommitted + 1, maxStart)
<1>1. CASE own = {}
  <2>1. SpeculativeFrom(latest, r, maxStart) = << >>
    BY <1>1 DEF SpeculativeFrom
  <2>2. << >> \in Seq(SentEntry)
    OBVIOUS
  <2>. QED BY <2>1, <2>2
<1>2. CASE own # {}
  <2>1. SpeculativeFrom(latest, r, maxStart) = Entries(d, low, d.lastSpeculative)
    BY <1>2 DEF SpeculativeFrom, Speculative
  <2>2. own \subseteq DVCMessage /\ own \subseteq latest
    BY DEF Mergeable
  <2>3. d \in own
    <3>. HIDE DEF own
    <3>. QED BY <1>2, <2>2, FirstFine
  <2>4. d \in DVCMessage /\ DVCOK(d) /\ d \in latest
    BY <2>2, <2>3 DEF Mergeable
  <2>5. low <= d.lastSpeculative => Reaches(d, low)
    <3>. HIDE DEF d
    <3>. QED BY <2>4
  <2>. HIDE DEF d
  <2>6. low \in Nat /\ d.lastSpeculative \in Nat
    BY <2>4 DEF DVCMessage, Larger
  <2>. HIDE DEF low
  <2>7. d.lastSpeculative <= d.lastSpeculative
    BY <2>6
  <2>8. Entries(d, low, d.lastSpeculative) \in Seq(SentEntry)
    BY <2>4, <2>5, <2>6, <2>7, EntriesFine
  <2>. QED BY <2>1, <2>8
<1>. QED BY <1>1, <1>2

(* The merged log can be installed.                                          *)
LEMMA MergeLogsFine ==
  ASSUME NEW s, Len(s.log) \in Nat, NEW v \in Nat, NEW dvcs, Mergeable(dvcs, v),
         NEW maxStart \in 0 .. Len(s.log) + 1, ReadsInRange(maxStart, dvcs),
         \A d \in dvcs : d.entries # << >> => d.entries[1].opnum <= Len(s.log) + 1
  PROVE  Installable(s, MergeLogs(v, maxStart, dvcs), v)
<1>. DEFINE latest == LatestViewMessages(dvcs)
            n      == Len(s.log)
            seqs   == [i \in 1 .. N |-> SpeculativeFrom(latest, i - 1, maxStart)]
            rest   == FlattenSeq(seqs)
            part   == CommittedPart(latest, maxStart)
            first  == part[1].opnum
            low    == QuorumStart(latest, maxStart)
            quorum == QuorumPart(latest, maxStart)
            base   == part \o quorum
<1>1. MergeLogs(v, maxStart, dvcs) = Merging!Fold(v, base, rest)
  BY DEF MergeLogs, Merging!Fold, FoldLeft, MapThenFoldSet,
         Merging!FoldLeft, Merging!MapThenFoldSet, Max, Merging!Max
<1>2. Mergeable(latest, v) /\ latest \subseteq dvcs /\ maxStart \in Nat
  BY LatestFine
<1>3. \A d \in latest :
        /\ low <= d.lastSpeculative => Reaches(d, low)
        /\ Larger(d.lastCommitted + 1, maxStart) <= d.lastSpeculative =>
             Reaches(d, Larger(d.lastCommitted + 1, maxStart))
  BY Zenon DEF ReadsInRange, Reaches
<1>4. /\ part \in Seq(SentEntry)
      /\ \A i \in 1 .. Len(part) :
           part[i].view <= v /\ part[i].opnum = first + i - 1
      /\ part = << >> => low = Larger(1, maxStart)
      /\ part # << >> =>
           /\ \E d \in latest : /\ d.entries # << >>
                                /\ first = Larger(d.entries[1].opnum, maxStart)
           /\ low = first + Len(part)
  BY <1>2, CommittedPartFine
<1>. HIDE DEF latest, part, low, quorum, rest
<1>5. part # << >> => first \in 1 .. n + 1
  <2>. SUFFICES ASSUME part # << >> PROVE first \in 1 .. n + 1
    OBVIOUS
  <2>1. PICK d \in latest : /\ d.entries # << >>
                            /\ first = Larger(d.entries[1].opnum, maxStart)
    BY <1>4
  <2>2. d.entries[1].opnum <= n + 1 /\ d \in DVCMessage /\ DVCOK(d)
    BY <1>2, <2>1 DEF Mergeable
  <2>3. d.entries[1].opnum \in Nat /\ d.entries[1].opnum >= 1
    <3>1. d.entries \in Seq(SentEntry)
      BY <2>2 DEF DVCMessage
    <3>2. 1 \in 1 .. Len(d.entries)
      BY <2>1, <3>1
    <3>3. d.entries[1] \in SentEntry
      BY <3>1, <3>2, ElementOfSeq
    <3>. QED BY <2>1, <2>2, <3>3 DEF SentEntry, DVCOK, WellDumped
  <2>. HIDE DEF first
  <2>. QED BY <2>1, <2>2, <2>3 DEF Larger
<1>6. /\ low \in Nat /\ Len(part) \in Nat
      /\ part # << >> => first \in Nat /\ Len(part) # 0
      /\ part = << >> => low \in 1 .. n + 1
  <2>1. Len(part) \in Nat /\ (part # << >> => Len(part) # 0)
    BY <1>4, EmptySeq
  <2>2. CASE part = << >>
    BY <2>1, <2>2, <1>4 DEF Larger
  <2>3. CASE part # << >>
    <3>. HIDE DEF first
    <3>. QED BY <2>1, <2>3, <1>4, <1>5
  <2>. QED BY <2>2, <2>3
<1>7. \A k \in Nat : k >= low => AllReach(latest, k)
  <2>. SUFFICES ASSUME NEW k \in Nat, k >= low, NEW d \in latest, k <= d.lastSpeculative
                PROVE  Reaches(d, k)
    BY DEF AllReach
  <2>1. d \in DVCMessage
    BY <1>2 DEF Mergeable
  <2>2. d.lastSpeculative \in Nat /\ d.entries \in Seq(SentEntry)
    BY <2>1 DEF DVCMessage
  <2>3. Reaches(d, low)
    BY <1>3, <1>6, <2>2
  <2>4. d.entries[1].opnum \in Nat
    <3>1. 1 \in 1 .. Len(d.entries)
      BY <2>2, <2>3 DEF Reaches
    <3>2. d.entries[1] \in SentEntry
      BY <2>2, <3>1, ElementOfSeq
    <3>. QED BY <3>2 DEF SentEntry
  <2>. QED BY <2>3, <2>4, <1>6 DEF Reaches
<1>8. Rising(quorum, low, v)
  BY <1>2, <1>6, <1>7, QuorumPartFine DEF low, quorum
<1>9. Installable(s, base, v)
  <2>1. quorum \in Seq(SentEntry)
    BY <1>8 DEF Rising
  <2>2. CASE quorum = << >>
    <3>1. base = part
      BY <2>2, <1>4, ConcatEmptySeq
    <3>. HIDE DEF base
    <3>2. CASE part = << >>
      <4>1. Len(part) = 0
        BY <3>2
      <4>. QED BY <3>1, <3>2, <4>1, <1>4 DEF Installable
    <3>3. CASE part # << >>
      <4>. DEFINE len == Len(part)
      <4>1. len \in 1 .. len
        BY <1>6, <3>3
      <4>2. Last(part).opnum = first + len - 1
        BY <4>1, <1>4 DEF Last
      <4>3. \A i \in 1 .. len : first + i - 1 <= first + len - 1
        <5>1. len \in Nat /\ first \in Nat
          BY <1>6, <3>3
        <5>. HIDE DEF len, first
        <5>. QED BY <5>1
      <4>4. first + len - 1 <= first + len - 1
        <5>. HIDE DEF len, first
        <5>. QED BY <1>6, <3>3, <4>1
      <4>5. \A i \in 1 .. len : part[i].view <= v /\ part[i].opnum <= Last(part).opnum
        <5>. HIDE DEF len
        <5>. QED BY <4>2, <4>3, <1>4 DEF len
      <4>. QED BY <3>1, <3>3, <4>2, <4>4, <4>5, <1>4, <1>5 DEF Installable
    <3>. QED BY <3>2, <3>3
  <2>3. CASE quorum # << >>
    <3>1. /\ base \in Seq(SentEntry)
          /\ Len(base) = Len(part) + Len(quorum)
          /\ base # << >>
          /\ Len(quorum) \in Nat \ {0}
          /\ Last(base) = Last(quorum)
          /\ part = << >> => base[1] = quorum[1]
          /\ part # << >> => base[1] = part[1]
          /\ \A x \in 1 .. Len(base) :
               \/ \E j \in 1 .. Len(part) : base[x] = part[j]
               \/ \E j \in 1 .. Len(quorum) : base[x] = quorum[j]
      BY <2>1, <2>3, <1>4, Concatenated
    <3>. DEFINE last == Last(quorum).opnum
    <3>2. /\ \A i \in 1 .. Len(quorum) : quorum[i].view <= v /\ quorum[i].opnum <= last
          /\ quorum[1].opnum = low
          /\ last <= low + Len(quorum) - 1
      BY <1>8, <2>3 DEF Rising
    <3>3. last \in Nat /\ low <= last
      <4>1. 1 \in 1 .. Len(quorum) /\ Len(quorum) \in 1 .. Len(quorum)
        BY <3>1
      <4>2. Last(quorum) \in SentEntry
        BY <2>1, <4>1, ElementOfSeq DEF Last
      <4>. QED BY <4>1, <4>2, <3>2 DEF SentEntry
    <3>. HIDE DEF base, last, first
    <3>4. \A j \in 1 .. Len(part) : part[j].view <= v /\ part[j].opnum <= last
      <4>. TAKE j \in 1 .. Len(part)
      <4>1. part # << >>
        BY <1>6
      <4>2. part[j].view <= v /\ part[j].opnum = first + j - 1
        BY <1>4
      <4>3. first \in Nat /\ low = first + Len(part)
        BY <4>1, <1>4, <1>6
      <4>. QED BY <4>2, <4>3, <1>6, <3>3
    <3>5. \A i \in 1 .. Len(base) : base[i].view <= v /\ base[i].opnum <= last
      BY <3>1, <3>2, <3>4, Zenon
    <3>6. base[1].opnum \in 1 .. n + 1 /\ last <= base[1].opnum + Len(base) - 1
      <4>1. CASE part = << >>
        <5>1. Len(part) = 0 /\ base[1].opnum = low
          BY <4>1, <3>1, <3>2
        <5>. QED BY <4>1, <5>1, <1>6, <3>1, <3>2, <3>3
      <4>2. CASE part # << >>
        <5>1. base[1].opnum = first
          BY <4>2, <3>1 DEF first
        <5>2. low = first + Len(part) /\ first \in 1 .. n + 1
          BY <4>2, <1>4, <1>5
        <5>. QED BY <5>1, <5>2, <1>6, <3>1, <3>2, <3>3
      <4>. QED BY <4>1, <4>2
    <3>. QED BY <3>1, <3>5, <3>6 DEF Installable, last
  <2>. QED BY <2>2, <2>3
<1>10. rest \in Seq(SentEntry)
  <2>1. \A i \in 1 .. N : SpeculativeFrom(latest, i - 1, maxStart) \in Seq(SentEntry)
    <3>. TAKE i \in 1 .. N
    <3>. QED BY <1>2, <1>3, SpeculativeFine
  <2>2. seqs \in Seq(Seq(SentEntry))
    <3>1. seqs \in [1 .. N -> Seq(SentEntry)]
      BY <2>1
    <3>2. N \in Nat
      BY ConfigurationAssumption
    <3>. HIDE DEF seqs
    <3>. QED BY <3>1, <3>2
  <2>. HIDE DEF seqs
  <2>. QED BY <2>2, FlattenType DEF rest
<1>. HIDE DEF base
<1>11. PICK run : Merging!IsRun(run, v, base, rest)
  BY <1>10, Merging!FoldSteps, Zenon
<1>. DEFINE m == Len(rest)
            T == {i \in 0 .. m : Installable(s, run[i], v)}
<1>12. /\ run[0] = base
       /\ Merging!Fold(v, base, rest) = run[m]
       /\ \A i \in 1 .. m : run[i] = AddUnseen(v, run[i - 1], rest[i])
  BY <1>11 DEF Merging!IsRun
<1>13. m \in Nat
  BY <1>10
<1>14. 0 \in T
  BY <1>9, <1>12, <1>13
<1>15. ASSUME NEW i \in 1 .. m, i - 1 \in T PROVE i \in T
  <2>1. Installable(s, run[i - 1], v)
    BY <1>15
  <2>2. rest[i] \in SentEntry
    BY <1>10, ElementOfSeq
  <2>3. Installable(s, AddUnseen(v, run[i - 1], rest[i]), v)
    BY <2>1, <2>2, AddUnseenFine
  <2>4. Installable(s, run[i], v)
    BY <2>3, <1>12
  <2>. QED BY <2>4, <1>13
<1>16. m \in T
  <2>. HIDE DEF T
  <2>1. \A i \in 0 .. m : i \in T
    BY <1>13, <1>14, <1>15, RangeInduction
  <2>. QED BY <2>1, <1>13
<1>. QED BY <1>1, <1>12, <1>16 DEF base, rest, latest, part, quorum
-----------------------------------------------------------------------------
(* Messages                                                                  *)

(* A replica in the view v that keeps what it should.                        *)
Sound(s, v) == Fine(s, v) /\ s.view = v /\ s.lastCommitted <= Len(s.log)

(* A dump is a piece of the log that ends where the log does.                *)
LEMMA DumpFine ==
  ASSUME NEW v \in Nat, NEW s, Sound(s, v), NEW from \in Nat
  PROVE  LET entries == Dump(s, from)
         IN  /\ entries \in Seq(SentEntry)
             /\ WellDumped(entries, Len(s.log), v)
             /\ entries = << >> => Len(s.log) < Larger(from, 1)
             /\ entries # << >> => entries[1].opnum <= Len(s.log)
<1>. DEFINE low     == Larger(from, 1)
            len     == Len(s.log)
            opnums  == Opnums(low, len)
            n       == Larger(len - low + 1, 0)
            entry(k) == [opnum |-> k, view |-> s.log[k].view,
                         request |-> s.log[k].request,
                         hash |-> Hash(s.log, k), committed |-> k <= s.lastCommitted]
            entries == Dump(s, from)
<1>1. /\ low \in Nat /\ low >= 1 /\ len \in Nat
      /\ s.log \in Seq(LogEntry) /\ s.lastCommitted \in Nat
  BY LenProperties DEF Sound, Fine, ReplicaState, Larger
<1>. HIDE DEF low, len
<1>2. n \in Nat /\ (n # 0 => n = len - low + 1) /\ (n = 0 => len < low)
  BY <1>1 DEF Larger
<1>3. /\ DOMAIN opnums = 1 .. n
      /\ \A i \in 1 .. n : opnums[i] = low + i - 1
  <2>1. /\ DOMAIN opnums = 1 .. n /\ Len(opnums) = n
        /\ \A i \in 1 .. Len(opnums) : opnums[i] = low + i - 1
    <3>. HIDE DEF n
    <3>. QED BY <1>1, OpnumsFine DEF n
  <2>. QED BY <2>1
<1>4. entries = [i \in 1 .. n |-> entry(opnums[i])]
  BY <1>3, Zenon DEF Dump, lastSpeculative, low, len
<1>. HIDE DEF n, opnums
<1>5. ASSUME NEW k \in 1 .. len
      PROVE  /\ entry(k) \in SentEntry
             /\ entry(k).opnum = k /\ entry(k).view <= v
             /\ entry(k).hash = Hash(s.log, k)
  <2>1. s.log[k] \in LogEntry
    BY <1>1, ElementOfSeq DEF len
  <2>2. s.log[k].view <= v
    BY DEF Sound, Fine, LogOK, len
  <2>3. Hash(s.log, k) \in Seq(Request)
    <3>1. k \in 0 .. Len(s.log)
      BY <1>1 DEF len
    <3>. QED BY <1>1, <3>1, HashType
  <2>4. k \in Nat /\ (k <= s.lastCommitted) \in BOOLEAN
    BY <1>1
  <2>. QED BY <2>1, <2>2, <2>3, <2>4 DEF SentEntry, LogEntry
<1>6. \A i \in 1 .. n : /\ low + i - 1 \in 1 .. len
                        /\ opnums[i] = low + i - 1
  BY <1>1, <1>2, <1>3
<1>7. entries \in [1 .. n -> SentEntry] /\ \A i \in 1 .. n : entries[i] = entry(low + i - 1)
  <2>1. \A i \in 1 .. n : entry(opnums[i]) \in SentEntry
    <3>. HIDE DEF entry
    <3>. QED BY <1>5, <1>6
  <2>. HIDE DEF entry, entries
  <2>2. entries \in [1 .. n -> SentEntry]
    BY <2>1, <1>4
  <2>3. \A i \in 1 .. n : entries[i] = entry(opnums[i])
    BY <1>4, Zenon
  <2>. QED BY <2>2, <2>3, <1>6
<1>. HIDE DEF entry, entries
<1>8. entries \in Seq(SentEntry) /\ Len(entries) = n /\ (entries = << >> <=> n = 0)
  <2>1. entries \in Seq(SentEntry) /\ Len(entries) = n
    BY <1>2, <1>7
  <2>. QED BY <2>1, EmptySeq
<1>9. \A i \in 1 .. n : /\ entries[i].opnum = low + i - 1
                        /\ entries[i].view <= v
                        /\ entries[i].hash = Hash(s.log, low + i - 1)
  BY <1>5, <1>6, <1>7
<1>10. n # 0 => entries[1].opnum = low
  <2>1. n # 0 => 1 \in 1 .. n /\ low + 1 - 1 = low
    BY <1>1, <1>2
  <2>. QED BY <2>1, <1>9
<1>11. \A i \in 1 .. n : entries[i].opnum = entries[1].opnum + i - 1
  <2>1. \A i \in 1 .. n : n # 0
    BY <1>2
  <2>. QED BY <2>1, <1>9, <1>10
<1>12. entries # << >> => /\ entries[1].opnum >= 1
                          /\ entries[1].opnum + Len(entries) - 1 = len
                          /\ entries[1].opnum <= len
  BY <1>1, <1>2, <1>8, <1>10
<1>13. ASSUME NEW i \in 2 .. n
       PROVE  entries[i - 1].hash = [j \in 1 .. entries[i - 1].opnum |-> entries[i].hash[j]]
  <2>. DEFINE k == low + (i - 1) - 1
  <2>1. i \in 1 .. n /\ i - 1 \in 1 .. n /\ low + i - 1 = k + 1 /\ k \in Nat
    BY <1>1, <1>2
  <2>. HIDE DEF k
  <2>2. entries[i].hash = Hash(s.log, k + 1)
    BY <1>9, <2>1
  <2>3. entries[i - 1].hash = Hash(s.log, k) /\ entries[i - 1].opnum = k
    BY <1>9, <2>1 DEF k
  <2>4. Hash(s.log, k) = [j \in 1 .. k |-> Hash(s.log, k + 1)[j]]
    <3>1. \A j \in 1 .. k : j \in 1 .. k + 1
      BY <2>1
    <3>. QED BY <3>1, Zenon DEF Hash
  <2>. QED BY <2>2, <2>3, <2>4
<1>14. WellDumped(entries, len, v)
  BY <1>8, <1>9, <1>11, <1>12, <1>13 DEF WellDumped
<1>15. entries = << >> => len < low
  BY <1>2, <1>8
<1>. QED BY <1>8, <1>12, <1>14, <1>15 DEF entries, len, low

(* The leader of a view is one of the replicas.                               *)
LEMMA LeaderIsReplica == \A v \in Nat : GetLeaderIndex(v) \in Indices
<1>. SUFFICES ASSUME NEW v \in Nat PROVE GetLeaderIndex(v) \in Indices
  OBVIOUS
<1>1. N \in Nat /\ N > 0
  BY ConfigurationAssumption
<1>. QED BY <1>1 DEF GetLeaderIndex, Indices

(* What a DOVIEWCHANGE says.                                                 *)
LEMMA DoViewChangeFine ==
  ASSUME NEW v \in Nat, NEW s, Sound(s, v), NEW r \in Indices, NEW from \in Nat
  PROVE  LET d == DoViewChange(r, s, from)
         IN  /\ d \in DVCMessage /\ DVCOK(d)
             /\ d.view = v /\ d.src = r
             /\ d.entries # << >> => d.entries[1].opnum <= Len(s.log)
<1>. DEFINE entries == Dump(s, from)
            d == DoViewChange(r, s, from)
            last == LastViewstampView(s)
            len == Len(s.log)
<1>1. s.log \in Seq(LogEntry) /\ s.lastCommitted \in Nat /\ len \in Nat /\ s.view = v
      /\ s.lastCommitted <= len
  BY LenProperties DEF Sound, Fine, ReplicaState
<1>2. /\ entries \in Seq(SentEntry)
      /\ WellDumped(entries, len, v)
      /\ entries # << >> => entries[1].opnum <= len
  BY DumpFine
<1>3. last \in Nat
  <2>1. CASE s.log = << >>
    BY <2>1 DEF LastViewstampView
  <2>2. CASE s.log # << >>
    <3>1. len \in 1 .. len
      BY <1>1, <2>2
    <3>2. s.log[len] \in LogEntry
      BY <1>1, <3>1, ElementOfSeq
    <3>. QED BY <2>2, <3>2 DEF LastViewstampView, Last, LogEntry
  <2>. QED BY <2>1, <2>2
<1>. HIDE DEF last, entries, len
<1>4. d = [type |-> "DOVIEWCHANGE", view |-> v, src |-> r,
           lastNormalView |-> last, lastSpeculative |-> len,
           lastCommitted |-> s.lastCommitted, entries |-> entries]
  BY <1>1 DEF DoViewChange, last, entries, len, lastSpeculative
<1>. HIDE DEF d
<1>5. d \in DVCMessage
  BY <1>1, <1>2, <1>3, <1>4 DEF DVCMessage
<1>6. DVCOK(d)
  BY <1>1, <1>2, <1>4 DEF DVCOK
<1>. QED BY <1>2, <1>4, <1>5, <1>6 DEF d, len

(* What a STARTVIEW says.                                                    *)
LEMMA StartViewFine ==
  ASSUME NEW v \in 0 .. MaxView, NEW s, Sound(s, v), NEW from \in Nat,
         NEW to \in SUBSET Indices
  PROVE  LET m == StartView(s, from, to)
         IN  /\ MessageOK(m) /\ m.type = "STARTVIEW" /\ m.view = v /\ m.to = to
             /\ m.lastSpeculative = Len(s.log)
             /\ m.entries = << >> => Len(s.log) < Larger(from, 1)
<1>. DEFINE entries == Dump(s, from)
            m == StartView(s, from, to)
            len == Len(s.log)
<1>1. /\ s.lastCommitted \in Nat /\ len \in Nat /\ s.view = v
      /\ s.lastCommitted <= len /\ v \in Nat
  BY LenProperties, SpecPaxosAssumption DEF Sound, Fine, ReplicaState
<1>2. /\ entries \in Seq(SentEntry)
      /\ WellDumped(entries, len, v)
      /\ entries = << >> => len < Larger(from, 1)
  BY <1>1, DumpFine
<1>. HIDE DEF entries, len
<1>3. m = [type |-> "STARTVIEW", view |-> v, to |-> to, lastSpeculative |-> len,
           lastCommitted |-> s.lastCommitted, entries |-> entries]
  BY <1>1 DEF StartView, entries, len, lastSpeculative
<1>. HIDE DEF m
<1>4. m \in [type : {"STARTVIEW"}, view : Nat, to : SUBSET Indices,
             lastSpeculative : Nat, lastCommitted : Nat,
             entries : Seq(SentEntry)]
  BY <1>1, <1>2, <1>3
<1>5. MessageOK(m)
  BY <1>1, <1>2, <1>3, <1>4 DEF MessageOK
<1>. QED BY <1>2, <1>3, <1>5 DEF m, len

(* What a SYNC says.                                                         *)
LEMMA SyncFine ==
  ASSUME NEW v \in 0 .. MaxView, NEW s, Sound(s, v)
  PROVE  /\ MessageOK(Sync(s))
         /\ Sync(s).type = "SYNC" /\ Sync(s).view = v
         /\ Sync(s).lastSpeculative = Len(s.log)
<1>. DEFINE m == Sync(s)
            hash == Hash(s.log, s.lastCommitted)
            len == Len(s.log)
<1>1. /\ s.log \in Seq(LogEntry) /\ s.lastCommitted \in Nat /\ len \in Nat
      /\ s.view = v /\ s.lastCommitted \in 0 .. len /\ v \in Nat
  BY LenProperties, SpecPaxosAssumption DEF Sound, Fine, ReplicaState
<1>2. hash \in Seq(Request)
  BY <1>1, HashType
<1>. HIDE DEF hash, len
<1>3. m = [type |-> "SYNC", view |-> v, lastCommitted |-> s.lastCommitted,
           hash |-> hash, lastSpeculative |-> len]
  BY <1>1 DEF Sync, lastSpeculative, hash, len
<1>. HIDE DEF m
<1>4. m \in [type : {"SYNC"}, view : Nat, lastCommitted : Nat,
             hash : Seq(Request), lastSpeculative : Nat]
  BY <1>1, <1>2, <1>3
<1>5. MessageOK(m)
  BY <1>1, <1>3, <1>4 DEF MessageOK
<1>. QED BY <1>3, <1>5 DEF m, len

(* What a SYNCREPLY says.                                                    *)
LEMMA SyncReplyFine ==
  ASSUME NEW v \in 0 .. MaxView, NEW s, Sound(s, v), NEW r \in Indices,
         NEW opnum \in 0 .. Len(s.log)
  PROVE  LET m == SyncReply(r, s, opnum)
         IN  /\ MessageOK(m) /\ m.type = "SYNCREPLY" /\ m.view = v
             /\ m.lastSpeculative = opnum
<1>. DEFINE m == SyncReply(r, s, opnum)
            hash == Hash(s.log, opnum)
<1>1. s.log \in Seq(LogEntry) /\ opnum \in Nat /\ s.view = v /\ v \in Nat
  <2>1. s.log \in Seq(LogEntry) /\ s.view = v
    BY DEF Sound, Fine, ReplicaState
  <2>. QED BY <2>1, LenProperties, SpecPaxosAssumption
<1>2. hash \in Seq(Request)
  BY <1>1, HashType
<1>. HIDE DEF hash
<1>3. m = [type |-> "SYNCREPLY", view |-> v, src |-> r, lastSpeculative |-> opnum,
           hash |-> hash]
  BY <1>1 DEF SyncReply, hash
<1>. HIDE DEF m
<1>4. m \in [type : {"SYNCREPLY"}, view : Nat, src : Indices,
             lastSpeculative : Nat, hash : Seq(Request)]
  BY <1>1, <1>2, <1>3
<1>5. MessageOK(m)
  BY <1>1, <1>3, <1>4 DEF MessageOK
<1>. QED BY <1>3, <1>5 DEF m
-----------------------------------------------------------------------------
(* A step of a replica                                                       *)

(* From s a replica goes to t: views and what is committed only grow, and a  *)
(* replica that is in a view stays in it, with what is in its log, until it   *)
(* leaves for a later one.                                                    *)
GoesTo(s, t) ==
  /\ s.view <= t.view /\ s.lastCommitted <= t.lastCommitted
  /\ s.view = t.view /\ s.status = "NORMAL" =>
       t.status = "NORMAL" /\ Extends(s, t)

(* The replicas after r has gone to t.                                       *)
After(r, t) == [replica EXCEPT ![r] = t]

(* What a handler makes of the replica's state and of what it sends.         *)
Handled(r, x) ==
  /\ StateOK(r, x.s)
  /\ GoesTo(replica[r], x.s)
  /\ x.s.pendingSync # 0 => Led(After(r, x.s), x.s.view, x.s.pendingSync)
  /\ \A m \in x.out : MessageOK(m) /\ MessageHolds(After(r, x.s), m)

(* What every step does.                                                     *)
Preserved == IInv' /\ \A q \in Indices : GoesTo(replica[q], replica'[q])

(* Alike in what the invariant is about.                                     *)
Alike(s, t) ==
  /\ t \in ReplicaState /\ t.log = s.log /\ t.clientTable = s.clientTable
  /\ SameButLog(s, t)

(* What is known of a replica at any time.                                   *)
LEMMA Known ==
  ASSUME IInv, NEW r \in Indices
  PROVE  LET s == replica[r]
         IN  /\ s \in ReplicaState /\ StateOK(r, s)
             /\ s.view \in 0 .. MaxView /\ s.view \in Nat
             /\ Sound(s, s.view) /\ Alike(s, s)
             /\ s.lastCommitted \in Nat /\ Len(s.log) \in Nat
             /\ s.lastCommitted <= Len(s.log)
             /\ s.log \in Seq(LogEntry)
             /\ s.pendingSync # 0 => Led(replica, s.view, s.pendingSync)
             /\ s.pendingSync \in Nat
             /\ After(r, s) = replica
<1>. DEFINE s == replica[r]
<1>1. s \in ReplicaState /\ StateOK(r, s) /\ PendingHolds(replica, r)
  BY DEF IInv
<1>2. After(r, s) = replica
  <2>1. replica \in [Indices -> ReplicaState]
    BY DEF IInv
  <2>. QED BY <2>1 DEF After
<1>. HIDE DEF s
<1>3. /\ s.view \in Nat /\ s.lastCommitted \in Nat /\ s.log \in Seq(LogEntry)
      /\ s.pendingSync \in Nat
  BY <1>1 DEF ReplicaState
<1>4. /\ s.view <= MaxView /\ s.lastCommitted <= Len(s.log)
      /\ LogOK(s, s.view) /\ TableOK(s)
  BY <1>1 DEF StateOK
<1>5. Fine(s, s.view)
  BY <1>1, <1>4 DEF Fine
<1>6. s.view \in 0 .. MaxView /\ Len(s.log) \in Nat
  BY <1>3, <1>4, SpecPaxosAssumption
<1>7. s.pendingSync # 0 => Led(replica, s.view, s.pendingSync)
  BY <1>1 DEF PendingHolds, s
<1>8. Sound(s, s.view) /\ Alike(s, s)
  BY <1>1, <1>4, <1>5 DEF Sound, Alike, SameButLog
<1>. QED BY <1>1, <1>2, <1>3, <1>4, <1>6, <1>7, <1>8 DEF s

(* A leader that has led a view has led it ever after.                       *)
LEMMA LedStays ==
  ASSUME IInv, NEW r \in Indices, NEW t \in ReplicaState, GoesTo(replica[r], t),
         NEW v \in Nat, NEW k \in Nat, Led(replica, v, k)
  PROVE  Led(After(r, t), v, k)
<1>. DEFINE l == GetLeaderIndex(v)
<1>1. l \in Indices /\ replica \in [Indices -> ReplicaState]
  BY LeaderIsReplica DEF IInv
<1>2. Led(replica, v, k) <=> \/ replica[l].view > v
                             \/ /\ replica[l].view = v /\ replica[l].status = "NORMAL"
                                /\ k <= Len(replica[l].log)
  BY DEF Led
<1>3. Led(After(r, t), v, k) <=> \/ After(r, t)[l].view > v
                                 \/ /\ After(r, t)[l].view = v
                                    /\ After(r, t)[l].status = "NORMAL"
                                    /\ k <= Len(After(r, t)[l].log)
  BY DEF Led
<1>. HIDE DEF l
<1>4. CASE l # r
  <2>1. After(r, t)[l] = replica[l]
    BY <1>1, <1>4 DEF After
  <2>. QED BY <1>2, <1>3, <2>1
<1>5. CASE l = r
  <2>1. After(r, t)[l] = t
    BY <1>1, <1>5 DEF After
  <2>2. /\ replica[l].view \in Nat /\ t.view \in Nat
        /\ Len(replica[l].log) \in Nat /\ Len(t.log) \in Nat
    BY <1>1, LenProperties DEF ReplicaState
  <2>3. /\ replica[l].view <= t.view
        /\ replica[l].view = t.view /\ replica[l].status = "NORMAL" =>
             t.status = "NORMAL" /\ Len(replica[l].log) <= Len(t.log)
    BY <1>5 DEF GoesTo, Extends
  <2>. QED BY <1>2, <1>3, <2>1, <2>2, <2>3
<1>. QED BY <1>4, <1>5

(* What a message says stays true.                                           *)
LEMMA MessageStays ==
  ASSUME IInv, NEW r \in Indices, NEW t \in ReplicaState, GoesTo(replica[r], t),
         NEW m, MessageOK(m), MessageHolds(replica, m)
  PROVE  MessageHolds(After(r, t), m)
<1>0. m.view \in 0 .. MaxView /\ m.view \in Nat
  <2>1. m.view \in 0 .. MaxView
    BY DEF MessageOK
  <2>. QED BY <2>1, SpecPaxosAssumption
<1>1. ASSUME m.type \in {"SYNC", "SYNCREPLY", "STARTVIEW", "INVIEW"}
      PROVE  Led(After(r, t), m.view, m.lastSpeculative)
  <2>1. m.lastSpeculative \in Nat
    BY <1>1 DEF MessageOK
  <2>2. Led(replica, m.view, m.lastSpeculative)
    BY <1>1 DEF MessageHolds
  <2>. QED BY <1>0, <2>1, <2>2, LedStays
<1>2. ASSUME NEW q \in Indices, NEW k \in Nat, k <= replica[q].lastCommitted
      PROVE  k <= After(r, t)[q].lastCommitted
  <2>1. replica \in [Indices -> ReplicaState]
    BY DEF IInv
  <2>2. CASE q # r
    <3>1. After(r, t)[q] = replica[q]
      BY <2>1, <2>2 DEF After
    <3>. QED BY <1>2, <3>1
  <2>3. CASE q = r
    <3>1. After(r, t)[q] = t
      BY <2>1, <2>3 DEF After
    <3>2. replica[q].lastCommitted <= t.lastCommitted
      BY <2>3 DEF GoesTo
    <3>3. replica[q].lastCommitted \in Nat /\ t.lastCommitted \in Nat
      BY <2>1 DEF ReplicaState
    <3>. QED BY <1>2, <3>1, <3>2, <3>3
  <2>. QED BY <2>2, <2>3
<1>3. ASSUME m.type = "STARTVIEW", m.entries = << >>, NEW q \in m.to
      PROVE  m.lastSpeculative <= After(r, t)[q].lastCommitted
  <2>1. m.to \subseteq Indices /\ m.lastSpeculative \in Nat
    BY <1>3 DEF MessageOK
  <2>2. m.lastSpeculative <= replica[q].lastCommitted
    BY <1>3 DEF MessageHolds
  <2>. QED BY <1>2, <2>1, <2>2
<1>4. ASSUME m.type = "FILLLOGGAP"
      PROVE  /\ Led(After(r, t), m.view, 0)
             /\ m.lastCommitted <= After(r, t)[m.src].lastCommitted
  <2>1. m.src \in Indices /\ m.lastCommitted \in Nat
    BY <1>4 DEF MessageOK
  <2>2. Led(replica, m.view, 0) /\ m.lastCommitted <= replica[m.src].lastCommitted
    BY <1>4 DEF MessageHolds
  <2>. QED BY <1>0, <1>2, <2>1, <2>2, LedStays
<1>. QED BY <1>1, <1>3, <1>4 DEF MessageHolds

(* A handler that does what a handler should keeps the invariant.            *)
LEMMA StepKeeps ==
  ASSUME IInv, NEW r \in Indices, NEW x, Handled(r, x), Step(r, x)
  PROVE  Preserved
<1>. DEFINE t == x.s
<1>1. /\ replica' = After(r, t) /\ msgs' = msgs \cup x.out /\ invoked' = invoked
  BY DEF Step, After
<1>2. /\ t \in ReplicaState /\ StateOK(r, t) /\ GoesTo(replica[r], t)
      /\ t.pendingSync # 0 => Led(After(r, t), t.view, t.pendingSync)
      /\ \A m \in x.out : MessageOK(m) /\ MessageHolds(After(r, t), m)
  BY DEF Handled, StateOK
<1>. HIDE DEF t
<1>3. replica \in [Indices -> ReplicaState]
  BY DEF IInv
<1>4. After(r, t) \in [Indices -> ReplicaState]
  BY <1>2, <1>3 DEF After
<1>5. ASSUME NEW q \in Indices
      PROVE  StateOK(q, After(r, t)[q]) /\ PendingHolds(After(r, t), q)
  <2>1. CASE q = r
    <3>1. After(r, t)[q] = t
      BY <1>3, <2>1 DEF After
    <3>. QED BY <1>2, <2>1, <3>1 DEF PendingHolds
  <2>2. CASE q # r
    <3>1. After(r, t)[q] = replica[q]
      BY <1>3, <2>2 DEF After
    <3>2. /\ StateOK(q, replica[q]) /\ replica[q].view \in Nat /\ replica[q].pendingSync \in Nat
          /\ replica[q].pendingSync # 0 => Led(replica, replica[q].view, replica[q].pendingSync)
      BY Known
    <3>3. replica[q].pendingSync # 0 =>
            Led(After(r, t), replica[q].view, replica[q].pendingSync)
      BY <1>2, <3>2, LedStays
    <3>. QED BY <3>1, <3>2, <3>3 DEF PendingHolds
  <2>. QED BY <2>1, <2>2
<1>6. ASSUME NEW m \in msgs' PROVE MessageOK(m) /\ MessageHolds(After(r, t), m)
  <2>1. CASE m \in msgs
    <3>1. MessageOK(m) /\ MessageHolds(replica, m)
      BY <2>1 DEF IInv
    <3>. QED BY <1>2, <3>1, MessageStays
  <2>2. CASE m \in x.out
    BY <1>2, <2>2
  <2>. QED BY <1>1, <2>1, <2>2
<1>7. invoked \in [Clients -> 0 .. MaxReqId]
  BY DEF IInv
<1>8. IInv'
  BY <1>1, <1>4, <1>5, <1>6, <1>7 DEF IInv
<1>9. ASSUME NEW q \in Indices PROVE GoesTo(replica[q], replica'[q])
  <2>1. CASE q = r
    BY <1>1, <1>2, <1>3, <2>1 DEF After
  <2>2. CASE q # r
    <3>1. replica'[q] = replica[q]
      BY <1>1, <1>3, <2>2 DEF After
    <3>2. replica[q].view \in Nat /\ replica[q].lastCommitted \in Nat /\ Len(replica[q].log) \in Nat
      BY Known
    <3>. QED BY <3>1, <3>2 DEF GoesTo, Extends
  <2>. QED BY <2>1, <2>2
<1>. QED BY <1>8, <1>9 DEF Preserved

(* Handlers that leave the log, and may commit some of it.                   *)
LEMMA KeepsLog ==
  ASSUME IInv, NEW r \in Indices, NEW s, Alike(replica[r], s), NEW t,
         t \in ReplicaState, t.log = s.log, t.clientTable = s.clientTable,
         t.status = s.status, t.view = s.view,
         t.doViewChanges = s.doViewChanges, t.needFillDVC = s.needFillDVC,
         s.lastCommitted <= t.lastCommitted, t.lastCommitted <= Len(s.log)
  PROVE  StateOK(r, t) /\ GoesTo(replica[r], t) /\ Sound(t, replica[r].view)
<1>. DEFINE o == replica[r]
<1>1. StateOK(r, o) /\ o.view \in Nat /\ Len(o.log) \in Nat /\ o.lastCommitted \in Nat
  BY Known
<1>2. /\ t.log = o.log /\ t.clientTable = o.clientTable /\ t.status = o.status
      /\ t.view = o.view /\ t.doViewChanges = o.doViewChanges
      /\ t.needFillDVC = o.needFillDVC
      /\ o.lastCommitted <= t.lastCommitted /\ t.lastCommitted <= Len(o.log)
  BY DEF Alike, SameButLog
<1>. HIDE DEF o
<1>3. LogOK(t, t.view) /\ TableOK(t) /\ KeptOK(r, t) /\ t.view <= MaxView
  <2>1. LogOK(o, o.view) /\ TableOK(o) /\ KeptOK(r, o) /\ o.view <= MaxView
    BY <1>1 DEF StateOK
  <2>2. LogOK(t, t.view) /\ TableOK(t)
    BY <1>2, <2>1, SameLog
  <2>3. KeptOK(r, t)
    BY <1>2, <2>1 DEF KeptOK
  <2>. QED BY <1>2, <2>1, <2>2, <2>3
<1>4. StateOK(r, t)
  BY <1>2, <1>3 DEF StateOK
<1>5. GoesTo(o, t)
  BY <1>1, <1>2 DEF GoesTo, Extends
<1>6. Sound(t, o.view)
  BY <1>2, <1>3 DEF Sound, Fine
<1>. QED BY <1>4, <1>5, <1>6 DEF o

(* A SYNC that is to be answered stays one of the view.                      *)
LEMMA PendingStays ==
  ASSUME IInv, NEW r \in Indices, NEW t \in ReplicaState, GoesTo(replica[r], t),
         t.view = replica[r].view, t.pendingSync = replica[r].pendingSync
  PROVE  t.pendingSync # 0 => Led(After(r, t), t.view, t.pendingSync)
<1>. SUFFICES ASSUME t.pendingSync # 0 PROVE Led(After(r, t), t.view, t.pendingSync)
  OBVIOUS
<1>1. /\ t.view \in Nat /\ t.pendingSync \in Nat
      /\ Led(replica, t.view, t.pendingSync)
  BY Known
<1>. QED BY <1>1, LedStays
-----------------------------------------------------------------------------
(* Requests and synchronisation                                              *)

(* HandleRequest keeps the invariant.                                        *)
LEMMA HandleRequestKeeps ==
  ASSUME IInv, NEW r \in Indices, HandleRequest(r) PROVE Preserved
<1>. DEFINE s == replica[r]
<1>0. PICK c \in Clients : \E id \in 1 .. invoked[c] :
        Step(r, ExecuteRequest(r, Went(s, {}), [client |-> c, id |-> id]))
  BY DEF HandleRequest
<1>1. PICK id \in 1 .. invoked[c] :
        Step(r, ExecuteRequest(r, Went(s, {}), [client |-> c, id |-> id]))
  BY <1>0
<1>. DEFINE request == [client |-> c, id |-> id]
            w == Went(s, {})
            x == ExecuteRequest(r, w, request)
            t == x.s
            v == s.view
<1>2. request \in Request
  <2>1. invoked[c] \in 0 .. MaxReqId
    BY DEF IInv
  <2>2. id \in 1 .. MaxReqId
    BY <2>1, SpecPaxosAssumption
  <2>. QED BY <2>2 DEF Request
<1>3. /\ s \in ReplicaState /\ StateOK(r, s) /\ v \in 0 .. MaxView /\ v \in Nat
      /\ Sound(s, v) /\ s.lastCommitted <= Len(s.log) /\ s.lastCommitted \in Nat
      /\ Len(s.log) \in Nat
      /\ s.pendingSync # 0 => Led(replica, v, s.pendingSync)
      /\ s.pendingSync \in Nat
  BY Known
<1>. HIDE DEF s
<1>4. w.s = s /\ w.out = {}
  BY DEF Went
<1>. HIDE DEF w
<1>5. Executed(w, x, v)
  <2>1. Fine(w.s, v) /\ w.s.view <= v
    BY <1>3, <1>4 DEF Sound
  <2>. HIDE DEF request, v
  <2>. QED BY <1>2, <1>3, <2>1, ExecuteRequestFine
<1>. HIDE DEF x
<1>6. /\ Fine(t, v) /\ Extends(s, t) /\ SameButLog(s, t)
      /\ \A m \in x.out : IsReply(m, v) \/ IsSyncReply(s, m)
  BY <1>4, <1>5 DEF Executed
<1>. HIDE DEF t, v
<1>7. t \in ReplicaState /\ Len(t.log) \in Nat /\ Len(s.log) <= Len(t.log)
  BY <1>6, LenProperties DEF Fine, ReplicaState, Extends
<1>8. /\ t.view = v /\ s.view = v /\ t.status = s.status
      /\ t.lastCommitted = s.lastCommitted
      /\ t.pendingSync = s.pendingSync
      /\ t.doViewChanges = s.doViewChanges /\ t.needFillDVC = s.needFillDVC
  BY <1>6 DEF SameButLog, v
<1>9. KeptOK(r, t)
  <2>1. /\ IsFiniteSet(s.doViewChanges)
        /\ \A d \in s.doViewChanges :
             /\ d \in DVCMessage /\ DVCOK(d)
             /\ d.view <= v
             /\ (s.needFillDVC \/ d.src = r) /\ d.entries # << >> =>
                  d.entries[1].opnum <= Len(s.log) + 1
    BY <1>3, <1>8 DEF StateOK, KeptOK, ReplicaState
  <2>2. ASSUME NEW d \in s.doViewChanges, s.needFillDVC \/ d.src = r, d.entries # << >>
        PROVE  d.entries[1].opnum <= Len(t.log) + 1
    <3>1. d.entries \in Seq(SentEntry) /\ d.entries[1].opnum <= Len(s.log) + 1
      BY <2>1, <2>2 DEF DVCMessage
    <3>2. 1 \in 1 .. Len(d.entries)
      BY <2>2, <3>1
    <3>3. d.entries[1] \in SentEntry
      BY <3>1, <3>2, ElementOfSeq
    <3>4. d.entries[1].opnum \in Nat
      BY <3>3 DEF SentEntry
    <3>. QED BY <3>1, <3>4, <1>3, <1>7
  <2>. QED BY <2>1, <2>2, <1>8 DEF KeptOK
<1>10. StateOK(r, t)
  <2>1. LogOK(t, v) /\ TableOK(t)
    BY <1>6 DEF Fine
  <2>2. t.lastCommitted <= Len(t.log)
    BY <1>3, <1>7, <1>8
  <2>. QED BY <1>3, <1>7, <1>8, <1>9, <2>1, <2>2 DEF StateOK
<1>11. GoesTo(s, t)
  BY <1>3, <1>6, <1>8 DEF GoesTo
<1>12. s.pendingSync # 0 => Led(After(r, t), v, s.pendingSync)
  BY <1>3, <1>7, <1>11, LedStays DEF s
<1>13. ASSUME NEW m \in x.out PROVE MessageOK(m) /\ MessageHolds(After(r, t), m)
  <2>1. CASE IsReply(m, v)
    <3>1. m.type = "SPECULATIVEREPLY" /\ m.view \in 0 .. MaxView
      BY <2>1, <1>3, SpecPaxosAssumption DEF IsReply
    <3>. QED BY <3>1 DEF MessageOK, MessageHolds
  <2>2. CASE IsSyncReply(s, m)
    <3>1. /\ m \in [type : {"SYNCREPLY"}, view : Nat, src : Indices,
                    lastSpeculative : Nat, hash : Seq(Request)]
          /\ m.view = v /\ s.pendingSync # 0 /\ m.lastSpeculative = s.pendingSync
          /\ m.type = "SYNCREPLY"
      BY <2>2, <1>8 DEF IsSyncReply
    <3>2. Led(After(r, t), m.view, m.lastSpeculative)
      BY <3>1, <1>12
    <3>. QED BY <3>1, <3>2, <1>3 DEF MessageOK, MessageHolds
  <2>. QED BY <2>1, <2>2, <1>6
<1>14. Handled(r, x)
  BY <1>8, <1>10, <1>11, <1>12, <1>13 DEF Handled, t, s
<1>15. Step(r, x)
  BY <1>1 DEF x, w, s
<1>. QED BY <1>14, <1>15, StepKeeps

(* A leader leads its view, with all of its log.                             *)
LEMMA LeaderLeads ==
  ASSUME IInv, NEW r \in Indices, NEW t \in ReplicaState,
         t.status = "NORMAL", GetLeaderIndex(t.view) = r,
         NEW k \in Nat, k <= Len(t.log)
  PROVE  Led(After(r, t), t.view, k)
<1>1. After(r, t)[r] = t
  <2>1. replica \in [Indices -> ReplicaState]
    BY DEF IInv
  <2>. QED BY <2>1 DEF After
<1>. QED BY <1>1 DEF Led

(* SendSync keeps the invariant.                                             *)
LEMMA SendSyncKeeps ==
  ASSUME IInv, NEW r \in Indices, SendSync(r) PROVE Preserved
<1>. DEFINE s == replica[r]
            x == Went(s, {Sync(s)})
<1>1. /\ GetLeaderIndex(s.view) = r /\ s.status = "NORMAL"
      /\ Step(r, x)
  BY DEF SendSync, AmLeader
<1>2. /\ s \in ReplicaState /\ StateOK(r, s) /\ s.view \in 0 .. MaxView /\ s.view \in Nat
      /\ Sound(s, s.view) /\ Alike(s, s) /\ s.lastCommitted <= Len(s.log)
      /\ s.lastCommitted \in Nat /\ Len(s.log) \in Nat
      /\ s.pendingSync # 0 => Led(replica, s.view, s.pendingSync)
      /\ After(r, s) = replica
  BY Known
<1>3. GoesTo(s, s)
  <2>. HIDE DEF s
  <2>. QED BY <1>2 DEF GoesTo, Extends
<1>4. Led(After(r, s), s.view, Len(s.log))
  <2>1. Len(s.log) <= Len(s.log)
    BY <1>2
  <2>. HIDE DEF s
  <2>. QED BY <1>1, <1>2, <2>1, LeaderLeads
<1>. HIDE DEF s
<1>5. /\ MessageOK(Sync(s))
      /\ Sync(s).type = "SYNC" /\ Sync(s).view = s.view
      /\ Sync(s).lastSpeculative = Len(s.log)
  BY <1>2, SyncFine
<1>6. MessageHolds(After(r, s), Sync(s))
  BY <1>4, <1>5 DEF MessageHolds
<1>7. x.s = s /\ x.out = {Sync(s)}
  BY DEF Went
<1>. HIDE DEF x
<1>8. Handled(r, x)
  BY <1>2, <1>3, <1>5, <1>6, <1>7 DEF Handled, s
<1>. QED BY <1>1, <1>8, StepKeeps

(* Leaving a view for a later one.                                           *)
LEMMA StartViewChangeFine ==
  ASSUME IInv, NEW r \in Indices, NEW s, Alike(replica[r], s), NEW view \in Nat,
         view > s.view, view <= MaxView
  PROVE  LET x == StartViewChange(r, s, view)
         IN  /\ Handled(r, x)
             /\ x.s.view = view /\ x.s.status = "VIEW_CHANGE"
             /\ x.s.pendingSync = 0
<1>. DEFINE t == [s EXCEPT !.view = view, !.status = "VIEW_CHANGE",
                           !.syncReplies = {}, !.startViewChanges = {},
                           !.doViewChanges = {}, !.inViews = {},
                           !.sentDoViewChange = FALSE, !.needFillDVC = FALSE,
                           !.pendingSync = 0]
            x == StartViewChange(r, s, view)
            o == replica[r]
<1>1. x.s = t /\ x.out = {StartViewChangeMessage(r, view)}
  BY DEF StartViewChange, Went
<1>2. /\ o.view \in Nat /\ Len(o.log) \in Nat /\ o.lastCommitted \in Nat
      /\ o.lastCommitted <= Len(o.log) /\ Sound(o, o.view)
  BY Known
<1>3. s \in ReplicaState /\ s.log = o.log /\ s.clientTable = o.clientTable
      /\ s.view = o.view /\ s.lastCommitted = o.lastCommitted
  BY DEF Alike, SameButLog
<1>. HIDE DEF o
<1>4. /\ t \in ReplicaState /\ t.log = o.log /\ t.clientTable = o.clientTable
      /\ t.lastCommitted = o.lastCommitted /\ t.view = view
      /\ t.status = "VIEW_CHANGE" /\ t.doViewChanges = {} /\ t.pendingSync = 0
  BY <1>3 DEF ReplicaState
<1>. HIDE DEF t, x
<1>5. LogOK(t, t.view) /\ TableOK(t)
  <2>1. LogOK(o, o.view) /\ TableOK(o)
    BY <1>2 DEF Sound, Fine
  <2>2. TableOK(t)
    BY <2>1, <1>4 DEF TableOK
  <2>3. ASSUME NEW i \in 1 .. Len(t.log) PROVE t.log[i].view <= t.view
    <3>1. o.log[i].view <= o.view /\ o.log[i] \in LogEntry
      <4>1. o.log \in Seq(LogEntry)
        BY <1>2 DEF Sound, Fine, ReplicaState
      <4>. QED BY <2>1, <4>1, <1>4, ElementOfSeq DEF LogOK
    <3>2. o.log[i].view \in Nat
      BY <3>1 DEF LogEntry
    <3>. QED BY <3>1, <3>2, <1>2, <1>3, <1>4
  <2>. QED BY <2>1, <2>2, <2>3, <1>4 DEF LogOK
<1>6. KeptOK(r, t)
  BY <1>4, FS_EmptySet DEF KeptOK
<1>7. StateOK(r, t)
  BY <1>2, <1>4, <1>5, <1>6 DEF StateOK
<1>8. GoesTo(o, t)
  BY <1>2, <1>3, <1>4 DEF GoesTo
<1>9. \A m \in x.out : MessageOK(m) /\ MessageHolds(After(r, t), m)
  BY <1>1 DEF StartViewChangeMessage, MessageOK, MessageHolds
<1>. QED BY <1>1, <1>4, <1>7, <1>8, <1>9 DEF Handled, x, o

(* A view change that a replica starts on its own.                           *)
LEMMA TimeoutKeeps ==
  ASSUME IInv, NEW r \in Indices, NEW s, Alike(replica[r], s),
         Step(r, StartViewChange(r, s, replica[r].view + 1))
  PROVE  Preserved
<1>. DEFINE view == replica[r].view + 1
            x == StartViewChange(r, s, view)
<1>1. replica[r].view \in Nat
  BY Known
<1>2. view \in Nat /\ view > s.view /\ s.view = replica[r].view
  BY <1>1 DEF Alike, SameButLog
<1>3. x.s.view = view
  <2>1. s \in ReplicaState
    BY DEF Alike
  <2>. QED BY <2>1 DEF StartViewChange, Went, ReplicaState
<1>4. view <= MaxView
  <2>1. x.s.view <= MaxView
    BY DEF Step
  <2>. HIDE DEF x, view
  <2>. QED BY <2>1, <1>3
<1>5. Handled(r, x)
  <2>. HIDE DEF view
  <2>. QED BY <1>2, <1>4, StartViewChangeFine
<1>. HIDE DEF x
<1>. QED BY <1>5, StepKeeps DEF x

(* A message that was received.                                              *)
LEMMA MessageKnown ==
  ASSUME IInv, NEW type, NEW m \in Received(type)
  PROVE  /\ m.type = type /\ MessageOK(m) /\ MessageHolds(replica, m)
         /\ m.view \in 0 .. MaxView /\ m.view \in Nat
<1>1. m \in msgs /\ m.type = type
  BY DEF Received
<1>2. MessageOK(m) /\ MessageHolds(replica, m)
  BY <1>1 DEF IInv
<1>3. m.view \in 0 .. MaxView
  BY <1>2 DEF MessageOK
<1>. QED BY <1>1, <1>2, <1>3, SpecPaxosAssumption

(* Committing what is in the log.                                            *)
LEMMA CommitFine ==
  ASSUME IInv, NEW r \in Indices, NEW s, Alike(replica[r], s),
         NEW upto \in Nat, upto <= Len(s.log)
  PROVE  LET t == CommitUpTo(s, upto)
         IN  /\ t \in ReplicaState /\ StateOK(r, t) /\ GoesTo(replica[r], t)
             /\ Sound(t, replica[r].view)
             /\ t.view = replica[r].view /\ t.log = replica[r].log
             /\ t.status = replica[r].status /\ t.pendingSync = replica[r].pendingSync
<1>. DEFINE o == replica[r]
            t == CommitUpTo(s, upto)
<1>1. /\ o.view \in Nat /\ Len(o.log) \in Nat /\ o.lastCommitted \in Nat
      /\ o.lastCommitted <= Len(o.log) /\ Sound(o, o.view)
  BY Known
<1>2. /\ s \in ReplicaState /\ s.log = o.log /\ s.clientTable = o.clientTable
      /\ s.view = o.view /\ s.lastCommitted = o.lastCommitted
      /\ s.status = o.status /\ s.pendingSync = o.pendingSync
  BY DEF Alike, SameButLog
<1>. HIDE DEF o
<1>3. /\ t \in ReplicaState /\ t.log = s.log /\ t.clientTable = s.clientTable
      /\ t.status = s.status /\ t.view = s.view
      /\ t.doViewChanges = s.doViewChanges /\ t.needFillDVC = s.needFillDVC
      /\ t.pendingSync = s.pendingSync
      /\ t.lastCommitted = Larger(s.lastCommitted, upto)
  <2>. DEFINE m == Larger(s.lastCommitted, upto)
  <2>1. t = [s EXCEPT !.lastCommitted = m]
    BY DEF CommitUpTo
  <2>2. m \in Nat
    BY <1>1, <1>2 DEF Larger
  <2>. HIDE DEF m, t
  <2>. QED BY <1>2, <2>1, <2>2 DEF ReplicaState, m
<1>. HIDE DEF t
<1>4. s.lastCommitted <= t.lastCommitted /\ t.lastCommitted <= Len(s.log)
  BY <1>1, <1>2, <1>3 DEF Larger
<1>5. StateOK(r, t) /\ GoesTo(o, t) /\ Sound(t, o.view)
  BY <1>3, <1>4, KeepsLog DEF o
<1>. QED BY <1>2, <1>3, <1>5 DEF o, t

(* HandleSync keeps the invariant.                                           *)
LEMMA HandleSyncKeeps ==
  ASSUME IInv, NEW r \in Indices, HandleSync(r) PROVE Preserved
<1>. DEFINE s == replica[r]
<1>1. PICK m \in Received("SYNC") :
    /\ GetLeaderIndex(m.view) # r
    /\ s.status = "NORMAL" /\ m.view >= s.view
    /\ \/ /\ m.view > s.view
          /\ Step(r, StartViewChange(r, s, m.view + 1))
       \/ /\ m.view = s.view /\ ~Consistent(s, m)
          /\ Step(r, StartViewChange(r, s, s.view + 1))
       \/ /\ m.view = s.view /\ Consistent(s, m)
          /\ LET t == CommitUpTo(s, m.lastCommitted) IN
             IF m.lastSpeculative > lastSpeculative(t)
             THEN Step(r, Went([t EXCEPT !.pendingSync = m.lastSpeculative],
                               {}))
             ELSE Step(r, Went(t, {SyncReply(r, t, m.lastSpeculative)}))
  BY Zenon DEF HandleSync
<1>2. /\ s \in ReplicaState /\ StateOK(r, s) /\ s.view \in 0 .. MaxView /\ s.view \in Nat
      /\ Sound(s, s.view) /\ Alike(s, s) /\ s.lastCommitted <= Len(s.log)
      /\ s.lastCommitted \in Nat /\ Len(s.log) \in Nat
  BY Known
<1>3. /\ MessageOK(m) /\ MessageHolds(replica, m) /\ m.view \in 0 .. MaxView
      /\ m.view \in Nat /\ m.type = "SYNC"
  BY MessageKnown
<1>4. /\ m.lastCommitted \in Nat /\ m.lastSpeculative \in Nat
      /\ Led(replica, m.view, m.lastSpeculative)
  BY <1>3 DEF MessageOK, MessageHolds
<1>5. CASE m.view > s.view /\ Step(r, StartViewChange(r, s, m.view + 1))
  <2>. DEFINE view == m.view + 1
              x == StartViewChange(r, s, view)
  <2>1. view \in Nat /\ view > s.view
    BY <1>2, <1>3, <1>5
  <2>2. x.s.view = view
    BY <1>2 DEF StartViewChange, Went, ReplicaState
  <2>3. view <= MaxView
    <3>1. x.s.view <= MaxView
      BY <1>5 DEF Step
    <3>. HIDE DEF x, view
    <3>. QED BY <3>1, <2>2
  <2>4. Handled(r, x)
    <3>. HIDE DEF view
    <3>. QED BY <1>2, <2>1, <2>3, StartViewChangeFine
  <2>. HIDE DEF x
  <2>. QED BY <1>5, <2>4, StepKeeps DEF x
<1>6. CASE Step(r, StartViewChange(r, s, s.view + 1))
  BY <1>2, <1>6, TimeoutKeeps
<1>7. CASE /\ m.view = s.view /\ Consistent(s, m)
           /\ LET t == CommitUpTo(s, m.lastCommitted) IN
              IF m.lastSpeculative > lastSpeculative(t)
              THEN Step(r, Went([t EXCEPT !.pendingSync = m.lastSpeculative], {}))
              ELSE Step(r, Went(t, {SyncReply(r, t, m.lastSpeculative)}))
  <2>. DEFINE t == CommitUpTo(s, m.lastCommitted)
  <2>1. m.lastCommitted <= Len(s.log)
    BY <1>7 DEF Consistent, lastSpeculative
  <2>2. /\ t \in ReplicaState /\ StateOK(r, t) /\ GoesTo(s, t) /\ Sound(t, s.view)
        /\ t.view = s.view /\ t.log = s.log /\ t.status = s.status
        /\ t.pendingSync = s.pendingSync
    BY <1>2, <1>4, <2>1, CommitFine
  <2>3. \/ Step(r, Went([t EXCEPT !.pendingSync = m.lastSpeculative], {}))
        \/ /\ m.lastSpeculative <= Len(t.log)
           /\ Step(r, Went(t, {SyncReply(r, t, m.lastSpeculative)}))
    <3>1. IF m.lastSpeculative > lastSpeculative(t)
          THEN Step(r, Went([t EXCEPT !.pendingSync = m.lastSpeculative], {}))
          ELSE Step(r, Went(t, {SyncReply(r, t, m.lastSpeculative)}))
      BY <1>7
    <3>. HIDE DEF t
    <3>2. Len(t.log) \in Nat
      BY <1>2, <2>2
    <3>. QED BY <3>1, <3>2, <1>4 DEF lastSpeculative
  <2>. HIDE DEF t
  <2>4. CASE Step(r, Went([t EXCEPT !.pendingSync = m.lastSpeculative], {}))
    <3>. DEFINE u == [t EXCEPT !.pendingSync = m.lastSpeculative]
                x == Went(u, {})
    <3>1. /\ u \in ReplicaState /\ u.log = t.log /\ u.clientTable = t.clientTable
          /\ u.status = t.status /\ u.view = t.view
          /\ u.doViewChanges = t.doViewChanges /\ u.needFillDVC = t.needFillDVC
          /\ u.lastCommitted = t.lastCommitted /\ u.pendingSync = m.lastSpeculative
      BY <1>4, <2>2 DEF ReplicaState
    <3>2. x.s = u /\ x.out = {}
      BY DEF Went
    <3>. HIDE DEF u, x
    <3>3. StateOK(r, u)
      <4>1. LogOK(t, t.view) /\ TableOK(t) /\ KeptOK(r, t)
        BY <2>2 DEF StateOK
      <4>2. LogOK(u, u.view) /\ TableOK(u)
        BY <3>1, <4>1, SameLog
      <4>3. KeptOK(r, u)
        BY <3>1, <4>1 DEF KeptOK
      <4>. QED BY <2>2, <3>1, <4>2, <4>3 DEF StateOK
    <3>4. GoesTo(s, u)
      BY <2>2, <3>1 DEF GoesTo, Extends
    <3>5. Led(After(r, u), u.view, u.pendingSync)
      <4>1. Led(replica, u.view, u.pendingSync) /\ u.view \in Nat /\ u.pendingSync \in Nat
        BY <1>2, <1>4, <1>7, <2>2, <3>1
      <4>. QED BY <3>1, <3>4, <4>1, LedStays
    <3>6. Handled(r, x)
      BY <3>2, <3>3, <3>4, <3>5 DEF Handled
    <3>. QED BY <2>4, <3>6, StepKeeps DEF x, u
  <2>5. CASE /\ m.lastSpeculative <= Len(t.log)
             /\ Step(r, Went(t, {SyncReply(r, t, m.lastSpeculative)}))
    <3>. DEFINE reply == SyncReply(r, t, m.lastSpeculative)
                x == Went(t, {reply})
    <3>1. /\ MessageOK(reply) /\ reply.type = "SYNCREPLY" /\ reply.view = s.view
          /\ reply.lastSpeculative = m.lastSpeculative
      <4>1. m.lastSpeculative \in 0 .. Len(t.log)
        BY <2>5, <1>2, <1>4, <2>2
      <4>. QED BY <4>1, <1>2, <2>2, SyncReplyFine
    <3>2. x.s = t /\ x.out = {reply}
      BY DEF Went
    <3>. HIDE DEF reply, x
    <3>3. MessageHolds(After(r, t), reply)
      <4>1. Led(After(r, t), m.view, m.lastSpeculative)
        BY <1>3, <1>4, <2>2, LedStays
      <4>. QED BY <4>1, <3>1, <1>7 DEF MessageHolds
    <3>4. t.pendingSync # 0 => Led(After(r, t), t.view, t.pendingSync)
      BY <2>2, PendingStays
    <3>5. Handled(r, x)
      BY <2>2, <3>1, <3>2, <3>3, <3>4 DEF Handled
    <3>. QED BY <2>5, <3>5, StepKeeps DEF x, reply
  <2>. QED BY <2>3, <2>4, <2>5
<1>. QED BY <1>1, <1>5, <1>6, <1>7

(* HandleSyncReply keeps the invariant.                                      *)
LEMMA HandleSyncReplyKeeps ==
  ASSUME IInv, NEW r \in Indices, HandleSyncReply(r) PROVE Preserved
<1>. DEFINE o == replica[r]
<1>1. PICK m \in Received("SYNCREPLY") :
        LET s == WithSyncReply(o, m)
        IN  /\ m.view = s.view /\ s.status = "NORMAL" /\ AmLeader(r, s)
            /\ \/ Step(r, Went(s, {}))
               \/ Step(r, Went(CommitUpTo(s, m.lastSpeculative), {}))
               \/ Step(r, StartViewChange(r, s, s.view + 1))
  BY Zenon DEF HandleSyncReply
<1>. DEFINE replies == {q \in o.syncReplies : ~(q.opnum = m.lastSpeculative /\ q.src = m.src)} \cup
                        {[opnum |-> m.lastSpeculative, src |-> m.src, hash |-> m.hash]}
            s == [o EXCEPT !.syncReplies = replies]
<1>2. WithSyncReply(o, m) = s
  BY DEF WithSyncReply
<1>3. /\ o \in ReplicaState /\ StateOK(r, o) /\ o.view \in 0 .. MaxView /\ o.view \in Nat
      /\ o.lastCommitted <= Len(o.log) /\ o.lastCommitted \in Nat /\ Len(o.log) \in Nat
  BY Known
<1>4. /\ MessageOK(m) /\ MessageHolds(replica, m) /\ m.view \in 0 .. MaxView
      /\ m.view \in Nat /\ m.type = "SYNCREPLY"
  BY MessageKnown
<1>5. /\ m.lastSpeculative \in Nat /\ m.src \in Indices /\ m.hash \in Seq(Request)
      /\ Led(replica, m.view, m.lastSpeculative)
  BY <1>4 DEF MessageOK, MessageHolds
<1>6. replies \in SUBSET [opnum : Nat, src : Indices, hash : Seq(Request)]
  <2>1. o.syncReplies \in SUBSET [opnum : Nat, src : Indices, hash : Seq(Request)]
    BY <1>3 DEF ReplicaState
  <2>2. [opnum |-> m.lastSpeculative, src |-> m.src, hash |-> m.hash]
          \in [opnum : Nat, src : Indices, hash : Seq(Request)]
    BY <1>5
  <2>. QED BY <2>1, <2>2
<1>7. Alike(o, s)
  <2>. HIDE DEF replies, o
  <2>. QED BY <1>3, <1>6 DEF Alike, SameButLog, ReplicaState
<1>. HIDE DEF s
<1>8. /\ s.view = o.view /\ s.status = o.status /\ s.log = o.log
      /\ s.lastCommitted = o.lastCommitted
  BY <1>7 DEF Alike, SameButLog
<1>9. /\ m.view = o.view /\ o.status = "NORMAL" /\ GetLeaderIndex(o.view) = r
      /\ \/ Step(r, Went(s, {}))
         \/ Step(r, Went(CommitUpTo(s, m.lastSpeculative), {}))
         \/ Step(r, StartViewChange(r, s, o.view + 1))
  BY <1>1, <1>2, <1>8, Zenon DEF AmLeader
<1>10. m.lastSpeculative <= Len(o.log)
  <2>1. o.view > m.view \/ m.lastSpeculative <= Len(o.log)
    BY <1>5, <1>9 DEF Led
  <2>. QED BY <2>1, <1>3, <1>9
<1>11. ASSUME NEW k \in Nat, k <= Len(o.log), Step(r, Went(CommitUpTo(s, k), {}))
       PROVE  Preserved
  <2>. DEFINE t == CommitUpTo(s, k)
              x == Went(t, {})
  <2>1. /\ t \in ReplicaState /\ StateOK(r, t) /\ GoesTo(o, t)
        /\ t.view = o.view /\ t.pendingSync = o.pendingSync
    BY <1>7, <1>8, <1>11, CommitFine
  <2>2. x.s = t /\ x.out = {}
    BY DEF Went
  <2>. HIDE DEF t, x
  <2>3. t.pendingSync # 0 => Led(After(r, t), t.view, t.pendingSync)
    BY <2>1, PendingStays
  <2>4. Handled(r, x)
    BY <2>1, <2>2, <2>3 DEF Handled
  <2>. QED BY <1>11, <2>4, StepKeeps DEF x, t
<1>12. CASE Step(r, Went(s, {}))
  <2>1. CommitUpTo(s, 0) = s
    <3>1. Larger(s.lastCommitted, 0) = s.lastCommitted
      BY <1>3, <1>8 DEF Larger
    <3>. QED BY <3>1, <1>7 DEF CommitUpTo, Alike, ReplicaState
  <2>. QED BY <1>3, <1>11, <1>12, <2>1
<1>13. CASE Step(r, StartViewChange(r, s, o.view + 1))
  BY <1>7, <1>13, TimeoutKeeps
<1>. QED BY <1>5, <1>9, <1>10, <1>11, <1>12, <1>13

(* ViewChangeTimeout keeps the invariant.                                    *)
LEMMA ViewChangeTimeoutKeeps ==
  ASSUME IInv, NEW r \in Indices, ViewChangeTimeout(r) PROVE Preserved
<1>1. Alike(replica[r], replica[r])
  BY Known
<1>. QED BY <1>1, TimeoutKeeps DEF ViewChangeTimeout

(* HandleRequestViewChange keeps the invariant.                              *)
LEMMA HandleRequestViewChangeKeeps ==
  ASSUME IInv, NEW r \in Indices, HandleRequestViewChange(r) PROVE Preserved
<1>1. Alike(replica[r], replica[r])
  BY Known
<1>. QED BY <1>1, TimeoutKeeps DEF HandleRequestViewChange
-----------------------------------------------------------------------------
(* View changes                                                              *)

(* A replica that takes part in the view change of a view.                   *)
JoinedOK(r, x, view) ==
  /\ StateOK(r, x.s) /\ GoesTo(replica[r], x.s)
  /\ x.s.view = view /\ x.s.status = "VIEW_CHANGE"
  /\ \/ x.s.pendingSync = 0
     \/ x.s.pendingSync = replica[r].pendingSync /\ replica[r].view = view
  /\ \A m \in x.out : m.type = "STARTVIEWCHANGE" /\ MessageOK(m)

LEMMA JoinedFine ==
  ASSUME IInv, NEW r \in Indices, NEW view \in 0 .. MaxView,
         Joins(replica[r], view)
  PROVE  JoinedOK(r, Joined(r, replica[r], view), view)
<1>. DEFINE s == replica[r]
            x == Joined(r, s, view)
<1>1. /\ s \in ReplicaState /\ StateOK(r, s) /\ s.view \in Nat /\ Alike(s, s)
      /\ s.lastCommitted \in Nat
  BY Known
<1>2. view \in Nat /\ view <= MaxView
  BY SpecPaxosAssumption
<1>3. CASE view > s.view
  <2>. DEFINE w == StartViewChange(r, s, view)
  <2>1. x = w
    BY <1>3 DEF Joined
  <2>2. /\ Handled(r, w)
        /\ w.s.view = view /\ w.s.status = "VIEW_CHANGE" /\ w.s.pendingSync = 0
    BY <1>1, <1>2, <1>3, StartViewChangeFine
  <2>3. \A m \in w.out : m.type = "STARTVIEWCHANGE"
    BY DEF StartViewChange, Went, StartViewChangeMessage
  <2>. HIDE DEF w, x
  <2>. QED BY <2>1, <2>2, <2>3 DEF JoinedOK, Handled, x
<1>4. CASE ~(view > s.view)
  <2>1. x = Went(s, {}) /\ view = s.view /\ s.status = "VIEW_CHANGE"
    BY <1>4 DEF Joined, Joins
  <2>2. x.s = s /\ x.out = {}
    BY <2>1 DEF Went
  <2>. HIDE DEF x, s
  <2>3. GoesTo(s, s)
    BY <1>1, <2>1 DEF GoesTo
  <2>. QED BY <1>1, <2>1, <2>2, <2>3 DEF JoinedOK, x, s
<1>. QED BY <1>3, <1>4

(* What is done next in the view change.                                     *)
LEMMA JoinedKeeps ==
  ASSUME IInv, NEW r \in Indices, NEW view \in 0 .. MaxView, NEW x,
         JoinedOK(r, x, view), NEW y, Step(r, y),
         y.s \in ReplicaState, y.s.log = x.s.log, y.s.clientTable = x.s.clientTable,
         y.s.view = x.s.view, y.s.status = x.s.status,
         y.s.lastCommitted = x.s.lastCommitted, y.s.pendingSync = x.s.pendingSync,
         KeptOK(r, y.s),
         \A m \in y.out : \/ m \in x.out
                          \/ /\ m.type \in {"DOVIEWCHANGE", "FILLDVCGAP"}
                             /\ MessageOK(m)
  PROVE  Preserved
<1>. DEFINE o == replica[r]
            s == x.s
            t == y.s
<1>1. /\ t \in ReplicaState /\ t.log = s.log /\ t.clientTable = s.clientTable
      /\ t.view = s.view /\ t.status = s.status
      /\ t.lastCommitted = s.lastCommitted /\ t.pendingSync = s.pendingSync
      /\ KeptOK(r, t)
  OBVIOUS
<1>2. /\ StateOK(r, s) /\ GoesTo(o, s)
      /\ s.view = view /\ s.status = "VIEW_CHANGE"
      /\ s.pendingSync = 0 \/ (s.pendingSync = o.pendingSync /\ o.view = view)
      /\ \A m \in x.out : m.type = "STARTVIEWCHANGE" /\ MessageOK(m)
  BY DEF JoinedOK
<1>. HIDE DEF o, s, t
<1>3. StateOK(r, t)
  <2>1. /\ LogOK(s, s.view) /\ TableOK(s)
        /\ s.view <= MaxView /\ s.lastCommitted <= Len(s.log)
    BY <1>2 DEF StateOK
  <2>2. LogOK(t, t.view) /\ TableOK(t)
    BY <1>1, <2>1, SameLog
  <2>. QED BY <1>1, <2>1, <2>2 DEF StateOK
<1>4. GoesTo(o, t)
  BY <1>1, <1>2 DEF GoesTo, Extends
<1>5. t.pendingSync # 0 => Led(After(r, t), t.view, t.pendingSync)
  BY <1>1, <1>2, <1>4, PendingStays DEF o
<1>6. \A m \in y.out : MessageOK(m) /\ MessageHolds(After(r, t), m)
  <2>. TAKE m \in y.out
  <2>1. MessageOK(m) /\ m.type \in {"STARTVIEWCHANGE", "DOVIEWCHANGE", "FILLDVCGAP"}
    BY <1>2
  <2>. QED BY <2>1 DEF MessageHolds
<1>7. Handled(r, y)
  BY <1>3, <1>4, <1>5, <1>6 DEF Handled, o, t
<1>. QED BY <1>7, StepKeeps

(* Keeping a DOVIEWCHANGE in place of an earlier one of the same replica.    *)
LEMMA KeepingFine ==
  ASSUME NEW r \in Indices, NEW s \in ReplicaState, KeptOK(r, s),
         Len(s.log) \in Nat, NEW d \in DVCMessage, DVCOK(d), d.view <= s.view,
         (s.needFillDVC \/ d.src = r) /\ d.entries # << >> =>
           d.entries[1].opnum <= Len(s.log) + 1
  PROVE  LET t == WithDoViewChange(s, d)
         IN  /\ t \in ReplicaState /\ t.log = s.log /\ t.clientTable = s.clientTable
             /\ t.view = s.view /\ t.status = s.status
             /\ t.lastCommitted = s.lastCommitted /\ t.pendingSync = s.pendingSync
             /\ t.needFillDVC = s.needFillDVC
             /\ KeptOK(r, t) /\ d \in t.doViewChanges
<1>. DEFINE dvcs == {e \in s.doViewChanges : e.src # d.src} \cup {d}
            t    == [s EXCEPT !.doViewChanges = dvcs]
<1>1. WithDoViewChange(s, d) = t
  BY DEF WithDoViewChange
<1>2. s.doViewChanges \in SUBSET DVCMessage /\ IsFiniteSet(s.doViewChanges)
  BY DEF ReplicaState, KeptOK
<1>3. dvcs \in SUBSET DVCMessage /\ d \in dvcs
  BY <1>2
<1>4. IsFiniteSet(dvcs)
  <2>. DEFINE rest == {e \in s.doViewChanges : e.src # d.src}
  <2>1. IsFiniteSet(rest)
    <3>1. rest \subseteq s.doViewChanges
      OBVIOUS
    <3>. HIDE DEF rest
    <3>. QED BY <3>1, <1>2, FS_Subset
  <2>. HIDE DEF rest
  <2>. QED BY <2>1, FS_AddElement DEF rest
<1>5. \A e \in dvcs : e \in s.doViewChanges \/ e = d
  OBVIOUS
<1>. HIDE DEF dvcs
<1>6. /\ t \in ReplicaState /\ t.log = s.log /\ t.clientTable = s.clientTable
      /\ t.view = s.view /\ t.status = s.status
      /\ t.lastCommitted = s.lastCommitted /\ t.pendingSync = s.pendingSync
      /\ t.needFillDVC = s.needFillDVC /\ t.doViewChanges = dvcs
  BY <1>3 DEF ReplicaState
<1>. HIDE DEF t
<1>7. KeptOK(r, t)
  <2>1. \A e \in dvcs :
          /\ DVCOK(e) /\ e.view <= s.view
          /\ (s.needFillDVC \/ e.src = r) /\ e.entries # << >> =>
               e.entries[1].opnum <= Len(s.log) + 1
    BY <1>5 DEF KeptOK
  <2>. QED BY <1>4, <1>6, <2>1 DEF KeptOK
<1>. QED BY <1>1, <1>3, <1>6, <1>7

(* The replica a view change starts from.                                    *)
LEMMA JoinedSound ==
  ASSUME NEW r \in Indices, NEW view \in 0 .. MaxView, NEW x, JoinedOK(r, x, view)
  PROVE  /\ x.s \in ReplicaState /\ Sound(x.s, view) /\ KeptOK(r, x.s)
         /\ x.s.view = view /\ Len(x.s.log) \in Nat /\ x.s.lastCommitted \in Nat
         /\ view \in Nat /\ x.s.lastCommitted <= Len(x.s.log)
<1>. DEFINE s == x.s
<1>1. StateOK(r, s) /\ s.view = view
  BY DEF JoinedOK
<1>. HIDE DEF s
<1>2. s \in ReplicaState /\ KeptOK(r, s) /\ Sound(s, view) /\ s.lastCommitted <= Len(s.log)
  BY <1>1 DEF StateOK, Sound, Fine
<1>3. s.lastCommitted \in Nat /\ Len(s.log) \in Nat /\ view \in Nat
  BY <1>2, LenProperties, SpecPaxosAssumption DEF ReplicaState
<1>. QED BY <1>1, <1>2, <1>3 DEF s

LEMMA DumpStartType ==
  ASSUME NEW s, Len(s.log) \in Nat
  PROVE  DumpStart(s) \in Nat /\ DumpStart(s) <= Larger(Len(s.log), 1)
BY SpecPaxosAssumption DEF DumpStart, lastSpeculative, Larger

(* The state in which a replica sends its DOVIEWCHANGE, and the message.     *)
Sending(s) == [s EXCEPT !.sentDoViewChange = TRUE]

Own(r, s) == DoViewChange(r, Sending(s), DumpStart(Sending(s)))

(* What sending one's own DOVIEWCHANGE comes to.                             *)
LEMMA SendOf ==
  ASSUME NEW r, NEW w
  PROVE  LET u == Sending(w.s)
         IN  SendDoViewChange(r, w) =
               IF AmLeader(r, u)
               THEN Went([u EXCEPT !.doViewChanges =
                            {d \in @ : d.src # r} \cup {Own(r, w.s)}], w.out)
               ELSE Went(u, w.out \cup {Own(r, w.s)})
BY Zenon DEF SendDoViewChange, Sending, Own

(* One's own DOVIEWCHANGE is kept by the leader and sent by the others.      *)
LEMMA SendIs ==
  ASSUME NEW r, NEW s, NEW out
  PROVE  SendDoViewChange(r, Went(s, out)) =
           IF AmLeader(r, Sending(s))
           THEN Went(WithDoViewChange(Sending(s), Own(r, s)), out)
           ELSE Went(Sending(s), out \cup {Own(r, s)})
<1>. DEFINE w == Went(s, out)
            u == Sending(s)
            dvc == Own(r, s)
<1>1. w.s = s /\ w.out = out
  BY DEF Went
<1>2. SendDoViewChange(r, w) =
        IF AmLeader(r, Sending(w.s))
        THEN Went([Sending(w.s) EXCEPT !.doViewChanges =
                     {d \in @ : d.src # r} \cup {Own(r, w.s)}], w.out)
        ELSE Went(Sending(w.s), w.out \cup {Own(r, w.s)})
  BY SendOf, Zenon
<1>. HIDE DEF w
<1>3. SendDoViewChange(r, w) =
        IF AmLeader(r, u)
        THEN Went([u EXCEPT !.doViewChanges = {d \in @ : d.src # r} \cup {dvc}], out)
        ELSE Went(u, out \cup {dvc})
  BY <1>1, <1>2, Zenon
<1>4. dvc.src = r
  BY DEF Own, DoViewChange
<1>. HIDE DEF u, dvc
<1>5. WithDoViewChange(u, dvc) =
        [u EXCEPT !.doViewChanges = {d \in @ : d.src # r} \cup {dvc}]
  BY <1>4 DEF WithDoViewChange
<1>. QED BY <1>3, <1>5, Zenon DEF w, u, dvc

(* HandleStartViewChange keeps the invariant.                                *)
LEMMA HandleStartViewChangeKeeps ==
  ASSUME IInv, NEW r \in Indices, HandleStartViewChange(r) PROVE Preserved
<1>1. PICK m \in Received("STARTVIEWCHANGE") :
        LET x == Joined(r, replica[r], m.view)
            s == [x.s EXCEPT !.startViewChanges = @ \cup {m.src}]
        IN  /\ Joins(replica[r], m.view)
            /\ \/ Step(r, SendDoViewChange(r, Went(s, x.out)))
               \/ Step(r, Went(s, x.out))
  BY Zenon DEF HandleStartViewChange
<1>2. /\ m.view \in 0 .. MaxView /\ MessageOK(m) /\ m.type = "STARTVIEWCHANGE"
      /\ m.view \in Nat
  BY MessageKnown
<1>3. m.src \in Indices
  BY <1>2 DEF MessageOK
<1>. DEFINE view == m.view
            x == Joined(r, replica[r], view)
            s == [x.s EXCEPT !.startViewChanges = @ \cup {m.src}]
<1>4. JoinedOK(r, x, view)
  BY <1>1, <1>2, JoinedFine
<1>5. Step(r, SendDoViewChange(r, Went(s, x.out))) \/ Step(r, Went(s, x.out))
  BY <1>1
<1>. HIDE DEF x, view
<1>6. /\ x.s \in ReplicaState /\ Sound(x.s, view) /\ KeptOK(r, x.s)
      /\ x.s.view = view /\ Len(x.s.log) \in Nat
      /\ view \in Nat /\ view \in 0 .. MaxView
  BY <1>2, <1>4, JoinedSound DEF view
<1>7. /\ s \in ReplicaState /\ s.log = x.s.log /\ s.clientTable = x.s.clientTable
      /\ s.view = x.s.view /\ s.status = x.s.status
      /\ s.lastCommitted = x.s.lastCommitted /\ s.pendingSync = x.s.pendingSync
      /\ s.doViewChanges = x.s.doViewChanges /\ s.needFillDVC = x.s.needFillDVC
  BY <1>3, <1>6 DEF ReplicaState
<1>. HIDE DEF s
<1>8. CASE Step(r, Went(s, x.out))
  <2>. DEFINE y == Went(s, x.out)
  <2>1. y.s = s /\ y.out = x.out
    BY DEF Went
  <2>2. KeptOK(r, s)
    BY <1>6, <1>7 DEF KeptOK
  <2>. HIDE DEF y
  <2>. QED BY <1>4, <1>6, <1>7, <1>8, <2>1, <2>2, JoinedKeeps DEF y
<1>9. CASE Step(r, SendDoViewChange(r, Went(s, x.out)))
  <2>. DEFINE u == Sending(s)
              dvc == Own(r, s)
              y == SendDoViewChange(r, Went(s, x.out))
  <2>1. y = IF GetLeaderIndex(u.view) = r
            THEN Went(WithDoViewChange(u, dvc), x.out)
            ELSE Went(u, x.out \cup {dvc})
    <3>. HIDE DEF u, dvc
    <3>1. y = IF AmLeader(r, u) THEN Went(WithDoViewChange(u, dvc), x.out)
              ELSE Went(u, x.out \cup {dvc})
      BY SendIs DEF u, dvc
    <3>. HIDE DEF y
    <3>. QED BY <3>1 DEF AmLeader
  <2>2. /\ u \in ReplicaState /\ u.log = s.log /\ u.clientTable = s.clientTable
        /\ u.view = s.view /\ u.status = s.status
        /\ u.lastCommitted = s.lastCommitted /\ u.pendingSync = s.pendingSync
        /\ u.doViewChanges = s.doViewChanges /\ u.needFillDVC = s.needFillDVC
    BY <1>7 DEF ReplicaState, Sending
  <2>. HIDE DEF u
  <2>3. KeptOK(r, u) /\ Sound(u, view) /\ Len(u.log) \in Nat
    <3>1. LogOK(u, view) /\ TableOK(u)
      BY <1>6, <1>7, <2>2, SameLog DEF Sound, Fine
    <3>. QED BY <1>6, <1>7, <2>2, <3>1 DEF KeptOK, Sound, Fine
  <2>4. /\ dvc \in DVCMessage /\ DVCOK(dvc)
        /\ dvc.view = view /\ dvc.src = r
        /\ dvc.entries # << >> => dvc.entries[1].opnum <= Len(u.log)
    BY <1>6, <2>3, DumpStartType, DoViewChangeFine DEF Own, u
  <2>. HIDE DEF dvc, y
  <2>5. CASE GetLeaderIndex(u.view) = r
    <3>. DEFINE t == WithDoViewChange(u, dvc)
    <3>1. dvc.entries # << >> => dvc.entries[1].opnum <= Len(u.log) + 1
      <4>. SUFFICES ASSUME dvc.entries # << >>
                    PROVE dvc.entries[1].opnum <= Len(u.log) + 1
        OBVIOUS
      <4>1. dvc.entries \in Seq(SentEntry) /\ 1 \in 1 .. Len(dvc.entries)
        BY <2>4 DEF DVCMessage
      <4>2. dvc.entries[1] \in SentEntry
        BY <4>1, ElementOfSeq
      <4>. QED BY <4>2, <2>3, <2>4 DEF SentEntry
    <3>2. /\ t \in ReplicaState /\ t.log = u.log /\ t.clientTable = u.clientTable
          /\ t.view = u.view /\ t.status = u.status
          /\ t.lastCommitted = u.lastCommitted /\ t.pendingSync = u.pendingSync
          /\ KeptOK(r, t)
      <4>1. dvc.view <= u.view
        BY <1>6, <1>7, <2>2, <2>4
      <4>. QED BY <2>2, <2>3, <2>4, <3>1, <4>1, KeepingFine
    <3>. HIDE DEF t
    <3>3. y.s = t /\ y.out = x.out
      BY <2>1, <2>5 DEF Went, t
    <3>4. Step(r, y)
      BY <1>9 DEF y
    <3>. QED BY <1>4, <1>6, <1>7, <2>2, <3>2, <3>3, <3>4, JoinedKeeps
  <2>6. CASE GetLeaderIndex(u.view) # r
    <3>1. y.s = u /\ y.out = x.out \cup {dvc}
      BY <2>1, <2>6 DEF Went
    <3>2. dvc.type = "DOVIEWCHANGE" /\ MessageOK(dvc)
      BY <1>6, <1>7, <2>2, <2>4, <2>6 DEF MessageOK, DVCMessage
    <3>3. Step(r, y)
      BY <1>9 DEF y
    <3>. QED BY <1>4, <1>6, <1>7, <2>2, <2>3, <3>1, <3>2, <3>3, JoinedKeeps
  <2>. QED BY <2>5, <2>6
<1>. QED BY <1>5, <1>8, <1>9
-----------------------------------------------------------------------------
(* The leader of a new view                                                  *)

(* What is fine for a view is fine for a later one.                          *)
LEMMA FineLater ==
  ASSUME NEW v \in Nat, NEW w \in Nat, v <= w, NEW s, Fine(s, v)
  PROVE  Fine(s, w)
<1>1. s.log \in Seq(LogEntry) /\ LogOK(s, v)
  BY DEF Fine, ReplicaState
<1>2. ASSUME NEW i \in 1 .. Len(s.log) PROVE s.log[i].view <= w
  <2>1. s.log[i] \in LogEntry
    BY <1>1, ElementOfSeq
  <2>2. s.log[i].view \in Nat /\ s.log[i].view <= v
    BY <1>1, <2>1 DEF LogEntry, LogOK
  <2>. QED BY <2>2
<1>3. LogOK(s, w)
  BY <1>1, <1>2 DEF LogOK
<1>. QED BY <1>3 DEF Fine

(* A replica that enters a view it was not in.                               *)
LEMMA EnteredFine ==
  ASSUME IInv, NEW r \in Indices, NEW view \in 0 .. MaxView, NEW w,
         Fine(w.s, view), w.s.lastCommitted <= Len(w.s.log),
         replica[r].lastCommitted <= w.s.lastCommitted, replica[r].view <= view,
         ~(replica[r].view = view /\ replica[r].status = "NORMAL")
  PROVE  LET y == EnterView(r, w, view)
         IN  /\ y.s \in ReplicaState /\ StateOK(r, y.s) /\ GoesTo(replica[r], y.s)
             /\ Sound(y.s, view)
             /\ y.s.status = "NORMAL" /\ y.s.view = view /\ y.s.pendingSync = 0
             /\ Len(w.s.log) <= Len(y.s.log)
             /\ y.s.lastCommitted = w.s.lastCommitted
             /\ \A m \in y.out : m \in w.out \/ IsReply(m, view)
<1>. DEFINE y == EnterView(r, w, view)
            t == y.s
            o == replica[r]
<1>1. view \in Nat /\ view \in 0 .. view /\ view <= MaxView
  BY SpecPaxosAssumption
<1>2. EnteredView(w, y, view, view)
  BY <1>1, EnterViewFine
<1>. HIDE DEF y
<1>3. /\ Fine(t, view) /\ Len(w.s.log) <= Len(t.log)
      /\ t.status = "NORMAL" /\ t.view = view
      /\ t.lastCommitted = w.s.lastCommitted /\ t.pendingSync = 0
      /\ t.doViewChanges = {}
      /\ \A m \in y.out : m \in w.out \/ IsReply(m, view)
  BY <1>2 DEF EnteredView, Extends
<1>4. Len(t.log) \in Nat /\ Len(w.s.log) \in Nat /\ w.s.lastCommitted \in Nat
  BY <1>3, LenProperties DEF Fine, ReplicaState
<1>. HIDE DEF t
<1>5. t.lastCommitted <= Len(t.log)
  BY <1>3, <1>4
<1>6. KeptOK(r, t)
  BY <1>3, FS_EmptySet DEF KeptOK
<1>7. StateOK(r, t) /\ Sound(t, view) /\ t \in ReplicaState
  BY <1>1, <1>3, <1>5, <1>6 DEF StateOK, Sound, Fine
<1>8. GoesTo(o, t)
  BY <1>3 DEF GoesTo
<1>. QED BY <1>3, <1>7, <1>8 DEF t, y, o

(* A leader that has kept a DOVIEWCHANGE of another replica.                 *)
Collected(r, x, s, view) ==
  /\ JoinedOK(r, x, view) /\ GetLeaderIndex(view) = r
  /\ s \in ReplicaState /\ s.log = x.s.log /\ s.clientTable = x.s.clientTable
  /\ s.view = x.s.view /\ s.status = x.s.status
  /\ s.lastCommitted = x.s.lastCommitted /\ s.pendingSync = x.s.pendingSync
  /\ s.needFillDVC = x.s.needFillDVC
  /\ KeptOK(r, s) /\ s.doViewChanges # {}

(* What a leader that collects has.                                          *)
LEMMA CollectedSound ==
  ASSUME NEW r \in Indices, NEW view \in 0 .. MaxView, NEW x, NEW s,
         Collected(r, x, s, view)
  PROVE  /\ s \in ReplicaState /\ Fine(s, view) /\ s.view = view
         /\ s.status = "VIEW_CHANGE"
         /\ Len(s.log) \in Nat /\ s.lastCommitted \in Nat
         /\ s.lastCommitted <= Len(s.log)
         /\ s.doViewChanges \subseteq DVCMessage /\ IsFiniteSet(s.doViewChanges)
         /\ Mergeable(s.doViewChanges, view)
         /\ s.needFillDVC \in BOOLEAN
<1>1. /\ x.s \in ReplicaState /\ Sound(x.s, view) /\ x.s.view = view
      /\ Len(x.s.log) \in Nat /\ x.s.lastCommitted \in Nat
      /\ x.s.lastCommitted <= Len(x.s.log) /\ x.s.status = "VIEW_CHANGE"
  BY JoinedSound DEF Collected, JoinedOK
<1>2. /\ s \in ReplicaState /\ s.log = x.s.log /\ s.clientTable = x.s.clientTable
      /\ s.view = x.s.view /\ s.status = x.s.status
      /\ s.lastCommitted = x.s.lastCommitted
      /\ KeptOK(r, s) /\ s.doViewChanges # {}
  BY DEF Collected
<1>3. LogOK(s, view) /\ TableOK(s)
  BY <1>1, <1>2, SameLog DEF Sound, Fine
<1>4. s.doViewChanges \subseteq DVCMessage /\ s.needFillDVC \in BOOLEAN
  BY <1>2 DEF ReplicaState
<1>5. IsFiniteSet(s.doViewChanges) /\ Mergeable(s.doViewChanges, view)
  BY <1>1, <1>2, <1>4 DEF KeptOK, Mergeable
<1>. QED BY <1>1, <1>2, <1>3, <1>4, <1>5 DEF Fine

(* A leader that goes on collecting.                                         *)
LEMMA CollectingKeeps ==
  ASSUME IInv, NEW r \in Indices, NEW view \in 0 .. MaxView, NEW x, NEW s,
         Collected(r, x, s, view), Step(r, Went(s, x.out))
  PROVE  Preserved
<1>. DEFINE y == Went(s, x.out)
<1>1. y.s = s /\ y.out = x.out
  BY DEF Went
<1>2. Step(r, y)
  OBVIOUS
<1>. HIDE DEF y
<1>3. JoinedOK(r, x, view)
  BY DEF Collected
<1>. QED BY <1>1, <1>2, <1>3, JoinedKeeps DEF Collected

(* A leader that asks for longer logs forgets those it has, but not its own. *)
LEMMA UnalignedKeeps ==
  ASSUME IInv, NEW r \in Indices, NEW view \in 0 .. MaxView, NEW x, NEW s,
         Collected(r, x, s, view), Step(r, NeedFillDVCGap(r, Went(s, x.out)))
  PROVE  Preserved
<1>. DEFINE dvcs == s.doViewChanges
            own  == {d \in dvcs : d.src = r}
            mine == IF own = {} THEN {EmptyDoViewChange(r)} ELSE own
            asked == {FillDVCGap(s, d.src) : d \in dvcs \ own}
            t    == [s EXCEPT !.doViewChanges = mine, !.needFillDVC = TRUE]
            y    == NeedFillDVCGap(r, Went(s, x.out))
<1>1. y.s = t /\ y.out = x.out \cup asked
  BY DEF NeedFillDVCGap, Went
<1>2. /\ s \in ReplicaState /\ s.view = view /\ Len(s.log) \in Nat
      /\ s.lastCommitted \in Nat /\ dvcs \subseteq DVCMessage /\ IsFiniteSet(dvcs)
  BY CollectedSound
<1>3. /\ KeptOK(r, s) /\ GetLeaderIndex(view) = r /\ JoinedOK(r, x, view)
      /\ s.log = x.s.log /\ s.clientTable = x.s.clientTable
      /\ s.view = x.s.view /\ s.status = x.s.status
      /\ s.lastCommitted = x.s.lastCommitted /\ s.pendingSync = x.s.pendingSync
  BY DEF Collected
<1>4. view \in Nat
  BY SpecPaxosAssumption
<1>5. /\ EmptyDoViewChange(r) \in DVCMessage /\ DVCOK(EmptyDoViewChange(r))
      /\ EmptyDoViewChange(r).view = 0 /\ EmptyDoViewChange(r).entries = << >>
  <2>. DEFINE e == EmptyDoViewChange(r)
  <2>1. << >> \in Seq(SentEntry) /\ Len(<< >>) = 0
    OBVIOUS
  <2>2. /\ e \in DVCMessage /\ e.view = 0 /\ e.entries = << >>
        /\ e.lastCommitted = 0 /\ e.lastSpeculative = 0
    BY <2>1 DEF EmptyDoViewChange, DVCMessage
  <2>. HIDE DEF e
  <2>3. WellDumped(e.entries, e.lastSpeculative, e.view)
    BY <2>1, <2>2 DEF WellDumped
  <2>. QED BY <2>2, <2>3 DEF DVCOK, e
<1>6. IsFiniteSet(mine)
  <2>1. IsFiniteSet(own)
    <3>1. own \subseteq dvcs
      OBVIOUS
    <3>. HIDE DEF own, dvcs
    <3>. QED BY <3>1, <1>2, FS_Subset
  <2>2. IsFiniteSet({EmptyDoViewChange(r)})
    BY FS_Singleton
  <2>. QED BY <2>1, <2>2
<1>7. \A d \in mine :
        /\ d \in DVCMessage /\ DVCOK(d) /\ d.view <= view
        /\ d.entries # << >> => d.entries[1].opnum <= Len(s.log) + 1
  <2>. TAKE d \in mine
  <2>1. d = EmptyDoViewChange(r) \/ (d \in dvcs /\ d.src = r)
    OBVIOUS
  <2>. HIDE DEF mine, dvcs
  <2>2. CASE d = EmptyDoViewChange(r)
    BY <1>4, <1>5, <2>2
  <2>3. CASE d \in dvcs /\ d.src = r
    BY <1>2, <1>3, <2>3 DEF KeptOK, dvcs
  <2>. QED BY <2>1, <2>2, <2>3
<1>8. \A m \in asked : m.type = "FILLDVCGAP" /\ MessageOK(m)
  <2>. SUFFICES ASSUME NEW d \in dvcs, d.src # r
                PROVE  LET m == FillDVCGap(s, d.src)
                       IN  m.type = "FILLDVCGAP" /\ MessageOK(m)
    OBVIOUS
  <2>1. d.src \in Indices
    BY <1>2 DEF DVCMessage
  <2>. QED BY <1>2, <1>3, <2>1 DEF FillDVCGap, MessageOK
<1>. HIDE DEF mine, asked, y
<1>9. /\ t \in ReplicaState /\ t.log = s.log /\ t.clientTable = s.clientTable
      /\ t.view = s.view /\ t.status = s.status
      /\ t.lastCommitted = s.lastCommitted /\ t.pendingSync = s.pendingSync
      /\ t.doViewChanges = mine
  <2>1. mine \in SUBSET DVCMessage
    BY <1>7
  <2>. QED BY <1>2, <2>1 DEF ReplicaState
<1>. HIDE DEF t
<1>10. KeptOK(r, t)
  BY <1>2, <1>6, <1>7, <1>9 DEF KeptOK
<1>11. Step(r, y)
  BY DEF y
<1>. QED BY <1>1, <1>3, <1>8, <1>9, <1>10, <1>11, JoinedKeeps

(* The logs that are compared start at or before MaxStart.                   *)
LEMMA MaxStartFine ==
  ASSUME NEW dvcs, dvcs \subseteq DVCMessage, IsFiniteSet(dvcs)
  PROVE  /\ MaxStart(dvcs) \in Nat
         /\ \A d \in dvcs : d.entries # << >> => d.entries[1].opnum <= MaxStart(dvcs)
<1>. DEFINE some == {e \in dvcs : e.entries # << >>}
            f    == [d \in some |-> d.entries[1].opnum]
            T    == {d.entries[1].opnum : d \in some}
            all  == {0} \cup T
<1>1. MaxStart(dvcs) = Max(all)
  BY DEF MaxStart
<1>2. ASSUME NEW d \in some PROVE d.entries[1].opnum \in Nat
  <2>1. d.entries \in Seq(SentEntry) /\ d.entries # << >>
    BY DEF DVCMessage
  <2>2. 1 \in 1 .. Len(d.entries)
    BY <2>1
  <2>3. d.entries[1] \in SentEntry
    BY <2>1, <2>2, ElementOfSeq
  <2>. QED BY <2>3 DEF SentEntry
<1>3. IsFiniteSet(some)
  <2>1. some \subseteq dvcs
    OBVIOUS
  <2>. HIDE DEF some
  <2>. QED BY <2>1, FS_Subset
<1>4. f \in Surjection(some, T)
  BY DEF Surjection
<1>5. IsFiniteSet(T)
  <2>. HIDE DEF some, f, T
  <2>. QED BY <1>3, <1>4, FS_Surjection
<1>6. T \subseteq Nat /\ \A d \in some : d.entries[1].opnum \in T
  BY <1>2
<1>7. IsFiniteSet(all)
  <2>. HIDE DEF T
  <2>. QED BY <1>5, FS_Union, FS_Singleton
<1>8. all \subseteq Nat /\ all # {} /\ \A k \in T : k \in all
  BY <1>6
<1>9. Max(all) \in Nat /\ \A k \in all : k <= Max(all)
  <2>. HIDE DEF all
  <2>. QED BY <1>7, <1>8, MaxOfFinite
<1>10. ASSUME NEW d \in dvcs, d.entries # << >>
       PROVE  d.entries[1].opnum <= Max(all)
  <2>1. d \in some
    BY <1>10
  <2>2. d.entries[1].opnum \in all
    <3>. HIDE DEF some, T, all
    <3>. QED BY <1>6, <1>8, <2>1
  <2>. HIDE DEF all
  <2>. QED BY <1>9, <2>2
<1>. HIDE DEF all
<1>. QED BY <1>1, <1>9, <1>10

(* Logs that are aligned can be compared, and installed on the leader's own. *)
LEMMA ComparedFromFine ==
  ASSUME NEW r \in Indices, NEW view \in 0 .. MaxView, NEW x, NEW s,
         Collected(r, x, s, view), ~Unaligned(s)
  PROVE  /\ ComparedFrom(s) \in 0 .. Len(s.log) + 1
         /\ \A d \in s.doViewChanges :
              d.entries # << >> => d.entries[1].opnum <= Len(s.log) + 1
<1>. DEFINE dvcs == s.doViewChanges
<1>1. /\ Len(s.log) \in Nat /\ dvcs \subseteq DVCMessage /\ IsFiniteSet(dvcs)
      /\ KeptOK(r, s) /\ s.needFillDVC \in BOOLEAN
  BY CollectedSound DEF Collected
<1>2. CASE s.needFillDVC = TRUE
  <2>1. ComparedFrom(s) = 0
    BY <1>2 DEF ComparedFrom
  <2>2. 0 \in 0 .. Len(s.log) + 1
    BY <1>1
  <2>3. \A d \in dvcs : d.entries # << >> => d.entries[1].opnum <= Len(s.log) + 1
    BY <1>1, <1>2 DEF KeptOK
  <2>. QED BY <2>1, <2>2, <2>3
<1>3. CASE s.needFillDVC = FALSE
  <2>1. ComparedFrom(s) = MaxStart(dvcs)
    BY <1>3 DEF ComparedFrom
  <2>2. MaxStart(dvcs) <= Len(s.log)
    <3>1. ~Gap(s, dvcs)
      BY <1>3 DEF Unaligned
    <3>. HIDE DEF dvcs
    <3>. QED BY <3>1, Zenon DEF Gap, lastSpeculative
  <2>3. /\ MaxStart(dvcs) \in Nat
        /\ \A d \in dvcs : d.entries # << >> => d.entries[1].opnum <= MaxStart(dvcs)
    BY <1>1, MaxStartFine
  <2>4. \A d \in dvcs : d.entries # << >> => d.entries[1].opnum \in Nat
    <3>. SUFFICES ASSUME NEW d \in dvcs, d.entries # << >>
                  PROVE  d.entries[1].opnum \in Nat
      OBVIOUS
    <3>1. d.entries \in Seq(SentEntry)
      BY <1>1 DEF DVCMessage
    <3>2. 1 \in 1 .. Len(d.entries)
      BY <3>1
    <3>3. d.entries[1] \in SentEntry
      BY <3>1, <3>2, ElementOfSeq
    <3>. QED BY <3>3 DEF SentEntry
  <2>. DEFINE k == MaxStart(dvcs)
              n == Len(s.log)
  <2>5. k \in Nat /\ n \in Nat /\ k <= n /\ ComparedFrom(s) = k
    BY <1>1, <2>1, <2>2, <2>3
  <2>. HIDE DEF k, n, dvcs
  <2>6. \A d \in dvcs : d.entries # << >> => d.entries[1].opnum <= n + 1
    <3>. SUFFICES ASSUME NEW d \in dvcs, d.entries # << >>
                  PROVE  d.entries[1].opnum <= n + 1
      OBVIOUS
    <3>1. d.entries[1].opnum \in Nat /\ d.entries[1].opnum <= k
      BY <2>3, <2>4 DEF k
    <3>. QED BY <3>1, <2>5
  <2>. QED BY <2>5, <2>6 DEF n, dvcs
<1>. QED BY <1>1, <1>2, <1>3

(* A leader that reconciles the logs enters the view with the merged one.    *)
LEMMA ReconcileKeeps ==
  ASSUME IInv, NEW r \in Indices, NEW view \in 0 .. MaxView, NEW x, NEW s,
         Collected(r, x, s, view), ~Unaligned(s),
         ReadsInRange(ComparedFrom(s), s.doViewChanges),
         Step(r, Reconcile(r, Went(s, x.out), ComparedFrom(s)))
  PROVE  Preserved
<1>. DEFINE o         == replica[r]
            z         == Went(s, x.out)
            maxStart  == ComparedFrom(s)
            newLog    == MergeLogs(view, maxStart, s.doViewChanges)
            installed == InstallLog(r, s, newLog)
            w         == Went(installed.s, x.out \cup installed.out)
            entered   == EnterView(r, w, view)
            others    == Indices \ {r}
            start     == StartView(entered.s, DumpStart(installed.s), others)
            y         == Went(entered.s, entered.out \cup {start})
<1>1. /\ s \in ReplicaState /\ Fine(s, view) /\ s.view = view
      /\ Len(s.log) \in Nat /\ s.lastCommitted \in Nat
      /\ s.lastCommitted <= Len(s.log) /\ Mergeable(s.doViewChanges, view)
  BY CollectedSound
<1>2. z.s = s /\ z.out = x.out
  BY DEF Went
<1>3. Reconcile(r, z, maxStart) = y
  <2>1. z.s = s /\ z.out = x.out /\ s.view = view
    BY <1>1, <1>2
  <2>. HIDE DEF z
  <2>. QED BY <2>1, Zenon DEF Reconcile
<1>4. Step(r, y)
  BY <1>3, Zenon
<1>5. view \in Nat /\ view <= MaxView
  BY SpecPaxosAssumption
<1>6. Installable(s, newLog, view)
  <2>1. /\ maxStart \in 0 .. Len(s.log) + 1
        /\ \A d \in s.doViewChanges :
             d.entries # << >> => d.entries[1].opnum <= Len(s.log) + 1
    BY ComparedFromFine
  <2>. HIDE DEF maxStart
  <2>2. ReadsInRange(maxStart, s.doViewChanges)
    BY DEF maxStart
  <2>. QED BY <1>1, <1>5, <2>1, <2>2, MergeLogsFine
<1>. HIDE DEF newLog, maxStart, z
<1>7. Installed(s, installed, newLog, view)
  BY <1>1, <1>5, <1>6, InstallLogFine
<1>. HIDE DEF installed
<1>8. /\ Fine(installed.s, view) /\ s.lastCommitted <= installed.s.lastCommitted
      /\ installed.s.lastCommitted <= Len(installed.s.log)
      /\ \A m \in installed.out : IsReply(m, view)
  <2>1. /\ Fine(installed.s, view) /\ installed.s.lastCommitted >= s.lastCommitted
        /\ installed.s.lastCommitted <= Len(installed.s.log)
        /\ \A m \in installed.out : IsReply(m, view)
    BY <1>7 DEF Installed
  <2>2. installed.s.lastCommitted \in Nat
    BY <2>1 DEF Fine, ReplicaState
  <2>. QED BY <1>1, <2>1, <2>2
<1>9. /\ GoesTo(o, x.s) /\ x.s.view = view /\ x.s.status = "VIEW_CHANGE"
      /\ GetLeaderIndex(view) = r
      /\ s.lastCommitted = x.s.lastCommitted
      /\ \A m \in x.out : m.type = "STARTVIEWCHANGE" /\ MessageOK(m)
  BY DEF Collected, JoinedOK
<1>10. /\ o.lastCommitted <= s.lastCommitted /\ o.view <= view
       /\ ~(o.view = view /\ o.status = "NORMAL")
  BY <1>9 DEF GoesTo
<1>11. w.s = installed.s /\ w.out = x.out \cup installed.out
  BY DEF Went
<1>. HIDE DEF w
<1>12. o.lastCommitted <= installed.s.lastCommitted
  <2>1. o.lastCommitted \in Nat /\ installed.s.lastCommitted \in Nat
    BY <1>8, Known DEF Fine, ReplicaState
  <2>. QED BY <1>1, <1>8, <1>10, <2>1
<1>. DEFINE t == entered.s
<1>13. /\ t \in ReplicaState /\ StateOK(r, t) /\ GoesTo(o, t) /\ Sound(t, view)
       /\ t.status = "NORMAL" /\ t.view = view /\ t.pendingSync = 0
       /\ Len(w.s.log) <= Len(t.log)
       /\ \A m \in entered.out : m \in w.out \/ IsReply(m, view)
  BY <1>8, <1>10, <1>11, <1>12, EnteredFine
<1>. HIDE DEF entered
<1>14. Len(t.log) \in Nat /\ Len(installed.s.log) \in Nat
  BY <1>8, <1>13, LenProperties DEF Fine, ReplicaState
<1>15. /\ DumpStart(installed.s) \in Nat
       /\ DumpStart(installed.s) <= Larger(Len(installed.s.log), 1)
  BY <1>14, DumpStartType
<1>. DEFINE from == DumpStart(installed.s)
<1>16. /\ MessageOK(start) /\ start.type = "STARTVIEW" /\ start.view = view
       /\ start.to = others /\ start.lastSpeculative = Len(t.log)
       /\ start.entries = << >> => Len(t.log) < Larger(from, 1)
  <2>1. others \in SUBSET Indices
    OBVIOUS
  <2>. HIDE DEF t, others, from
  <2>2. start = StartView(t, from, others)
    BY DEF t, from
  <2>3. from \in Nat
    BY <1>15 DEF from
  <2>. QED BY <1>13, <2>1, <2>2, <2>3, StartViewFine
<1>17. start.entries = << >> => Len(t.log) = 0
  <2>. DEFINE a == Len(t.log)
              b == Len(installed.s.log)
  <2>1. b <= a /\ a \in Nat /\ b \in Nat
    BY <1>11, <1>13, <1>14
  <2>2. from \in Nat /\ from <= Larger(b, 1) /\ (start.entries = << >> => a < Larger(from, 1))
    BY <1>15, <1>16
  <2>. HIDE DEF a, b, from, start
  <2>3. start.entries = << >> => a = 0
    BY <2>1, <2>2 DEF Larger
  <2>. QED BY <2>3 DEF a
<1>. HIDE DEF start, from
<1>18. MessageHolds(After(r, t), start)
  <2>1. Led(After(r, t), view, Len(t.log))
    <3>1. Len(t.log) <= Len(t.log)
      BY <1>14
    <3>. QED BY <1>9, <1>13, <1>14, <3>1, LeaderLeads
  <2>2. ASSUME start.entries = << >>, NEW q \in others
        PROVE  start.lastSpeculative <= After(r, t)[q].lastCommitted
    <3>1. After(r, t)[q] = replica[q]
      BY DEF IInv, After
    <3>2. replica[q].lastCommitted \in Nat
      BY Known
    <3>. QED BY <1>16, <1>17, <2>2, <3>1, <3>2
  <2>. QED BY <1>16, <2>1, <2>2 DEF MessageHolds
<1>19. ASSUME NEW m \in entered.out PROVE MessageOK(m) /\ MessageHolds(After(r, t), m)
  <2>1. CASE m \in x.out
    BY <1>9, <2>1 DEF MessageHolds
  <2>2. CASE IsReply(m, view)
    <3>1. m.type = "SPECULATIVEREPLY" /\ m.view \in 0 .. MaxView
      BY <2>2, <1>5, SpecPaxosAssumption DEF IsReply
    <3>. QED BY <3>1 DEF MessageOK, MessageHolds
  <2>. QED BY <1>8, <1>11, <1>13, <2>1, <2>2
<1>20. Handled(r, y)
  <2>1. y.s = t /\ y.out = entered.out \cup {start}
    BY DEF Went, t
  <2>. HIDE DEF y, t
  <2>. QED BY <1>13, <1>16, <1>18, <1>19, <2>1 DEF Handled, o
<1>. HIDE DEF y
<1>. QED BY <1>4, <1>20, StepKeeps

(* A longer log that is long enough reaches the replica's own.               *)
LEMMA LongEnough ==
  ASSUME NEW s, Len(s.log) \in Nat, s.lastCommitted \in Nat,
         s.lastCommitted <= Len(s.log),
         NEW m \in DVCMessage, ~TooShort(s, m), m.entries # << >>
  PROVE  m.entries[1].opnum <= Len(s.log) + 1
<1>1. m.entries[1].opnum \in Nat
  <2>1. m.entries \in Seq(SentEntry)
    BY DEF DVCMessage
  <2>2. 1 \in 1 .. Len(m.entries)
    BY <2>1
  <2>3. m.entries[1] \in SentEntry
    BY <2>1, <2>2, ElementOfSeq
  <2>. QED BY <2>3 DEF SentEntry
<1>2. \/ s.lastCommitted = 0 /\ m.entries[1].opnum = 1
      \/ ~(m.entries[1].opnum > s.lastCommitted)
  BY Zenon DEF TooShort
<1>. QED BY <1>1, <1>2

(* HandleDoViewChange keeps the invariant.                                   *)
LEMMA HandleDoViewChangeKeeps ==
  ASSUME IInv, NEW r \in Indices, HandleDoViewChange(r) PROVE Preserved
<1>1. PICK m \in Received("DOVIEWCHANGE") :
        LET x == Joined(r, replica[r], m.view)
            s == WithDoViewChange(x.s, m)
            y == Went(s, x.out)
        IN  /\ GetLeaderIndex(m.view) = r
            /\ Joins(replica[r], m.view)
            /\ \/ /\ Rejected(s, m)
                  /\ Step(r, Went(x.s, x.out \cup {FillDVCGap(s, m.src)}))
               \/ /\ Unaligned(s)
                  /\ Step(r, NeedFillDVCGap(r, y))
               \/ /\ ~Rejected(s, m) /\ ~Unaligned(s)
                  /\ ~DoViewChangeQuorum(s.doViewChanges)
                  /\ Step(r, y)
               \/ /\ ~Rejected(s, m) /\ ~Unaligned(s)
                  /\ DoViewChangeQuorum(s.doViewChanges)
                  /\ ReadsInRange(ComparedFrom(s), s.doViewChanges)
                  /\ Step(r, Reconcile(r, y, ComparedFrom(s)))
  BY Zenon DEF HandleDoViewChange
<1>. DEFINE view == m.view
            x == Joined(r, replica[r], view)
            s == WithDoViewChange(x.s, m)
<1>2. /\ m \in DVCMessage /\ DVCOK(m) /\ m.src # GetLeaderIndex(view)
      /\ m.src \in Indices /\ view \in 0 .. MaxView /\ view \in Nat
  <2>1. m.type = "DOVIEWCHANGE" /\ MessageOK(m) /\ view \in 0 .. MaxView /\ view \in Nat
    BY MessageKnown
  <2>. QED BY <2>1 DEF MessageOK, DVCMessage
<1>3. GetLeaderIndex(view) = r /\ Joins(replica[r], view)
  BY <1>1
<1>4. JoinedOK(r, x, view)
  BY <1>2, <1>3, JoinedFine
<1>5. \/ /\ Rejected(s, m)
         /\ Step(r, Went(x.s, x.out \cup {FillDVCGap(s, m.src)}))
      \/ /\ Unaligned(s)
         /\ Step(r, NeedFillDVCGap(r, Went(s, x.out)))
      \/ /\ ~Rejected(s, m) /\ ~Unaligned(s)
         /\ Step(r, Went(s, x.out))
      \/ /\ ~Rejected(s, m) /\ ~Unaligned(s)
         /\ ReadsInRange(ComparedFrom(s), s.doViewChanges)
         /\ Step(r, Reconcile(r, Went(s, x.out), ComparedFrom(s)))
  BY <1>1, Zenon
<1>. HIDE DEF x
<1>6. /\ x.s \in ReplicaState /\ KeptOK(r, x.s) /\ x.s.view = view
      /\ Len(x.s.log) \in Nat /\ x.s.lastCommitted \in Nat
      /\ x.s.lastCommitted <= Len(x.s.log)
  BY <1>2, <1>4, JoinedSound
<1>7. /\ s.log = x.s.log /\ s.view = x.s.view /\ s.lastCommitted = x.s.lastCommitted
      /\ s.needFillDVC = x.s.needFillDVC
  BY <1>6 DEF WithDoViewChange, ReplicaState
<1>8. CASE Step(r, Went(x.s, x.out \cup {FillDVCGap(s, m.src)}))
  <2>. DEFINE ask == FillDVCGap(s, m.src)
              y   == Went(x.s, x.out \cup {ask})
  <2>1. ask.type = "FILLDVCGAP" /\ MessageOK(ask)
    BY <1>2, <1>6, <1>7 DEF FillDVCGap, MessageOK
  <2>2. y.s = x.s /\ y.out = x.out \cup {ask} /\ Step(r, y)
    BY <1>8 DEF Went
  <2>. HIDE DEF s, ask, y, view
  <2>. QED BY <1>2, <1>4, <1>6, <2>1, <2>2, JoinedKeeps
<1>9. ASSUME ~Rejected(s, m) \/ ~s.needFillDVC
      PROVE  Collected(r, x, s, view)
  <2>1. (x.s.needFillDVC \/ m.src = r) /\ m.entries # << >> =>
          m.entries[1].opnum <= Len(x.s.log) + 1
    <3>. SUFFICES ASSUME x.s.needFillDVC \/ m.src = r, m.entries # << >>
                  PROVE  m.entries[1].opnum <= Len(x.s.log) + 1
      OBVIOUS
    <3>1. ~TooShort(s, m)
      BY <1>2, <1>3, <1>7, <1>9 DEF Rejected
    <3>. HIDE DEF s, view
    <3>2. Len(s.log) \in Nat /\ s.lastCommitted \in Nat /\ s.lastCommitted <= Len(s.log)
      BY <1>6, <1>7
    <3>3. m.entries[1].opnum <= Len(s.log) + 1
      BY <1>2, <3>1, <3>2, LongEnough
    <3>. QED BY <1>7, <3>3
  <2>2. m.view <= x.s.view
    BY <1>2, <1>6
  <2>3. /\ s \in ReplicaState /\ s.log = x.s.log /\ s.clientTable = x.s.clientTable
        /\ s.view = x.s.view /\ s.status = x.s.status
        /\ s.lastCommitted = x.s.lastCommitted /\ s.pendingSync = x.s.pendingSync
        /\ s.needFillDVC = x.s.needFillDVC
        /\ KeptOK(r, s) /\ m \in s.doViewChanges
    BY <1>2, <1>6, <2>1, <2>2, KeepingFine
  <2>. HIDE DEF s, view
  <2>. QED BY <1>3, <1>4, <2>3 DEF Collected
<1>10. Unaligned(s) => ~s.needFillDVC
  BY DEF Unaligned
<1>. HIDE DEF s, view
<1>. QED BY <1>2, <1>5, <1>8, <1>9, <1>10,
            UnalignedKeeps, CollectingKeeps, ReconcileKeeps

-----------------------------------------------------------------------------
(* The replicas that follow the leader into its view                         *)

(* A new log that leaves no gap can be installed.                            *)
LEMMA DumpInstallable ==
  ASSUME NEW s, s \in ReplicaState, Len(s.log) \in Nat, s.lastCommitted \in Nat,
         s.lastCommitted <= Len(s.log), NEW v \in Nat, NEW last \in Nat,
         NEW entries \in Seq(SentEntry), WellDumped(entries, last, v),
         ~LogGap(s, entries)
  PROVE  /\ Installable(s, entries, v)
         /\ entries # << >> => Last(entries).opnum = last
<1>. DEFINE n == Len(entries)
            len == Len(s.log)
            start == entries[1].opnum
<1>1. n \in Nat /\ len \in Nat
  OBVIOUS
<1>2. /\ \A i \in 1 .. n : entries[i].opnum = start + i - 1 /\ entries[i].view <= v
      /\ entries # << >> => start >= 1 /\ start + n - 1 = last
  BY DEF WellDumped
<1>3. CASE entries = << >>
  <2>1. n = 0
    BY <1>3
  <2>. HIDE DEF n
  <2>. QED BY <1>3, <2>1 DEF Installable, n
<1>4. CASE entries # << >>
  <2>1. n >= 1 /\ 1 \in 1 .. n /\ n \in 1 .. n
    BY <1>4, <1>1
  <2>2. start \in Nat
    <3>1. entries[1] \in SentEntry
      BY <2>1, ElementOfSeq
    <3>. QED BY <3>1 DEF SentEntry
  <2>3. Last(entries) = entries[n]
    BY DEF Last
  <2>4. start <= s.lastCommitted + 1 \/ start <= len
    BY <1>4, <1>1, <2>2 DEF LogGap, lastSpeculative
  <2>5. entries[n].opnum = start + n - 1
    BY <1>2, <2>1
  <2>. HIDE DEF n, start, len
  <2>6. start \in 1 .. len + 1
    <3>1. s.lastCommitted <= len /\ s.lastCommitted \in Nat
      BY DEF len
    <3>. QED BY <1>1, <1>2, <1>4, <2>2, <2>4, <3>1
  <2>7. \A i \in 1 .. n : start + i - 1 <= start + n - 1
    BY <1>1, <2>2
  <2>8. \A i \in 1 .. n : entries[i].view <= v /\ entries[i].opnum <= Last(entries).opnum
    BY <1>2, <2>3, <2>5, <2>7
  <2>9. Last(entries).opnum <= start + n - 1
    BY <1>1, <2>2, <2>3, <2>5
  <2>. QED BY <1>2, <1>4, <2>3, <2>5, <2>6, <2>8, <2>9 DEF Installable, n, start, len
<1>. QED BY <1>3, <1>4

(* Messages that a replica sends, and nothing more.                          *)
LEMMA SendingKeeps ==
  ASSUME IInv, NEW r \in Indices, NEW out,
         \A m \in out : MessageOK(m) /\ MessageHolds(replica, m),
         Step(r, Went(replica[r], out))
  PROVE  Preserved
<1>. DEFINE s == replica[r]
            x == Went(s, out)
<1>1. /\ StateOK(r, s) /\ After(r, s) = replica
      /\ s.pendingSync # 0 => Led(replica, s.view, s.pendingSync)
      /\ s.view \in Nat /\ s.lastCommitted \in Nat /\ Len(s.log) \in Nat
  BY Known
<1>2. x.s = s /\ x.out = out
  BY DEF Went
<1>. HIDE DEF x
<1>3. GoesTo(s, s)
  <2>. HIDE DEF s
  <2>. QED BY <1>1 DEF GoesTo, Extends
<1>4. Handled(r, x)
  BY <1>1, <1>2, <1>3 DEF Handled
<1>. QED BY <1>4, StepKeeps DEF x

(* HandleStartView keeps the invariant.                                      *)
LEMMA HandleStartViewKeeps ==
  ASSUME IInv, NEW r \in Indices, HandleStartView(r) PROVE Preserved
<1>. DEFINE s == replica[r]
<1>1. PICK m \in Received("STARTVIEW") :
        /\ r \in m.to
        /\ Joins(s, m.view)
        /\ \/ /\ LogGap(s, m.entries)
              /\ Step(r, Went(s, {FillLogGap(r, s, m.view)}))
           \/ /\ ~LogGap(s, m.entries)
              /\ LET x == InstallLog(r, s, m.entries)
                     t == CommitUpTo(x.s, m.lastCommitted)
                     v == InView(r, m.view, m.lastSpeculative)
                 IN  Step(r, EnterView(r, Went(t, x.out \cup {v}), m.view))
  BY Zenon DEF HandleStartView
<1>. DEFINE view == m.view
            entries == m.entries
            last == m.lastSpeculative
<1>2. /\ s \in ReplicaState /\ s.view \in Nat
      /\ Sound(s, s.view) /\ s.lastCommitted \in Nat /\ Len(s.log) \in Nat
      /\ s.lastCommitted <= Len(s.log)
  BY Known
<1>3. /\ MessageOK(m) /\ MessageHolds(replica, m) /\ m.type = "STARTVIEW"
      /\ view \in 0 .. MaxView /\ view \in Nat
  BY MessageKnown
<1>4. /\ last \in Nat /\ m.lastCommitted \in Nat /\ m.lastCommitted <= last
      /\ entries \in Seq(SentEntry) /\ WellDumped(entries, last, view)
      /\ Led(replica, view, last)
      /\ entries = << >> => last <= s.lastCommitted
  BY <1>1, <1>3 DEF MessageOK, MessageHolds
<1>5. CASE LogGap(s, entries) /\ Step(r, Went(s, {FillLogGap(r, s, view)}))
  <2>. DEFINE ask == FillLogGap(r, s, view)
  <2>1. MessageOK(ask)
    BY <1>2, <1>3 DEF FillLogGap, MessageOK
  <2>2. Led(replica, view, 0)
    <3>1. GetLeaderIndex(view) \in Indices
      BY <1>3, LeaderIsReplica
    <3>2. Len(replica[GetLeaderIndex(view)].log) \in Nat
      BY <3>1, Known
    <3>. HIDE DEF view, last
    <3>. QED BY <1>4, <3>2 DEF Led
  <2>3. MessageHolds(replica, ask)
    <3>1. /\ ask.type = "FILLLOGGAP" /\ ask.view = view /\ ask.src = r
          /\ ask.lastCommitted = s.lastCommitted
      BY DEF FillLogGap
    <3>2. s.lastCommitted <= s.lastCommitted
      BY <1>2
    <3>. QED BY <2>2, <3>1, <3>2 DEF MessageHolds
  <2>. HIDE DEF ask
  <2>4. \A a \in {ask} : MessageOK(a) /\ MessageHolds(replica, a)
    BY <2>1, <2>3
  <2>. QED BY <1>5, <2>4, SendingKeeps DEF ask
<1>6. CASE /\ ~LogGap(s, entries)
           /\ LET x == InstallLog(r, s, entries)
                  t == CommitUpTo(x.s, m.lastCommitted)
                  v == InView(r, view, last)
              IN  Step(r, EnterView(r, Went(t, x.out \cup {v}), view))
  <2>. DEFINE x == InstallLog(r, s, entries)
              t == CommitUpTo(x.s, m.lastCommitted)
              in == InView(r, view, last)
              w == Went(t, x.out \cup {in})
              y == EnterView(r, w, view)
  <2>1. Step(r, y)
    BY <1>6
  <2>2. s.view <= view /\ ~(s.view = view /\ s.status = "NORMAL")
    <3>1. view > s.view \/ (view = s.view /\ s.status = "VIEW_CHANGE")
      BY <1>1 DEF Joins
    <3>. HIDE DEF s, view
    <3>. QED BY <1>2, <1>3, <3>1
  <2>3. Fine(s, view)
    BY <1>2, <1>3, <2>2, FineLater DEF Sound
  <2>4. /\ Installable(s, entries, view)
        /\ entries # << >> => Last(entries).opnum = last
    BY <1>2, <1>3, <1>4, <1>6, DumpInstallable
  <2>5. Installed(s, x, entries, view)
    <3>. HIDE DEF entries, s, view
    <3>. QED BY <1>2, <1>3, <2>3, <2>4, InstallLogFine
  <2>. HIDE DEF x
  <2>6. /\ Fine(x.s, view) /\ x.s.lastCommitted >= s.lastCommitted
        /\ x.s.lastCommitted <= Len(x.s.log)
        /\ entries # << >> => last <= Len(x.s.log)
        /\ \A a \in x.out : IsReply(a, view)
    BY <2>4, <2>5 DEF Installed
  <2>7. x.s.lastCommitted \in Nat /\ Len(x.s.log) \in Nat
    BY <2>6, LenProperties DEF Fine, ReplicaState
  <2>8. m.lastCommitted <= Len(x.s.log)
    <3>1. last <= Len(x.s.log)
      <4>. HIDE DEF s, entries, last
      <4>1. CASE entries = << >>
        <5>1. last <= s.lastCommitted
          BY <4>1, <1>4
        <5>. QED BY <5>1, <1>2, <1>4, <2>6, <2>7
      <4>. QED BY <4>1, <2>6
    <3>. HIDE DEF last
    <3>. QED BY <3>1, <1>4, <2>7
  <2>9. /\ Fine(t, view) /\ t.log = x.s.log
        /\ t.lastCommitted = Larger(x.s.lastCommitted, m.lastCommitted)
    <3>1. x.s \in ReplicaState
      BY <2>6 DEF Fine
    <3>2. t.lastCommitted = Larger(x.s.lastCommitted, m.lastCommitted)
      BY <3>1 DEF CommitUpTo, ReplicaState
    <3>3. Fine(t, view) /\ t.log = x.s.log
      BY <1>4, <2>6, CommitUpToFine
    <3>. QED BY <3>2, <3>3
  <2>. HIDE DEF t
  <2>10. t.lastCommitted \in Nat /\ t.lastCommitted <= Len(t.log)
         /\ s.lastCommitted <= t.lastCommitted
    BY <1>2, <1>4, <2>6, <2>7, <2>8, <2>9 DEF Larger
  <2>11. w.s = t /\ w.out = x.out \cup {in}
    BY DEF Went
  <2>. HIDE DEF w
  <2>. DEFINE e == y.s
  <2>12. /\ e \in ReplicaState /\ StateOK(r, e) /\ GoesTo(s, e)
         /\ e.view = view /\ e.pendingSync = 0
         /\ \A a \in y.out : a \in w.out \/ IsReply(a, view)
    BY <1>3, <2>2, <2>9, <2>10, <2>11, EnteredFine
  <2>. HIDE DEF y
  <2>13. MessageOK(in) /\ MessageHolds(After(r, e), in)
    <3>1. /\ in.type = "INVIEW" /\ in.view = view /\ in.lastSpeculative = last
          /\ in.src = r
      BY DEF InView
    <3>2. Led(After(r, e), view, last)
      BY <1>3, <1>4, <2>12, LedStays
    <3>. HIDE DEF in, view, last, e
    <3>. QED BY <1>3, <1>4, <3>1, <3>2 DEF MessageOK, MessageHolds
  <2>14. ASSUME NEW a \in y.out PROVE MessageOK(a) /\ MessageHolds(After(r, e), a)
    <3>1. CASE a = in
      BY <2>13, <3>1
    <3>2. CASE IsReply(a, view)
      <4>1. a.type = "SPECULATIVEREPLY" /\ a.view \in 0 .. MaxView
        BY <3>2, <1>3, SpecPaxosAssumption DEF IsReply
      <4>. QED BY <4>1 DEF MessageOK, MessageHolds
    <3>. QED BY <2>6, <2>11, <2>12, <3>1, <3>2
  <2>15. Handled(r, y)
    BY <2>12, <2>14 DEF Handled
  <2>. QED BY <2>1, <2>15, StepKeeps DEF y
<1>. QED BY <1>1, <1>5, <1>6

(* HandleInView keeps the invariant.                                         *)
LEMMA HandleInViewKeeps ==
  ASSUME IInv, NEW r \in Indices, HandleInView(r) PROVE Preserved
<1>. DEFINE o == replica[r]
<1>1. PICK m \in Received("INVIEW") :
        LET s == [o EXCEPT !.inViews = @ \cup {m.src}]
            t == CommitUpTo(s, m.lastSpeculative)
        IN  /\ m.view = s.view /\ s.status = "NORMAL"
            /\ GetLeaderIndex(m.view) = r
            /\ Step(r, Went(t, {Sync(t)})) \/ Step(r, Went(s, {}))
  BY Zenon DEF HandleInView
<1>. DEFINE s == [o EXCEPT !.inViews = @ \cup {m.src}]
            t == CommitUpTo(s, m.lastSpeculative)
<1>2. /\ o \in ReplicaState /\ o.view \in 0 .. MaxView /\ o.view \in Nat
      /\ Len(o.log) \in Nat /\ o.lastCommitted \in Nat
      /\ o.lastCommitted <= Len(o.log)
  BY Known
<1>3. /\ MessageOK(m) /\ MessageHolds(replica, m) /\ m.type = "INVIEW"
      /\ m.view \in Nat
  BY MessageKnown
<1>4. m.src \in Indices /\ m.lastSpeculative \in Nat
      /\ Led(replica, m.view, m.lastSpeculative)
  BY <1>3 DEF MessageOK, MessageHolds
<1>5. /\ s \in ReplicaState /\ s.log = o.log /\ s.clientTable = o.clientTable
      /\ s.status = o.status /\ s.view = o.view
      /\ s.doViewChanges = o.doViewChanges /\ s.needFillDVC = o.needFillDVC
      /\ s.lastCommitted = o.lastCommitted /\ s.pendingSync = o.pendingSync
  BY <1>2, <1>4 DEF ReplicaState
<1>6. /\ m.view = s.view /\ s.status = "NORMAL" /\ GetLeaderIndex(m.view) = r
      /\ Step(r, Went(t, {Sync(t)})) \/ Step(r, Went(s, {}))
  BY <1>1
<1>. HIDE DEF s
<1>7. Alike(o, s)
  BY <1>5 DEF Alike, SameButLog
<1>8. m.lastSpeculative <= Len(s.log)
  <2>1. m.view = o.view
    BY <1>5, <1>6
  <2>. HIDE DEF o
  <2>2. \/ o.view > m.view
        \/ m.lastSpeculative <= Len(o.log)
    BY <1>4, <1>6 DEF Led, o
  <2>. QED BY <1>2, <1>5, <2>1, <2>2
<1>9. CASE Step(r, Went(s, {}))
  <2>. DEFINE x == Went(s, {})
  <2>1. x.s = s /\ x.out = {}
    BY DEF Went
  <2>2. StateOK(r, s) /\ GoesTo(o, s)
    <3>1. s.lastCommitted <= s.lastCommitted /\ s.lastCommitted <= Len(s.log)
      BY <1>2, <1>5
    <3>. QED BY <1>5, <1>7, <3>1, KeepsLog
  <2>3. s.pendingSync # 0 => Led(After(r, s), s.view, s.pendingSync)
    BY <1>5, <2>2, PendingStays
  <2>. HIDE DEF x
  <2>4. Handled(r, x)
    BY <2>1, <2>2, <2>3 DEF Handled
  <2>. QED BY <1>9, <2>4, StepKeeps DEF x
<1>10. CASE Step(r, Went(t, {Sync(t)}))
  <2>. DEFINE x == Went(t, {Sync(t)})
              v == o.view
  <2>1. /\ t \in ReplicaState /\ StateOK(r, t) /\ GoesTo(o, t) /\ Sound(t, v)
        /\ t.view = v /\ t.log = o.log
        /\ t.status = o.status /\ t.pendingSync = o.pendingSync
    BY <1>4, <1>7, <1>8, CommitFine
  <2>. HIDE DEF t
  <2>2. x.s = t /\ x.out = {Sync(t)}
    BY DEF Went
  <2>3. /\ MessageOK(Sync(t)) /\ Sync(t).type = "SYNC" /\ Sync(t).view = v
        /\ Sync(t).lastSpeculative = Len(t.log)
    BY <1>2, <2>1, SyncFine
  <2>4. Led(After(r, t), v, Len(t.log))
    <3>1. Len(t.log) \in Nat /\ Len(t.log) <= Len(t.log)
      BY <1>2, <2>1
    <3>2. t.status = "NORMAL" /\ GetLeaderIndex(t.view) = r
      BY <1>5, <1>6, <2>1
    <3>. QED BY <2>1, <3>1, <3>2, LeaderLeads
  <2>. HIDE DEF x, v
  <2>5. MessageHolds(After(r, t), Sync(t))
    BY <2>3, <2>4 DEF MessageHolds
  <2>6. t.pendingSync # 0 => Led(After(r, t), t.view, t.pendingSync)
    BY <2>1, PendingStays DEF v
  <2>7. Handled(r, x)
    BY <2>1, <2>2, <2>3, <2>5, <2>6 DEF Handled
  <2>. QED BY <1>10, <2>7, StepKeeps DEF x
<1>. QED BY <1>6, <1>9, <1>10

(* HandleFillLogGap keeps the invariant.                                     *)
LEMMA HandleFillLogGapKeeps ==
  ASSUME IInv, NEW r \in Indices, HandleFillLogGap(r) PROVE Preserved
<1>. DEFINE s == replica[r]
<1>1. PICK m \in Received("FILLLOGGAP") :
        /\ m.view = s.view /\ GetLeaderIndex(m.view) = r
        /\ Step(r, Went(s, {StartView(s, m.lastCommitted, {m.src})}))
  BY DEF HandleFillLogGap
<1>2. /\ s \in ReplicaState /\ s.view \in 0 .. MaxView /\ s.view \in Nat
      /\ Sound(s, s.view) /\ Len(s.log) \in Nat /\ After(r, s) = replica
  BY Known
<1>3. /\ MessageOK(m) /\ MessageHolds(replica, m) /\ m.type = "FILLLOGGAP"
  BY MessageKnown
<1>4. /\ m.src \in Indices /\ m.lastCommitted \in Nat /\ Led(replica, m.view, 0)
      /\ m.lastCommitted <= replica[m.src].lastCommitted
  BY <1>3 DEF MessageOK, MessageHolds
<1>5. replica[m.src].lastCommitted \in Nat
  BY <1>4, Known
<1>6. s.status = "NORMAL"
  <2>1. \/ s.view > m.view
        \/ s.status = "NORMAL"
    BY <1>1, <1>4 DEF Led
  <2>. HIDE DEF s
  <2>. QED BY <1>1, <1>2, <2>1
<1>. DEFINE from == m.lastCommitted
            to   == {m.src}
            start == StartView(s, from, to)
<1>7. /\ MessageOK(start) /\ start.type = "STARTVIEW" /\ start.view = s.view
      /\ start.to = to /\ start.lastSpeculative = Len(s.log)
      /\ start.entries = << >> => Len(s.log) < Larger(from, 1)
  <2>1. to \in SUBSET Indices
    BY <1>4
  <2>. HIDE DEF to, s
  <2>. QED BY <1>2, <1>4, <2>1, StartViewFine
<1>8. Led(replica, s.view, Len(s.log))
  <2>1. Len(s.log) <= Len(s.log)
    BY <1>2
  <2>2. Led(After(r, s), s.view, Len(s.log))
    BY <1>1, <1>2, <1>6, <2>1, LeaderLeads
  <2>. QED BY <1>2, <2>2
<1>9. start.entries = << >> => Len(s.log) <= replica[m.src].lastCommitted
  <2>. HIDE DEF s, start
  <2>. QED BY <1>2, <1>4, <1>5, <1>7 DEF Larger
<1>. HIDE DEF start
<1>10. MessageHolds(replica, start)
  BY <1>7, <1>8, <1>9 DEF MessageHolds
<1>11. \A a \in {start} : MessageOK(a) /\ MessageHolds(replica, a)
  BY <1>7, <1>10
<1>. QED BY <1>1, <1>11, SendingKeeps DEF start

(* HandleFillDVCGap keeps the invariant.                                     *)
LEMMA HandleFillDVCGapKeeps ==
  ASSUME IInv, NEW r \in Indices, HandleFillDVCGap(r) PROVE Preserved
<1>. DEFINE s == replica[r]
<1>1. PICK m \in Received("FILLDVCGAP") :
        /\ m.to = r /\ m.view = s.view
        /\ Step(r, Went(s, {DoViewChange(r, s,
                              IF m.lastCommitted < s.lastCommitted
                              THEN m.lastCommitted ELSE s.lastCommitted)}))
  BY DEF HandleFillDVCGap
<1>2. /\ s.view \in 0 .. MaxView /\ s.view \in Nat /\ Sound(s, s.view)
      /\ s.lastCommitted \in Nat
  BY Known
<1>3. MessageOK(m) /\ m.type = "FILLDVCGAP"
  BY MessageKnown
<1>4. m.lastCommitted \in Nat /\ m.to # GetLeaderIndex(m.view)
  BY <1>3 DEF MessageOK
<1>. DEFINE from == IF m.lastCommitted < s.lastCommitted
                    THEN m.lastCommitted ELSE s.lastCommitted
            dvc  == DoViewChange(r, s, from)
<1>5. from \in Nat
  BY <1>2, <1>4
<1>6. dvc \in DVCMessage /\ DVCOK(dvc) /\ dvc.view = s.view /\ dvc.src = r
  <2>. HIDE DEF from, s
  <2>. QED BY <1>2, <1>5, DoViewChangeFine
<1>7. Step(r, Went(s, {dvc}))
  BY <1>1
<1>. HIDE DEF dvc
<1>8. MessageOK(dvc) /\ MessageHolds(replica, dvc)
  <2>1. dvc.type = "DOVIEWCHANGE"
    BY <1>6 DEF DVCMessage
  <2>2. r # GetLeaderIndex(s.view)
    BY <1>1, <1>4
  <2>. QED BY <1>2, <1>6, <2>1, <2>2 DEF MessageOK, MessageHolds
<1>9. \A a \in {dvc} : MessageOK(a) /\ MessageHolds(replica, a)
  BY <1>8
<1>. QED BY <1>7, <1>9, SendingKeeps

-----------------------------------------------------------------------------
(* Clients                                                                   *)

(* What the clients do leaves the replicas as they are.                      *)
LEMMA ClientsKeep ==
  ASSUME IInv, replica' = replica, invoked' \in [Clients -> 0 .. MaxReqId],
         \A m \in msgs' : \/ m \in msgs
                          \/ m.type = "REQUESTVIEWCHANGE" /\ m.view \in 0 .. MaxView
  PROVE  Preserved
<1>1. ASSUME NEW m \in msgs' PROVE MessageOK(m) /\ MessageHolds(replica, m)
  <2>1. CASE m \in msgs
    BY <2>1 DEF IInv
  <2>2. CASE m.type = "REQUESTVIEWCHANGE" /\ m.view \in 0 .. MaxView
    BY <2>2 DEF MessageOK, MessageHolds
  <2>. QED BY <2>1, <2>2
<1>2. IInv'
  BY <1>1 DEF IInv
<1>3. ASSUME NEW q \in Indices PROVE GoesTo(replica[q], replica'[q])
  <2>1. /\ replica[q].view \in Nat /\ replica[q].lastCommitted \in Nat
        /\ Len(replica[q].log) \in Nat
    BY Known
  <2>. QED BY <2>1 DEF GoesTo, Extends
<1>. QED BY <1>2, <1>3 DEF Preserved

(* Invoke keeps the invariant.                                               *)
LEMMA InvokeKeeps ==
  ASSUME IInv, NEW c \in Clients, Invoke(c) PROVE Preserved
<1>1. /\ invoked[c] < MaxReqId /\ replica' = replica /\ msgs' = msgs
      /\ invoked' = [invoked EXCEPT ![c] = @ + 1]
  BY DEF Invoke
<1>2. invoked \in [Clients -> 0 .. MaxReqId]
  BY DEF IInv
<1>3. invoked[c] + 1 \in 0 .. MaxReqId
  BY <1>1, <1>2, SpecPaxosAssumption
<1>4. invoked' \in [Clients -> 0 .. MaxReqId]
  BY <1>1, <1>2, <1>3
<1>. QED BY <1>1, <1>4, ClientsKeep

(* RequestViewChange keeps the invariant.                                    *)
LEMMA RequestViewChangeKeeps ==
  ASSUME IInv, NEW c \in Clients, RequestViewChange(c) PROVE Preserved
<1>1. PICK m \in msgs :
        msgs' = msgs \cup {[type |-> "REQUESTVIEWCHANGE", view |-> m.view]}
  BY DEF RequestViewChange, Replies, Received
<1>2. replica' = replica /\ invoked' = invoked
  BY DEF RequestViewChange
<1>3. m.view \in 0 .. MaxView
  BY DEF IInv, MessageOK
<1>4. \A a \in msgs' : \/ a \in msgs
                       \/ a.type = "REQUESTVIEWCHANGE" /\ a.view \in 0 .. MaxView
  BY <1>1, <1>3
<1>5. invoked \in [Clients -> 0 .. MaxReqId]
  BY DEF IInv
<1>. QED BY <1>2, <1>4, <1>5, ClientsKeep

-----------------------------------------------------------------------------
(* The theorems                                                              *)

(* The invariant holds at first.                                             *)
LEMMA InitFine == Init => IInv
<1>. SUFFICES ASSUME Init PROVE IInv
  OBVIOUS
<1>1. /\ replica = [r \in Indices |-> InitialReplica]
      /\ invoked = [c \in Clients |-> 0] /\ msgs = {}
  BY DEF Init
<1>2. MaxReqId \in Nat /\ MaxView \in Nat /\ 0 <= MaxView /\ 0 \in 0 .. MaxReqId
  BY SpecPaxosAssumption
<1>. DEFINE s == InitialReplica
<1>3. /\ << >> \in Seq(LogEntry) /\ << >> \in Seq(Request) /\ Len(<< >>) = 0
  OBVIOUS
<1>4. [c \in Clients |-> NoEntry] \in [Clients -> [id : 0 .. MaxReqId, op : Nat]]
  BY <1>2 DEF NoEntry
<1>5. /\ s.log = << >> /\ s.view = 0 /\ s.lastCommitted = 0 /\ s.pendingSync = 0
      /\ s.doViewChanges = {}
      /\ s.clientTable = [c \in Clients |-> NoEntry]
  BY DEF InitialReplica
<1>6. s \in ReplicaState
  BY <1>3, <1>4 DEF InitialReplica, ReplicaState
<1>. HIDE DEF s
<1>7. LogOK(s, s.view)
  BY <1>3, <1>5 DEF LogOK
<1>8. TableOK(s)
  BY <1>3, <1>5 DEF TableOK, NoEntry
<1>9. \A r \in Indices : KeptOK(r, s)
  BY <1>5, FS_EmptySet DEF KeptOK
<1>10. \A r \in Indices : StateOK(r, s)
  BY <1>2, <1>3, <1>5, <1>6, <1>7, <1>8, <1>9 DEF StateOK
<1>11. \A r \in Indices : replica[r] = s
  BY <1>1 DEF s
<1>12. replica \in [Indices -> ReplicaState]
  BY <1>1, <1>6 DEF s
<1>13. invoked \in [Clients -> 0 .. MaxReqId]
  BY <1>1, <1>2
<1>14. \A r \in Indices : StateOK(r, replica[r]) /\ PendingHolds(replica, r)
  BY <1>5, <1>10, <1>11 DEF PendingHolds
<1>. QED BY <1>1, <1>12, <1>13, <1>14 DEF IInv

(* Every step keeps the invariant and goes where a step may go.              *)
LEMMA NextKeeps ==
  ASSUME IInv, [Next]_vars PROVE Preserved
<1>1. ASSUME NEW c \in Clients, Invoke(c) PROVE Preserved
  BY <1>1, InvokeKeeps
<1>2. ASSUME NEW c \in Clients, RequestViewChange(c) PROVE Preserved
  BY <1>2, RequestViewChangeKeeps
<1>3. ASSUME NEW r \in Indices, HandleRequest(r) PROVE Preserved
  BY <1>3, HandleRequestKeeps
<1>4. ASSUME NEW r \in Indices, SendSync(r) PROVE Preserved
  BY <1>4, SendSyncKeeps
<1>5. ASSUME NEW r \in Indices, HandleSync(r) PROVE Preserved
  BY <1>5, HandleSyncKeeps
<1>6. ASSUME NEW r \in Indices, HandleSyncReply(r) PROVE Preserved
  BY <1>6, HandleSyncReplyKeeps
<1>7. ASSUME NEW r \in Indices, ViewChangeTimeout(r) PROVE Preserved
  BY <1>7, ViewChangeTimeoutKeeps
<1>8. ASSUME NEW r \in Indices, HandleRequestViewChange(r) PROVE Preserved
  BY <1>8, HandleRequestViewChangeKeeps
<1>9. ASSUME NEW r \in Indices, HandleStartViewChange(r) PROVE Preserved
  BY <1>9, HandleStartViewChangeKeeps
<1>10. ASSUME NEW r \in Indices, HandleDoViewChange(r) PROVE Preserved
  BY <1>10, HandleDoViewChangeKeeps
<1>11. ASSUME NEW r \in Indices, HandleStartView(r) PROVE Preserved
  BY <1>11, HandleStartViewKeeps
<1>12. ASSUME NEW r \in Indices, HandleInView(r) PROVE Preserved
  BY <1>12, HandleInViewKeeps
<1>13. ASSUME NEW r \in Indices, HandleFillLogGap(r) PROVE Preserved
  BY <1>13, HandleFillLogGapKeeps
<1>14. ASSUME NEW r \in Indices, HandleFillDVCGap(r) PROVE Preserved
  BY <1>14, HandleFillDVCGapKeeps
<1>15. CASE UNCHANGED vars
  <2>1. replica' = replica /\ invoked' = invoked /\ msgs' = msgs
    BY <1>15 DEF vars
  <2>2. invoked \in [Clients -> 0 .. MaxReqId]
    BY DEF IInv
  <2>. QED BY <2>1, <2>2, ClientsKeep
<1>. QED BY <1>1, <1>2, <1>3, <1>4, <1>5, <1>6, <1>7, <1>8, <1>9, <1>10, <1>11,
            <1>12, <1>13, <1>14, <1>15 DEF Next

(* The inductive invariant is one: every handler, whatever message comes and *)
(* however late, keeps the logs, the client tables and what the messages say *)
(* of their leaders.                                                          *)
THEOREM Invariance == Spec => []IInv
<1>1. Init => IInv
  BY InitFine
<1>2. IInv /\ [Next]_vars => IInv'
  BY NextKeeps DEF Preserved
<1>. QED BY <1>1, <1>2, PTL DEF Spec

(* The types follow.                                                         *)
LEMMA TypesFollow == ASSUME IInv PROVE TypeOK
<1>1. invoked \in [Clients -> 0 .. MaxReqId]
  BY DEF IInv
<1>2. \A m \in msgs : m.view \in 0 .. MaxView
  BY DEF IInv, MessageOK
<1>3. ASSUME NEW r \in Indices
      PROVE  LET s == replica[r] IN
       /\ DOMAIN s = DOMAIN InitialReplica
       /\ s.status \in {"NORMAL", "VIEW_CHANGE"}
       /\ s.view \in 0 .. MaxView
       /\ \A i \in DOMAIN s.log :
            /\ s.log[i].view \in 0 .. s.view
            /\ s.log[i].request \in Request
            /\ s.log[i].prev \in 0 .. i - 1
       /\ s.lastCommitted \in 0 .. lastSpeculative(s)
       /\ \A c \in Clients : /\ s.clientTable[c].op \in DOMAIN s.log \cup {0}
                             /\ s.clientTable[c].id \in 0 .. MaxReqId
       /\ s.clientAddresses \subseteq Clients
       /\ ToSet(s.pendingRequests) \subseteq Request
  <2>. DEFINE s == replica[r]
              n == Len(s.log)
  <2>1. /\ s \in ReplicaState /\ StateOK(r, s) /\ s.view \in 0 .. MaxView
        /\ s.view \in Nat /\ s.lastCommitted \in Nat /\ n \in Nat
        /\ s.lastCommitted <= n /\ s.log \in Seq(LogEntry)
    BY Known
  <2>. HIDE DEF s
  <2>2. DOMAIN s.log = 1 .. n /\ n \in Nat
    BY <2>1
  <2>3. DOMAIN s = DOMAIN InitialReplica
    BY <2>1 DEF ReplicaState, InitialReplica
  <2>4. ASSUME NEW i \in 1 .. n
        PROVE  /\ s.log[i].view \in 0 .. s.view
               /\ s.log[i].request \in Request
               /\ s.log[i].prev \in 0 .. i - 1
    <3>1. s.log[i] \in LogEntry
      BY <2>1, ElementOfSeq
    <3>2. LogOK(s, s.view)
      BY <2>1 DEF StateOK
    <3>3. s.log[i].view <= s.view /\ s.log[i].prev < i
      BY <3>2 DEF LogOK
    <3>. QED BY <2>1, <3>1, <3>3 DEF LogEntry
  <2>5. s.lastCommitted \in 0 .. n
    BY <2>1
  <2>6. ASSUME NEW c \in Clients
        PROVE  /\ s.clientTable[c].op \in (1 .. n) \cup {0}
               /\ s.clientTable[c].id \in 0 .. MaxReqId
    <3>1. s.clientTable[c] \in [id : 0 .. MaxReqId, op : Nat]
      BY <2>1 DEF ReplicaState
    <3>2. s.clientTable[c].op <= n
      BY <2>1 DEF StateOK, TableOK
    <3>. QED BY <2>2, <3>1, <3>2
  <2>7. s.status \in {"NORMAL", "VIEW_CHANGE"} /\ s.clientAddresses \subseteq Clients
    BY <2>1 DEF ReplicaState
  <2>8. ToSet(s.pendingRequests) \subseteq Request
    <3>1. s.pendingRequests \in Seq(Request)
      BY <2>1 DEF ReplicaState
    <3>. QED BY <3>1 DEF ToSet
  <2>. QED BY <2>1, <2>2, <2>3, <2>4, <2>5, <2>6, <2>7, <2>8 DEF s, lastSpeculative
<1>. QED BY <1>1, <1>2, <1>3 DEF TypeOK

(* Type correctness: views, logs, opnums and client tables stay what they    *)
(* are, and no replica commits what is not in its log.                        *)
THEOREM TypeCorrect == Spec => []TypeOK
BY Invariance, TypesFollow, PTL

(* No message makes its leader panic.                                        *)
LEMMA NoPanicFollows == ASSUME IInv PROVE NoPanic
<1>. SUFFICES ASSUME NEW r \in Indices
              PROVE  LET s == replica[r] IN
                /\ \A m \in Received("SYNCREPLY") :
                     GetLeaderIndex(m.view) = r /\ s.status = "NORMAL" =>
                       /\ m.view <= s.view
                       /\ m.view = s.view => m.lastSpeculative <= lastSpeculative(s)
                /\ \A m \in Received("INVIEW") :
                     GetLeaderIndex(m.view) = r =>
                       /\ m.view <= s.view
                       /\ m.view = s.view => /\ s.status = "NORMAL"
                                             /\ m.lastSpeculative <= lastSpeculative(s)
  BY Zenon DEF NoPanic
<1>. DEFINE s == replica[r]
<1>1. s.view \in Nat
  BY Known
<1>2. ASSUME NEW m \in msgs, m.type \in {"SYNCREPLY", "INVIEW"},
             GetLeaderIndex(m.view) = r
      PROVE  /\ m.view <= s.view
             /\ m.view = s.view => /\ s.status = "NORMAL"
                                   /\ m.lastSpeculative <= Len(s.log)
  <2>1. MessageOK(m) /\ MessageHolds(replica, m)
    BY DEF IInv
  <2>2. m.view \in Nat
    <3>1. m.view \in 0 .. MaxView
      BY <2>1 DEF MessageOK
    <3>. QED BY <3>1, SpecPaxosAssumption
  <2>3. Led(replica, m.view, m.lastSpeculative)
    BY <1>2, <2>1 DEF MessageHolds
  <2>4. \/ s.view > m.view
        \/ s.view = m.view /\ s.status = "NORMAL" /\ m.lastSpeculative <= Len(s.log)
    BY <1>2, <2>3 DEF Led
  <2>. HIDE DEF s
  <2>. QED BY <1>1, <2>2, <2>4
<1>3. \A type : \A m \in Received(type) : m \in msgs /\ m.type = type
  BY DEF Received
<1>. HIDE DEF s
<1>4. \A m \in Received("SYNCREPLY") : GetLeaderIndex(m.view) = r =>
        /\ m.view <= s.view
        /\ m.view = s.view => m.lastSpeculative <= lastSpeculative(s)
  BY <1>2, <1>3 DEF lastSpeculative
<1>5. \A m \in Received("INVIEW") : GetLeaderIndex(m.view) = r =>
        /\ m.view <= s.view
        /\ m.view = s.view => /\ s.status = "NORMAL"
                              /\ m.lastSpeculative <= lastSpeculative(s)
  BY <1>2, <1>3 DEF lastSpeculative
<1>. QED BY <1>4, <1>5 DEF s

(* A SYNCREPLY or an INVIEW never reaches its leader ahead of the view, and   *)
(* never speaks of more than the leader's log has: the code's Panic calls    *)
(* are not reached, and nothing is committed that the leader has not got.    *)
THEOREM NoPanicTheorem == Spec => []NoPanic
BY Invariance, NoPanicFollows, PTL

(* Where a handler may go is ahead.                                          *)
LEMMA GoingAdvances ==
  ASSUME NEW s \in ReplicaState, NEW t \in ReplicaState, GoesTo(s, t)
  PROVE  Advances(s, t)
<1>1. s.view <= t.view /\ s.lastCommitted <= t.lastCommitted
  BY DEF GoesTo
<1>2. ASSUME s.view = t.view, s.status = "NORMAL"
      PROVE  t.status = "NORMAL" /\ IsPrefix(s.log, t.log)
  <2>1. t.status = "NORMAL" /\ Extends(s, t)
    BY <1>2 DEF GoesTo
  <2>2. s.log \in Seq(LogEntry) /\ t.log \in Seq(LogEntry)
    BY DEF ReplicaState
  <2>. DEFINE a == s.log
              b == t.log
              n == Len(a)
  <2>3. n <= Len(b) /\ (\A i \in 1 .. n : b[i] = a[i])
    BY <2>1 DEF Extends
  <2>. HIDE DEF a, b
  <2>4. a \in Seq(LogEntry) /\ b \in Seq(LogEntry) /\ n \in Nat /\ Len(b) \in Nat
    BY <2>2 DEF a, b
  <2>5. n \in 0 .. Len(a) /\ n \in 0 .. Len(b)
    BY <2>3, <2>4
  <2>. HIDE DEF n
  <2>6. /\ SubSeq(a, 1, n) \in Seq(LogEntry) /\ Len(SubSeq(a, 1, n)) = n
        /\ \A i \in 1 .. n : SubSeq(a, 1, n)[i] = a[i]
    BY <2>4, <2>5, Beginning
  <2>7. /\ SubSeq(b, 1, n) \in Seq(LogEntry) /\ Len(SubSeq(b, 1, n)) = n
        /\ \A i \in 1 .. n : SubSeq(b, 1, n)[i] = b[i]
    BY <2>4, <2>5, Beginning
  <2>8. SubSeq(a, 1, n) = SubSeq(b, 1, n)
    <3>. DEFINE p == SubSeq(a, 1, n)
                q == SubSeq(b, 1, n)
    <3>1. \A i \in 1 .. n : p[i] = q[i]
      BY <2>3, <2>6, <2>7
    <3>2. p \in Seq(LogEntry) /\ q \in Seq(LogEntry) /\ Len(p) = n /\ Len(q) = n
      BY <2>6, <2>7
    <3>. HIDE DEF p, q
    <3>3. p = q
      BY <3>1, <3>2, SeqEqual
    <3>. QED BY <3>3 DEF p, q
  <2>9. IsPrefix(a, b)
    BY <2>3, <2>8 DEF IsPrefix, n
  <2>. QED BY <2>1, <2>9 DEF a, b
<1>. QED BY <1>1, <1>2 DEF Advances

(* No commit is ever taken back, views only grow, and in a view it has       *)
(* entered a replica's log only grows, whatever it is sent.                   *)
THEOREM LogsAdvanceTheorem == Spec => LogsAdvance
<1>1. IInv /\ IInv' /\ [Next]_vars =>
        [\A r \in Indices : Advances(replica[r], replica'[r])]_vars
  <2>. SUFFICES ASSUME IInv, IInv', [Next]_vars, NEW r \in Indices
                PROVE  Advances(replica[r], replica'[r])
    OBVIOUS
  <2>1. GoesTo(replica[r], replica'[r])
    BY NextKeeps DEF Preserved
  <2>2. replica[r] \in ReplicaState /\ replica'[r] \in ReplicaState
    BY DEF IInv
  <2>. QED BY <2>1, <2>2, GoingAdvances
<1>. QED BY <1>1, Invariance, PTL DEF Spec, LogsAdvance

=============================================================================
