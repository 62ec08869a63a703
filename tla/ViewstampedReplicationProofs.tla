-------------------- MODULE ViewstampedReplicationProofs --------------------
(***************************************************************************)
(* Proofs about ViewstampedReplication, for any number of replicas, clients, *)
(* requests and restarts, batches of any size and every behaviour of the     *)
(* network.  In its first view the replicas have parts of one log, execute   *)
(* what is in it in its order, and keep what they have acknowledged.  In all *)
(* views, as long as the logs are in order (the assertion of Log::Find), the *)
(* state has its types, and a viewstamp names one request until a replica    *)
(* transfers its state or restarts.                                          *)
(***************************************************************************)
EXTENDS ViewstampedReplication, NaturalFacts, SequenceTheorems

-----------------------------------------------------------------------------
(* The inductive invariant                                                   *)

(* No replica has given up on the first view, and no replica has lost its    *)
(* state unless none has asked for a state transfer: nothing in a            *)
(* STATETRANSFER says which life of the replica asked for it, and what comes *)
(* after a restart leaves a gap in the log.                                    *)
FirstView ==
  /\ Received("STARTVIEWCHANGE") = {}
  /\ Received("RECOVERY") = {} \/ Received("REQUESTSTATETRANSFER") = {}

First == GetLeaderIndex(0)

LogEntry == [view : Nat, opnum : Nat, request : Request]

ClientEntry == [id : 0 .. MaxReqId, replied : BOOLEAN, opnum : Nat]

ResponseMessage ==
  [type : {"RECOVERYRESPONSE"}, view : {0}, src : Indices, to : Indices,
   nonce : Indices \X Nat, lastOp : Nat, lastCommitted : Nat,
   entries : Seq(LogEntry)]

ReplicaState ==
  [status : {"NORMAL", "RECOVERING"}, view : {0}, log : Seq(LogEntry),
   lastOp : Nat, executed : Seq(Request),
   clientTable : [Clients -> ClientEntry], clientAddresses : SUBSET Clients,
   lastBatchEnd : Nat, batchComplete : BOOLEAN, closeBatch : BOOLEAN,
   prepareOKs : SUBSET [opnum : Nat, src : Indices],
   startViewChanges : {{}}, doViewChanges : {{}},
   recoveryResponses : SUBSET ResponseMessage]

(* The log of the view: all its leader has ever ordered, each client's       *)
(* requests once and in their order.                                          *)
IsMaster(q) ==
  /\ q \in Seq(LogEntry)
  /\ \A i \in 1 .. Len(q) : q[i].view = 0 /\ q[i].opnum = i
  /\ \A i, j \in 1 .. Len(q) :
       i < j /\ q[i].request.client = q[j].request.client =>
         q[i].request.id < q[j].request.id

Within(log, q) ==
  Len(log) <= Len(q) /\ \A i \in 1 .. Len(log) : log[i] = q[i]

(* A reply that is kept is that of the request at its opnum.                 *)
TableHolds(q, table) ==
  \A c \in Clients : table[c].replied /\ table[c].opnum # 0 =>
    /\ table[c].opnum <= Len(q)
    /\ q[table[c].opnum].request = [client |-> c, id |-> table[c].id]

(* Until it restarts, the leader has all of the log, and its client table    *)
(* lets no request of the log in again.                                       *)
Leads(q, s) ==
  /\ s.log = q
  /\ \A i \in 1 .. Len(q) :
       q[i].request.id <= s.clientTable[q[i].request.client].id

(* What a replica keeps is of the view's log.                                *)
ReplicaHolds(q, r, s) ==
  /\ s \in ReplicaState
  /\ Within(s.log, q) /\ s.lastOp = Len(s.log)
  /\ Len(s.executed) <= Len(s.log)
  /\ \A i \in 1 .. Len(s.executed) : s.executed[i] = q[i].request
  /\ s.lastBatchEnd <= s.lastOp
  /\ IsFiniteSet(s.prepareOKs)
  /\ TableHolds(q, s.clientTable)
  /\ r = First /\ s.status = "NORMAL" => Leads(q, s)
  /\ s.status = "RECOVERING" => s.log = << >>

(* What is kept of a recovery is of the last one.                            *)
ResponsesHold(r, s, rst, ms) ==
  \A m \in s.recoveryResponses :
    m \in ms /\ m.to = r /\ m.nonce = <<r, rst[r]>>

(* Entries that follow each other in the view's log.                         *)
Segment(entries, q) ==
  /\ entries \in Seq(LogEntry)
  /\ \A i \in 1 .. Len(entries) :
       /\ entries[i].opnum = entries[1].opnum + i - 1
       /\ entries[i].opnum \in 1 .. Len(q)
       /\ entries[i] = q[entries[i].opnum]

MessageHolds(q, rep, rst, m) ==
  /\ m.type \notin {"DOVIEWCHANGE", "STARTVIEW"}
  /\ m.type = "PREPARE" =>
       /\ m.view = 0 /\ m.opnum \in 0 .. Len(q) /\ m.batchStart \in Nat \ {0}
       /\ \A k \in m.batchStart .. m.opnum : RequestAt(m, k) = q[k].request
  /\ m.type = "PREPAREOK" =>
       /\ m.view = 0 /\ m.src \in Indices /\ m.opnum \in 0 .. Len(q)
       /\ rep[m.src].status = "NORMAL" => m.opnum <= rep[m.src].lastOp
  /\ m.type = "COMMIT" => m.view = 0 /\ m.opnum \in 0 .. Len(q)
  /\ m.type = "REPLY" =>
       /\ m.opnum \in 0 .. Len(q)
       /\ m.opnum # 0 => q[m.opnum].request = m.request
  /\ m.type = "REQUESTSTATETRANSFER" =>
       /\ m.view = 0 /\ m.src \in Indices \ {First}
       /\ m.opnum \in 0 .. Len(rep[m.src].log)
  /\ m.type = "STATETRANSFER" =>
       /\ m.view = 0 /\ m.to \in Indices \ {First} /\ m.opnum \in Nat
       /\ Segment(m.entries, q)
       /\ m.entries # << >> => m.entries[1].opnum <= Len(rep[m.to].log) + 1
  /\ m.type = "RECOVERY" =>
       /\ m.src \in Indices /\ m.nonce \in Indices \X Nat
       /\ m.nonce[1] = m.src /\ m.nonce[2] <= rst[m.src]
  /\ m.type = "RECOVERYRESPONSE" =>
       /\ m \in ResponseMessage
       /\ m.src # m.to /\ m.nonce[1] = m.to /\ m.nonce[2] <= rst[m.to]
       /\ m.src = First => /\ Within(m.entries, q) /\ m.lastOp = Len(m.entries)
                           /\ m.lastCommitted <= m.lastOp

(* The leader's answer to a recovery that goes on has all that the replica   *)
(* has acknowledged.                                                          *)
Covered(rep, rst, ms) ==
  \A m \in {n \in ms : n.type = "RECOVERYRESPONSE" /\ n.src = First} :
    rep[m.to].status = "RECOVERING" /\ m.nonce = <<m.to, rst[m.to]>> =>
      \A a \in ms : a.type = "PREPAREOK" /\ a.src = m.to => a.opnum <= m.lastOp

Holds(q, rep, rst, ms) ==
  /\ IsMaster(q)
  /\ rep \in [Indices -> ReplicaState] /\ rst \in [Indices -> Nat]
  /\ \A r \in Indices : ReplicaHolds(q, r, rep[r]) /\ ResponsesHold(r, rep[r], rst, ms)
  /\ \A m \in ms : MessageHolds(q, rep, rst, m)
  /\ Covered(rep, rst, ms)
  /\ \A r \in Indices : rep[r].status = "RECOVERING" =>
       \E m \in ms : m.type = "RECOVERY"
  /\ \A m \in ms : m.type = "STATETRANSFER" =>
       \E a \in ms : a.type = "REQUESTSTATETRANSFER"

LogHolds == \E q : Holds(q, replica, restarts, msgs)

IInv ==
  /\ invoked \in [Clients -> 0 .. MaxReqId]
  /\ FirstView => LogHolds

-----------------------------------------------------------------------------
(* Sequences and numbers                                                     *)

(* Appending keeps what was there.                                           *)
LEMMA Appending ==
  ASSUME NEW S, NEW q \in Seq(S), NEW e \in S
  PROVE  /\ Append(q, e) \in Seq(S)
         /\ Len(Append(q, e)) = Len(q) + 1
         /\ \A i \in 1 .. Len(q) : Append(q, e)[i] = q[i]
         /\ Append(q, e)[Len(q) + 1] = e
BY AppendProperties

(* A part of a sequence.                                                     *)
LEMMA Part ==
  ASSUME NEW S, NEW q \in Seq(S), NEW a \in 1 .. Len(q) + 1
  PROVE  /\ SubSeq(q, a, Len(q)) \in Seq(S)
         /\ Len(SubSeq(q, a, Len(q))) = Len(q) - a + 1
         /\ \A i \in 1 .. Len(q) - a + 1 : SubSeq(q, a, Len(q))[i] = q[a + i - 1]
<1>1. Len(q) \in Nat
  OBVIOUS
<1>2. \A i \in a .. Len(q) : q[i] \in S
  BY <1>1, ElementOfSeq
<1>. QED BY <1>1, <1>2, SubSeqProperties

(* The opnums from one to another.                                           *)
LEMMA OpnumsAre ==
  ASSUME NEW low \in Nat, NEW high \in Nat
  PROVE  /\ Opnums(low, high) \in Seq(Nat)
         /\ Len(Opnums(low, high)) \in Nat
         /\ Len(Opnums(low, high)) = IF low <= high THEN high - low + 1 ELSE 0
         /\ \A i \in 1 .. Len(Opnums(low, high)) :
              Opnums(low, high)[i] = low + i - 1
<1>. DEFINE n == Larger(high - low + 1, 0)
<1>1. n \in Nat /\ n = IF low <= high THEN high - low + 1 ELSE 0
  BY DEF Larger
<1>2. Opnums(low, high) = [i \in 1 .. n |-> low + i - 1]
  BY DEF Opnums
<1>. HIDE DEF n
<1>3. \A i \in 1 .. n : low + i - 1 \in Nat
  BY <1>1
<1>4. [i \in 1 .. n |-> low + i - 1] \in Seq(Nat)
  BY <1>1, <1>3
<1>. QED BY <1>1, <1>2, <1>4

-----------------------------------------------------------------------------
(* Parts of the log                                                          *)

(* The last viewstamp of a log says how long it is.                          *)
LEMMA LastOpnum ==
  ASSUME NEW q, IsMaster(q), NEW log \in Seq(LogEntry), Within(log, q)
  PROVE  LastViewstamp(log).opnum = Len(log)
<1>1. Len(log) \in Nat /\ Len(q) \in Nat
  BY DEF IsMaster
<1>2. CASE log = << >>
  BY <1>2 DEF LastViewstamp
<1>3. CASE log # << >>
  <2>1. Len(log) \in 1 .. Len(log) /\ Len(log) \in 1 .. Len(q)
    BY <1>1, <1>3 DEF Within
  <2>2. log[Len(log)].opnum = Len(log)
    BY <2>1 DEF Within, IsMaster
  <2>. QED BY <1>3, <2>2 DEF LastViewstamp, Last
<1>. QED BY <1>2, <1>3

(* What is dumped of a log follows each other, from where it was asked for.  *)
LEMMA DumpFine ==
  ASSUME NEW q, IsMaster(q), NEW log \in Seq(LogEntry), Within(log, q),
         NEW from \in Nat, from <= Len(log) + 1
  PROVE  /\ Segment(Dump(log, from), q)
         /\ Dump(log, from) # << >> =>
              Dump(log, from)[1].opnum = Larger(from, 1)
         /\ from = 0 => /\ Within(Dump(log, from), q)
                        /\ Len(Dump(log, from)) = Len(log)
<1>. DEFINE n == Len(log)
            a == Larger(from, 1)
            d == Dump(log, from)
<1>1. n \in Nat /\ Len(q) \in Nat /\ n <= Len(q)
  BY DEF IsMaster, Within
<1>2. a \in 1 .. n + 1 /\ (from = 0 => a = 1)
  BY <1>1 DEF Larger
<1>3. d = SubSeq(log, a, n)
  BY LastOpnum DEF Dump
<1>. HIDE DEF a, d
<1>4. /\ d \in Seq(LogEntry) /\ Len(d) = n - a + 1
      /\ \A i \in 1 .. n - a + 1 : d[i] = log[a + i - 1]
  BY <1>2, <1>3, Part
<1>. HIDE DEF n
<1>5. ASSUME NEW i \in 1 .. Len(d)
      PROVE  d[i].opnum = a + i - 1 /\ a + i - 1 \in 1 .. Len(q) /\ d[i] = q[a + i - 1]
  <2>1. i \in 1 .. n - a + 1 /\ a + i - 1 \in 1 .. n /\ a + i - 1 \in 1 .. Len(q)
    BY <1>1, <1>2, <1>4
  <2>2. d[i] = log[a + i - 1] /\ log[a + i - 1] = q[a + i - 1]
    BY <1>4, <2>1 DEF Within, n
  <2>3. q[a + i - 1].opnum = a + i - 1
    BY <2>1 DEF IsMaster
  <2>. QED BY <2>1, <2>2, <2>3
<1>6. Len(d) \in Nat /\ (d # << >> => 1 \in 1 .. Len(d))
  BY <1>4
<1>7. d # << >> => d[1].opnum = a
  BY <1>2, <1>1, <1>5, <1>6
<1>8. Segment(d, q)
  <2>. SUFFICES ASSUME NEW i \in 1 .. Len(d)
                PROVE  /\ d[i].opnum = d[1].opnum + i - 1
                       /\ d[i].opnum \in 1 .. Len(q)
                       /\ d[i] = q[d[i].opnum]
    BY <1>4 DEF Segment
  <2>1. d # << >>
    BY <1>4
  <2>. QED BY <1>1, <1>2, <1>5, <1>7, <2>1
<1>9. from = 0 => Within(d, q) /\ Len(d) = n
  <2>. SUFFICES ASSUME from = 0 PROVE Within(d, q) /\ Len(d) = n
    OBVIOUS
  <2>1. a = 1 /\ Len(d) = n
    BY <1>1, <1>2, <1>4
  <2>2. \A i \in 1 .. Len(d) : d[i] = q[i]
    BY <1>5, <2>1, <1>1
  <2>. QED BY <1>1, <2>1, <2>2 DEF Within
<1>. QED BY <1>7, <1>8, <1>9 DEF a, d, n

(* A part of the log stays one while the log grows.                          *)
LEMMA WithinTransitive ==
  ASSUME NEW log, NEW q, NEW p, Len(log) \in Nat, Len(q) \in Nat, Len(p) \in Nat,
         Within(log, q), Within(q, p)
  PROVE  Within(log, p)
<1>1. Len(log) <= Len(p)
  BY DEF Within
<1>2. ASSUME NEW i \in 1 .. Len(log) PROVE log[i] = p[i]
  <2>1. i \in 1 .. Len(q)
    BY DEF Within
  <2>. QED BY <2>1 DEF Within
<1>. QED BY <1>1, <1>2 DEF Within

-----------------------------------------------------------------------------
(* Execution                                                                 *)

(* What execution and acknowledging leave as it is.                          *)
Alike(s, t) ==
  /\ t.status = s.status /\ t.log = s.log /\ t.lastOp = s.lastOp
  /\ t.recoveryResponses = s.recoveryResponses /\ t.prepareOKs = s.prepareOKs
  /\ t.view = s.view

IsReply(q, m) ==
  /\ m.type = "REPLY" /\ m.opnum \in 0 .. Len(q)
  /\ m.opnum # 0 => q[m.opnum].request = m.request

Executed(q, r, x, y) ==
  /\ ReplicaHolds(q, r, y.s) /\ Alike(x.s, y.s)
  /\ \A m \in y.out : m \in x.out \/ IsReply(q, m)

ExecutedTo(q, r, x, y, opnum) ==
  Executed(q, r, x, y) /\ Len(y.s.executed) = opnum

(* A state with another client table.                                        *)
LEMMA TableChanges ==
  ASSUME NEW q, NEW r, NEW s, ReplicaHolds(q, r, s), NEW c \in Clients,
         NEW e \in ClientEntry,
         e.replied /\ e.opnum # 0 =>
           e.opnum <= Len(q) /\ q[e.opnum].request = [client |-> c, id |-> e.id],
         r = First /\ s.status = "NORMAL" => s.clientTable[c].id <= e.id
  PROVE  ReplicaHolds(q, r, [s EXCEPT !.clientTable = [@ EXCEPT ![c] = e]])
<1>. DEFINE table == [s.clientTable EXCEPT ![c] = e]
            t == [s EXCEPT !.clientTable = table]
<1>1. s \in ReplicaState /\ s.clientTable \in [Clients -> ClientEntry]
  BY DEF ReplicaHolds, ReplicaState
<1>2. table \in [Clients -> ClientEntry]
  BY <1>1
<1>3. \A d \in Clients : table[d] = IF d = c THEN e ELSE s.clientTable[d]
  BY <1>1
<1>. HIDE DEF table
<1>4. /\ t \in ReplicaState /\ t.status = s.status /\ t.log = s.log
      /\ t.lastOp = s.lastOp /\ t.executed = s.executed
      /\ t.lastBatchEnd = s.lastBatchEnd /\ t.prepareOKs = s.prepareOKs
      /\ t.clientTable = table
  BY <1>1, <1>2 DEF ReplicaState
<1>. HIDE DEF t
<1>5. TableHolds(q, table)
  <2>1. TableHolds(q, s.clientTable)
    BY DEF ReplicaHolds
  <2>. QED BY <1>3, <2>1 DEF TableHolds
<1>6. ASSUME r = First, t.status = "NORMAL" PROVE Leads(q, t)
  <2>1. Leads(q, s) /\ s.clientTable[c].id <= e.id
    BY <1>4, <1>6 DEF ReplicaHolds
  <2>2. ASSUME NEW i \in 1 .. Len(q)
        PROVE  q[i].request.id <= table[q[i].request.client].id
    <3>. DEFINE d == q[i].request.client
    <3>1. q[i].request.id <= s.clientTable[d].id
      BY <2>1 DEF Leads
    <3>2. q[i] \in LogEntry /\ q[i].request \in Request
      <4>1. q \in Seq(LogEntry)
        BY <1>1, <2>1 DEF Leads, ReplicaState
      <4>2. q[i] \in LogEntry
        <5>. HIDE DEF d
        <5>. QED BY <4>1, ElementOfSeq
      <4>. QED BY <4>2 DEF LogEntry
    <3>3. d \in Clients /\ q[i].request.id \in Nat
      BY <3>2 DEF Request
    <3>4. s.clientTable[d].id \in Nat /\ e.id \in Nat
      BY <1>1, <3>3 DEF ClientEntry
    <3>5. CASE d = c
      <4>1. table[d] = e
        BY <1>3, <3>3, <3>5
      <4>2. q[i].request.id <= e.id
        <5>. HIDE DEF d
        <5>. QED BY <2>1, <3>1, <3>3, <3>4, <3>5
      <4>. QED BY <4>1, <4>2
    <3>6. CASE d # c
      BY <1>3, <3>1, <3>3, <3>6
    <3>. QED BY <3>5, <3>6
  <2>. QED BY <1>4, <2>1, <2>2 DEF Leads
<1>7. ReplicaHolds(q, r, t)
  BY <1>4, <1>5, <1>6 DEF ReplicaHolds
<1>. QED BY <1>7 DEF t, table

(* Executing the next entry of the log keeps a part of it executed.          *)
LEMMA ExecuteFine ==
  ASSUME NEW q, IsMaster(q), NEW r, NEW x, ReplicaHolds(q, r, x.s),
         NEW opnum, opnum = Len(x.s.executed) + 1, opnum <= Len(x.s.log)
  PROVE  ExecutedTo(q, r, x, Execute(x, opnum), opnum)
<1>. DEFINE s == x.s
            request == s.log[opnum].request
            c == request.client
            e == IF s.clientTable[c].id > request.id THEN s.clientTable[c]
                 ELSE [id |-> request.id, replied |-> TRUE, opnum |-> opnum]
            done == Append(s.executed, request)
            t == [s EXCEPT !.executed = done]
            u == [t EXCEPT !.clientTable = [@ EXCEPT ![c] = e]]
            y == Execute(x, opnum)
<1>1. s \in ReplicaState /\ s.log \in Seq(LogEntry) /\ s.executed \in Seq(Request)
  BY DEF ReplicaHolds, ReplicaState
<1>2. /\ Len(s.log) \in Nat /\ Len(s.executed) \in Nat /\ Len(q) \in Nat
      /\ opnum \in 1 .. Len(s.log) /\ opnum \in 1 .. Len(q) /\ opnum \in Nat
  BY <1>1 DEF ReplicaHolds, Within, IsMaster
<1>3. s.log[opnum] = q[opnum] /\ s.log[opnum] \in LogEntry
  BY <1>1, <1>2, ElementOfSeq DEF ReplicaHolds, Within
<1>4. request \in Request /\ request = q[opnum].request
  BY <1>3 DEF LogEntry
<1>5. c \in Clients /\ request.id \in 1 .. MaxReqId /\ request = [client |-> c, id |-> request.id]
  BY <1>4 DEF Request
<1>6. y.s = u /\ y.out = IF c \in s.clientAddresses
                         THEN x.out \cup {Reply(request, opnum)} ELSE x.out
  BY <1>1 DEF Execute, Went, ReplicaState
<1>. HIDE DEF y, request
<1>7. /\ done \in Seq(Request) /\ Len(done) = opnum
      /\ \A i \in 1 .. opnum : done[i] = q[i].request
  <2>1. /\ done \in Seq(Request) /\ Len(done) = Len(s.executed) + 1
        /\ \A i \in 1 .. Len(s.executed) : done[i] = s.executed[i]
        /\ done[Len(s.executed) + 1] = request
    BY <1>1, <1>4, Appending
  <2>. HIDE DEF done
  <2>2. \A i \in 1 .. Len(s.executed) : done[i] = q[i].request
    BY <2>1 DEF ReplicaHolds
  <2>3. \A i \in 1 .. opnum : i \in 1 .. Len(s.executed) \/ i = opnum
    BY <1>2
  <2>. QED BY <1>4, <2>1, <2>2, <2>3
<1>. HIDE DEF done
<1>8. ReplicaHolds(q, r, t)
  <2>1. /\ t \in ReplicaState /\ t.status = s.status /\ t.log = s.log
        /\ t.lastOp = s.lastOp /\ t.executed = done
        /\ t.lastBatchEnd = s.lastBatchEnd /\ t.prepareOKs = s.prepareOKs
        /\ t.clientTable = s.clientTable
    BY <1>1, <1>7 DEF ReplicaState
  <2>. HIDE DEF t
  <2>2. r = First /\ t.status = "NORMAL" => Leads(q, t)
    BY <2>1 DEF ReplicaHolds, Leads
  <2>. QED BY <1>2, <1>7, <2>1, <2>2 DEF ReplicaHolds
<1>9. s.clientTable[c] \in ClientEntry /\ t.clientTable = s.clientTable
  BY <1>1, <1>5 DEF ReplicaState
<1>10. /\ e \in ClientEntry /\ s.clientTable[c].id <= e.id
       /\ e.replied /\ e.opnum # 0 =>
            e.opnum <= Len(q) /\ q[e.opnum].request = [client |-> c, id |-> e.id]
  <2>1. CASE s.clientTable[c].id > request.id
    <3>1. e = s.clientTable[c]
      BY <2>1
    <3>2. s.clientTable[c].id <= s.clientTable[c].id
      BY <1>9 DEF ClientEntry
    <3>. HIDE DEF e
    <3>. QED BY <1>5, <1>9, <3>1, <3>2 DEF ReplicaHolds, TableHolds
  <2>2. CASE ~(s.clientTable[c].id > request.id)
    <3>1. e = [id |-> request.id, replied |-> TRUE, opnum |-> opnum]
      BY <2>2
    <3>2. request.id \in 0 .. MaxReqId /\ s.clientTable[c].id <= request.id
      BY <1>5, <1>9, <2>2, ViewstampedReplicationAssumption DEF ClientEntry
    <3>. HIDE DEF e
    <3>3. e.id = request.id /\ e.opnum = opnum
      BY <3>1
    <3>4. e \in ClientEntry
      BY <1>2, <3>1, <3>2 DEF ClientEntry
    <3>5. opnum <= Len(q) /\ q[opnum].request = [client |-> c, id |-> request.id]
      BY <1>2, <1>4, <1>5
    <3>. QED BY <3>2, <3>3, <3>4, <3>5
  <2>. QED BY <2>1, <2>2
<1>. HIDE DEF e
<1>11. ReplicaHolds(q, r, u)
  <2>. HIDE DEF t
  <2>. QED BY <1>5, <1>8, <1>9, <1>10, TableChanges
<1>12. Alike(s, u) /\ u.executed = done
  BY <1>1 DEF Alike, ReplicaState
<1>13. IsReply(q, Reply(request, opnum))
  BY <1>2, <1>4 DEF IsReply, Reply
<1>. HIDE DEF u, s
<1>14. Executed(q, r, x, y)
  BY <1>6, <1>11, <1>12, <1>13 DEF Executed, s
<1>. QED BY <1>6, <1>7, <1>12, <1>14 DEF y, ExecutedTo

LEMMA ExecutedTransitive ==
  ASSUME NEW q, NEW r, NEW x, NEW y, NEW z, Executed(q, r, x, y), Executed(q, r, y, z)
  PROVE  Executed(q, r, x, z)
BY DEF Executed, Alike

ExecuteAt(p, x, opnum) == Execute(x, opnum)

Committing == INSTANCE LeftFolds WITH Op <- ExecuteAt

(* Committing up to an opnum of the log executes entries of the log.         *)
LEMMA CommitUpToFine ==
  ASSUME NEW q, IsMaster(q), NEW r, NEW x, ReplicaHolds(q, r, x.s),
         NEW upto \in Nat, upto <= Len(x.s.log)
  PROVE  Executed(q, r, x, CommitUpTo(x, upto))
<1>. DEFINE k == Len(x.s.executed)
            ops == Opnums(k + 1, upto)
            n == Len(ops)
<1>1. CommitUpTo(x, upto) = Committing!Fold(r, x, ops)
  BY DEF CommitUpTo, Committing!Fold, FoldLeft, MapThenFoldSet, ExecuteAt,
         Committing!FoldLeft, Committing!MapThenFoldSet, Max, Committing!Max,
         lastCommitted
<1>2. k \in Nat /\ Len(x.s.log) \in Nat
  BY DEF ReplicaHolds, ReplicaState
<1>3. /\ ops \in Seq(Nat) /\ n \in Nat
      /\ \A i \in 1 .. n : ops[i] = k + 1 + i - 1 /\ k + i <= upto
  <2>1. k + 1 \in Nat
    BY <1>2
  <2>. HIDE DEF k
  <2>2. /\ ops \in Seq(Nat) /\ n \in Nat
        /\ n = IF k + 1 <= upto THEN upto - (k + 1) + 1 ELSE 0
        /\ \A i \in 1 .. n : ops[i] = k + 1 + i - 1
    BY <2>1, OpnumsAre
  <2>. HIDE DEF ops
  <2>. QED BY <1>2, <2>2
<1>4. PICK run : Committing!IsRun(run, r, x, ops)
  <2>. HIDE DEF ops
  <2>. QED BY <1>3, Committing!FoldSteps, Zenon
<1>5. /\ run[0] = x
      /\ Committing!Fold(r, x, ops) = run[n]
      /\ \A i \in 1 .. n : run[i] = Execute(run[i - 1], ops[i])
  BY <1>4 DEF Committing!IsRun, ExecuteAt
<1>. DEFINE T == {i \in 0 .. n : /\ Executed(q, r, x, run[i])
                                 /\ Len(run[i].s.executed) = k + i}
<1>. HIDE DEF ops, n
<1>6. 0 \in T
  <2>1. Executed(q, r, x, x)
    BY DEF Executed, Alike
  <2>. QED BY <1>2, <1>3, <1>5, <2>1
<1>7. ASSUME NEW i \in 1 .. n, i - 1 \in T PROVE i \in T
  <2>. DEFINE y == run[i - 1]
  <2>1. Executed(q, r, x, y) /\ Len(y.s.executed) = k + (i - 1)
    BY <1>7
  <2>. HIDE DEF k
  <2>2. ops[i] = Len(y.s.executed) + 1 /\ ops[i] <= Len(y.s.log) /\ ops[i] = k + i
    <3>1. y.s.log = x.s.log
      BY <2>1 DEF Executed, Alike
    <3>. HIDE DEF y
    <3>. QED BY <1>2, <1>3, <2>1, <3>1
  <2>3. ReplicaHolds(q, r, y.s)
    BY <2>1 DEF Executed
  <2>4. run[i] = Execute(y, ops[i])
    BY <1>5
  <2>. HIDE DEF y
  <2>5. /\ Executed(q, r, y, Execute(y, ops[i]))
        /\ Len(Execute(y, ops[i]).s.executed) = ops[i]
    <3>. DEFINE o == ops[i]
    <3>. HIDE DEF o, T
    <3>1. o = Len(y.s.executed) + 1 /\ o <= Len(y.s.log)
      BY <2>2 DEF o
    <3>2. ExecutedTo(q, r, y, Execute(y, o), o)
      BY <2>3, <3>1, ExecuteFine, Zenon
    <3>. QED BY <3>2 DEF o, ExecutedTo
  <2>6. Executed(q, r, x, run[i]) /\ Len(run[i].s.executed) = k + i
    BY <2>1, <2>2, <2>4, <2>5, ExecutedTransitive
  <2>. QED BY <1>3, <2>6
<1>8. n \in T
  <2>. HIDE DEF T
  <2>1. \A i \in 0 .. n : i \in T
    BY <1>3, <1>6, <1>7, RangeInduction
  <2>. QED BY <1>3, <2>1
<1>. QED BY <1>1, <1>5, <1>8

-----------------------------------------------------------------------------
(* Acknowledgement                                                           *)

(* Remembering a request changes nothing else.                               *)
LEMMA UpdateClientTableFine ==
  ASSUME NEW q, NEW r, NEW s, ReplicaHolds(q, r, s), NEW request \in Request,
         r = First /\ s.status = "NORMAL" =>
           s.clientTable[request.client].id <= request.id
  PROVE  LET t == UpdateClientTable(s, request)
         IN  /\ ReplicaHolds(q, r, t) /\ Alike(s, t)
             /\ t.executed = s.executed /\ t.lastBatchEnd = s.lastBatchEnd
             /\ t.clientTable[request.client].id = request.id
<1>. DEFINE c == request.client
            e == IF s.clientTable[c].id = request.id THEN s.clientTable[c]
                 ELSE [id |-> request.id, replied |-> FALSE, opnum |-> 0]
            t == [s EXCEPT !.clientTable = [@ EXCEPT ![c] = e]]
<1>1. s \in ReplicaState /\ s.clientTable \in [Clients -> ClientEntry]
  BY DEF ReplicaHolds, ReplicaState
<1>2. c \in Clients /\ request.id \in 0 .. MaxReqId /\ request.id \in Nat
  BY ViewstampedReplicationAssumption DEF Request
<1>3. UpdateClientTable(s, request) = t
  BY <1>1, <1>2 DEF UpdateClientTable, ReplicaState
<1>4. s.clientTable[c] \in ClientEntry
  BY <1>1, <1>2
<1>5. e \in ClientEntry /\ e.id = request.id
  BY <1>2, <1>4 DEF ClientEntry
<1>6. e.replied /\ e.opnum # 0 =>
        e.opnum <= Len(q) /\ q[e.opnum].request = [client |-> c, id |-> e.id]
  <2>1. CASE s.clientTable[c].id = request.id
    BY <1>2, <2>1 DEF ReplicaHolds, TableHolds
  <2>2. CASE s.clientTable[c].id # request.id
    BY <2>2
  <2>. QED BY <2>1, <2>2
<1>. HIDE DEF e
<1>7. Alike(s, t) /\ t.executed = s.executed /\ t.lastBatchEnd = s.lastBatchEnd
  BY <1>1 DEF Alike, ReplicaState
<1>8. t.clientTable[c].id = request.id
  BY <1>1, <1>2, <1>5 DEF ReplicaState
<1>9. ReplicaHolds(q, r, t)
  <2>. HIDE DEF c
  <2>. QED BY <1>2, <1>5, <1>6, TableChanges DEF c
<1>. HIDE DEF t
<1>. QED BY <1>3, <1>7, <1>8, <1>9

IsAck(r, s, m) ==
  m.type = "PREPAREOK" /\ m.view = 0 /\ m.src = r /\ m.opnum \in 0 .. s.lastOp

Acknowledged(q, r, x, y) ==
  /\ ReplicaHolds(q, r, y.s) /\ Alike(x.s, y.s) /\ y.s.executed = x.s.executed
  /\ \A m \in y.out : m \in x.out \/ IsAck(r, x.s, m)

Acknowledge(r, y, i) ==
  Went(UpdateClientTable(y.s, y.s.log[i].request),
       y.out \cup {PrepareOK(r, y.s.view, i)})

Acknowledging == INSTANCE LeftFolds WITH Op <- Acknowledge

(* What is acknowledged is in the log.                                       *)
LEMMA SendPrepareOKsFine ==
  ASSUME NEW q, IsMaster(q), NEW r, r # First, NEW x, ReplicaHolds(q, r, x.s),
         NEW old \in Nat
  PROVE  Acknowledged(q, r, x, SendPrepareOKs(r, x, old))
<1>. DEFINE low == Larger(old, lastCommitted(x.s) + 1)
            high == x.s.lastOp
            ops == Opnums(low, high)
            n == Len(ops)
<1>1. SendPrepareOKs(r, x, old) = Acknowledging!Fold(r, x, ops)
  BY DEF SendPrepareOKs, Acknowledging!Fold, FoldLeft, MapThenFoldSet, Acknowledge,
         Acknowledging!FoldLeft, Acknowledging!MapThenFoldSet, Max, Acknowledging!Max
<1>2. low \in Nat \ {0} /\ high \in Nat
  <2>1. Len(x.s.executed) \in Nat /\ high \in Nat
    BY DEF ReplicaHolds, ReplicaState
  <2>. HIDE DEF high
  <2>. QED BY <2>1 DEF Larger, lastCommitted
<1>. HIDE DEF low, high
<1>3. /\ ops \in Seq(Nat) /\ n \in Nat
      /\ \A i \in 1 .. n : ops[i] \in 1 .. high
  <2>2. /\ ops \in Seq(Nat) /\ n \in Nat
        /\ n = IF low <= high THEN high - low + 1 ELSE 0
        /\ \A i \in 1 .. n : ops[i] = low + i - 1
    BY <1>2, OpnumsAre
  <2>. HIDE DEF ops
  <2>. QED BY <1>2, <2>2
<1>4. PICK run : Acknowledging!IsRun(run, r, x, ops)
  <2>. HIDE DEF ops
  <2>. QED BY <1>3, Acknowledging!FoldSteps, Zenon
<1>5. /\ run[0] = x
      /\ Acknowledging!Fold(r, x, ops) = run[n]
      /\ \A i \in 1 .. n : run[i] = Acknowledge(r, run[i - 1], ops[i])
  BY <1>4 DEF Acknowledging!IsRun
<1>. DEFINE T == {i \in 0 .. n : Acknowledged(q, r, x, run[i])}
<1>. HIDE DEF ops, n
<1>6. 0 \in T
  <2>1. Acknowledged(q, r, x, x)
    BY DEF Acknowledged, Alike
  <2>. QED BY <1>3, <1>5, <2>1
<1>7. ASSUME NEW i \in 1 .. n, i - 1 \in T PROVE i \in T
  <2>. DEFINE y == run[i - 1]
              request == y.s.log[ops[i]].request
              t == UpdateClientTable(y.s, request)
              ok == PrepareOK(r, y.s.view, ops[i])
  <2>1. Acknowledged(q, r, x, y)
    BY <1>7
  <2>2. run[i] = Went(t, y.out \cup {ok})
    BY <1>5 DEF Acknowledge
  <2>. HIDE DEF y
  <2>3. ReplicaHolds(q, r, y.s) /\ Alike(x.s, y.s) /\ y.s.executed = x.s.executed
    BY <2>1 DEF Acknowledged
  <2>4. request \in Request
    <3>1. y.s.log \in Seq(LogEntry) /\ y.s.lastOp = Len(y.s.log) /\ y.s.lastOp = high
      BY <2>3 DEF ReplicaHolds, ReplicaState, Alike, high
    <3>2. ops[i] \in 1 .. Len(y.s.log)
      BY <1>3, <3>1
    <3>3. y.s.log[ops[i]] \in LogEntry
      BY <3>1, <3>2, ElementOfSeq
    <3>. QED BY <3>3 DEF LogEntry
  <2>. HIDE DEF request
  <2>5. ReplicaHolds(q, r, t) /\ Alike(y.s, t) /\ t.executed = y.s.executed
    BY <2>3, <2>4, UpdateClientTableFine
  <2>. HIDE DEF t
  <2>6. IsAck(r, x.s, ok)
    <3>1. y.s.view = 0
      BY <2>3 DEF ReplicaHolds, ReplicaState
    <3>2. ops[i] \in 0 .. high
      BY <1>2, <1>3
    <3>. QED BY <3>1, <3>2 DEF IsAck, PrepareOK, high
  <2>7. run[i].s = t /\ run[i].out = y.out \cup {ok}
    BY <2>2 DEF Went
  <2>8. Alike(x.s, t) /\ t.executed = x.s.executed
    BY <2>3, <2>5 DEF Alike
  <2>. HIDE DEF ok
  <2>9. \A m \in run[i].out : m \in x.out \/ IsAck(r, x.s, m)
    BY <2>1, <2>6, <2>7 DEF Acknowledged
  <2>10. Acknowledged(q, r, x, run[i])
    BY <2>5, <2>7, <2>8, <2>9 DEF Acknowledged
  <2>. QED BY <1>3, <2>10
<1>8. n \in T
  <2>. HIDE DEF T
  <2>1. \A i \in 0 .. n : i \in T
    BY <1>3, <1>6, <1>7, RangeInduction
  <2>. QED BY <1>3, <2>1
<1>. QED BY <1>1, <1>5, <1>8

-----------------------------------------------------------------------------
(* What a replica appends to its log                                         *)

(* A replica that is not the leader has appended entries of the view's log.  *)
Grown(s, t) ==
  /\ t.status = s.status /\ t.recoveryResponses = s.recoveryResponses
  /\ Len(s.log) <= Len(t.log)

GrownByOne(q, r, s, t) ==
  ReplicaHolds(q, r, t) /\ Grown(s, t) /\ Len(t.log) = Len(s.log) + 1

(* To append the next entry of the view's log leaves a part of it.           *)
LEMMA AppendFine ==
  ASSUME NEW q, IsMaster(q), NEW r, r # First, NEW s, ReplicaHolds(q, r, s),
         s.status = "NORMAL", Len(s.log) < Len(q), NEW e, e = q[Len(s.log) + 1]
  PROVE  GrownByOne(q, r, s, [s EXCEPT !.log = Append(s.log, e),
                                       !.lastOp = s.lastOp + 1])
<1>. DEFINE log == Append(s.log, e)
            op == s.lastOp + 1
            t == [s EXCEPT !.log = log, !.lastOp = op]
<1>1. s \in ReplicaState /\ s.log \in Seq(LogEntry) /\ Len(s.log) \in Nat /\ s.lastOp \in Nat
  BY DEF ReplicaHolds, ReplicaState
<1>2. Len(q) \in Nat /\ Len(s.log) + 1 \in 1 .. Len(q) /\ e \in LogEntry
  <2>1. q \in Seq(LogEntry) /\ Len(q) \in Nat
    BY DEF IsMaster
  <2>2. Len(s.log) + 1 \in 1 .. Len(q)
    BY <1>1, <2>1
  <2>. QED BY <2>1, <2>2, ElementOfSeq
<1>3. /\ log \in Seq(LogEntry) /\ Len(log) = Len(s.log) + 1
      /\ \A i \in 1 .. Len(s.log) : log[i] = s.log[i]
      /\ log[Len(s.log) + 1] = e
  BY <1>1, <1>2, Appending
<1>. HIDE DEF log
<1>4. Within(log, q)
  <2>1. \A i \in 1 .. Len(s.log) : log[i] = q[i]
    BY <1>3 DEF ReplicaHolds, Within
  <2>2. \A i \in 1 .. Len(s.log) + 1 : i \in 1 .. Len(s.log) \/ i = Len(s.log) + 1
    BY <1>1
  <2>. QED BY <1>1, <1>2, <1>3, <2>1, <2>2 DEF Within
<1>5. /\ t \in ReplicaState /\ t.status = s.status /\ t.log = log
      /\ t.lastOp = s.lastOp + 1 /\ t.executed = s.executed
      /\ t.lastBatchEnd = s.lastBatchEnd /\ t.prepareOKs = s.prepareOKs
      /\ t.clientTable = s.clientTable
      /\ t.recoveryResponses = s.recoveryResponses
  <2>1. op \in Nat /\ s.lastOp + 1 = op
    BY <1>1
  <2>. HIDE DEF op
  <2>. QED BY <1>1, <1>3, <2>1 DEF ReplicaState
<1>. HIDE DEF t
<1>6. /\ Len(s.executed) \in Nat /\ s.lastBatchEnd \in Nat
      /\ s.lastOp = Len(s.log) /\ Len(s.executed) <= Len(s.log)
      /\ s.lastBatchEnd <= s.lastOp
  BY DEF ReplicaHolds, ReplicaState
<1>7. t.lastOp = Len(t.log) /\ Len(t.executed) <= Len(t.log) /\ t.lastBatchEnd <= t.lastOp
  BY <1>1, <1>3, <1>5, <1>6
<1>8. Grown(s, t) /\ Len(t.log) = Len(s.log) + 1
  BY <1>1, <1>3, <1>5 DEF Grown
<1>9. ReplicaHolds(q, r, t)
  BY <1>4, <1>5, <1>7 DEF ReplicaHolds
<1>. QED BY <1>8, <1>9 DEF t, log, GrownByOne

LEMMA GrownTransitive ==
  ASSUME NEW s, NEW t, NEW u, Len(s.log) \in Nat, Len(t.log) \in Nat,
         Len(u.log) \in Nat, Grown(s, t), Grown(t, u)
  PROVE  Grown(s, u)
BY DEF Grown

AppendOne(m, t, op) ==
  LET request == m.requests[op - m.batchStart + 1]
      entry   == Entry(m.view, op, request)
  IN  UpdateClientTable([t EXCEPT !.lastOp = @ + 1, !.log = Append(@, entry)],
                        request)

Appendings == INSTANCE LeftFolds WITH Op <- AppendOne

(* What a PREPARE brings is what the view's log goes on with.                *)
LEMMA AppendedFine ==
  ASSUME NEW q, IsMaster(q), NEW r, r # First, NEW s, ReplicaHolds(q, r, s),
         s.status = "NORMAL", NEW m, m.view = 0, m.opnum \in 0 .. Len(q),
         m.batchStart \in Nat \ {0},
         \A k \in m.batchStart .. m.opnum : RequestAt(m, k) = q[k].request,
         m.batchStart <= s.lastOp + 1, m.opnum > s.lastOp
  PROVE  LET t == Appended(s, m)
         IN  ReplicaHolds(q, r, t) /\ Grown(s, t) /\ t.lastOp = m.opnum
<1>. DEFINE k == Len(s.log)
            ops == Opnums(s.lastOp + 1, m.opnum)
            n == Len(ops)
<1>1. Appended(s, m) = Appendings!Fold(m, s, ops)
  BY DEF Appended, Appendings!Fold, FoldLeft, MapThenFoldSet, AppendOne,
         Appendings!FoldLeft, Appendings!MapThenFoldSet, Max, Appendings!Max
<1>2. /\ k \in Nat /\ s.lastOp = k /\ Len(q) \in Nat
      /\ m.opnum \in Nat /\ m.opnum <= Len(q) /\ m.batchStart \in Nat
  BY DEF ReplicaHolds, ReplicaState, IsMaster
<1>. HIDE DEF k
<1>3. /\ ops \in Seq(Nat) /\ n \in Nat /\ n = m.opnum - k
      /\ \A i \in 1 .. n : ops[i] = k + i
  <2>. DEFINE low == s.lastOp + 1
  <2>1. low \in Nat
    BY <1>2
  <2>. HIDE DEF low
  <2>2. /\ Opnums(low, m.opnum) \in Seq(Nat) /\ Len(Opnums(low, m.opnum)) \in Nat
        /\ Len(Opnums(low, m.opnum)) =
             IF low <= m.opnum THEN m.opnum - low + 1 ELSE 0
        /\ \A i \in 1 .. Len(Opnums(low, m.opnum)) :
             Opnums(low, m.opnum)[i] = low + i - 1
    <3>1. m.opnum \in Nat
      BY <1>2
    <3>. QED BY <2>1, <3>1, OpnumsAre, Zenon
  <2>3. ops = Opnums(low, m.opnum)
    BY DEF low
  <2>. HIDE DEF ops
  <2>4. low = k + 1 /\ low <= m.opnum
    BY <1>2 DEF low
  <2>. QED BY <1>2, <2>2, <2>3, <2>4
<1>4. PICK run : Appendings!IsRun(run, m, s, ops)
  <2>. HIDE DEF ops
  <2>. QED BY <1>3, Appendings!FoldSteps, Zenon
<1>5. /\ run[0] = s
      /\ Appendings!Fold(m, s, ops) = run[n]
      /\ \A i \in 1 .. n : run[i] = AppendOne(m, run[i - 1], ops[i])
  BY <1>4 DEF Appendings!IsRun
<1>. DEFINE T == {i \in 0 .. n : /\ ReplicaHolds(q, r, run[i]) /\ Grown(s, run[i])
                                 /\ Len(run[i].log) = k + i}
<1>. HIDE DEF ops, n
<1>6. 0 \in T
  <2>1. Grown(s, s) /\ k + 0 = k /\ 0 \in 0 .. n
    BY <1>2, <1>3 DEF Grown, k
  <2>. QED BY <1>5, <2>1 DEF k
<1>7. ASSUME NEW i \in 1 .. n, i - 1 \in T PROVE i \in T
  <2>. DEFINE t == run[i - 1]
              op == ops[i]
              request == m.requests[op - m.batchStart + 1]
              e == Entry(m.view, op, request)
              u == [t EXCEPT !.log = Append(t.log, e), !.lastOp = t.lastOp + 1]
  <2>1. ReplicaHolds(q, r, t) /\ Grown(s, t) /\ Len(t.log) = k + (i - 1)
    BY <1>7
  <2>2. run[i] = UpdateClientTable([t EXCEPT !.lastOp = @ + 1, !.log = Append(@, e)],
                                   request)
    BY <1>5 DEF AppendOne
  <2>. HIDE DEF t, T
  <2>3. t \in ReplicaState /\ t.status = "NORMAL"
    BY <2>1 DEF ReplicaHolds, Grown
  <2>4. run[i] = UpdateClientTable(u, request)
    <3>1. [t EXCEPT !.lastOp = @ + 1, !.log = Append(@, e)] = u
      <4>. HIDE DEF e
      <4>. QED BY <2>3 DEF ReplicaState
    <3>. HIDE DEF u, e, request
    <3>. QED BY <2>2, <3>1
  <2>5. op = Len(t.log) + 1 /\ op \in m.batchStart .. m.opnum /\ Len(t.log) < Len(q)
    <3>1. op = k + i
      BY <1>3
    <3>. HIDE DEF op
    <3>. QED BY <1>2, <1>3, <2>1, <3>1
  <2>6. op \in 1 .. Len(q)
    <3>. HIDE DEF op
    <3>. QED BY <1>2, <2>5
  <2>. HIDE DEF op
  <2>7. request = q[op].request /\ request \in Request /\ e = q[op]
    <3>1. RequestAt(m, op) = q[op].request
      BY <2>5
    <3>2. q[op] \in LogEntry
      BY <2>6, ElementOfSeq DEF IsMaster
    <3>3. q[op].view = 0 /\ q[op].opnum = op
      BY <2>6 DEF IsMaster
    <3>4. request = q[op].request
      BY <3>1 DEF RequestAt
    <3>5. q[op] = [view |-> q[op].view, opnum |-> q[op].opnum, request |-> q[op].request]
      BY <3>2 DEF LogEntry
    <3>. HIDE DEF request
    <3>. QED BY <3>2, <3>3, <3>4, <3>5 DEF LogEntry, Entry
  <2>. HIDE DEF e, request
  <2>8. ReplicaHolds(q, r, u) /\ Grown(t, u) /\ Len(u.log) = Len(t.log) + 1
    <3>1. e = q[Len(t.log) + 1]
      BY <2>5, <2>7
    <3>2. GrownByOne(q, r, t, u)
      BY <2>1, <2>3, <2>5, <3>1, AppendFine, Zenon
    <3>. HIDE DEF u
    <3>. QED BY <3>2 DEF GrownByOne
  <2>. HIDE DEF u
  <2>9. ReplicaHolds(q, r, run[i]) /\ Alike(u, run[i])
    BY <2>4, <2>7, <2>8, UpdateClientTableFine
  <2>10. Len(s.log) \in Nat /\ Len(t.log) \in Nat /\ Len(u.log) \in Nat
    BY <2>1, <2>8 DEF ReplicaHolds, ReplicaState
  <2>11. Grown(s, u)
    BY <2>1, <2>8, <2>10, GrownTransitive
  <2>12. Grown(s, run[i]) /\ Len(run[i].log) = Len(t.log) + 1
    BY <2>8, <2>9, <2>11 DEF Grown, Alike
  <2>13. Len(t.log) + 1 = k + i
    BY <1>2, <2>1
  <2>. QED BY <1>3, <2>9, <2>12, <2>13 DEF T
<1>8. n \in T
  <2>. HIDE DEF T
  <2>1. \A i \in 0 .. n : i \in T
    BY <1>3, <1>6, <1>7, RangeInduction
  <2>. QED BY <1>3, <2>1
<1>9. run[n].lastOp = Len(run[n].log) /\ Len(run[n].log) = m.opnum
  <2>1. Len(run[n].log) = k + n /\ ReplicaHolds(q, r, run[n])
    BY <1>8
  <2>. QED BY <1>2, <1>3, <2>1 DEF ReplicaHolds
<1>. QED BY <1>1, <1>5, <1>8, <1>9

-----------------------------------------------------------------------------
(* State transfer                                                            *)

Transfer(s, old) == [s |-> s, old |-> old]

(* An entry of the view's log is there, or is the next one.                  *)
LEMMA TransferOneFine ==
  ASSUME NEW q, IsMaster(q), NEW r, r # First, NEW s, ReplicaHolds(q, r, s),
         s.status = "NORMAL", NEW old, NEW e, e.opnum \in 1 .. Len(q),
         e = q[e.opnum], e.opnum <= Len(s.log) + 1
  PROVE  \E t : /\ Transferred(Transfer(s, old), e) = Transfer(t, old)
                /\ ReplicaHolds(q, r, t) /\ Grown(s, t)
                /\ e.opnum <= Len(t.log)
<1>. DEFINE y == Transfer(s, old)
            op == e.opnum
            k == Len(s.log)
            t == [s EXCEPT !.log = Append(s.log, e), !.lastOp = s.lastOp + 1]
            committed == Len(s.executed)
<1>1. y.s = s /\ y.old = old /\ y = [s |-> s, old |-> old]
  BY DEF Transfer
<1>2. /\ s \in ReplicaState /\ k \in Nat /\ s.lastOp = k /\ Within(s.log, q)
      /\ committed \in Nat /\ committed <= k /\ op \in Nat
      /\ op \in 1 .. Len(q) /\ op <= k + 1 /\ Len(q) \in Nat
  BY DEF ReplicaHolds, ReplicaState, IsMaster
<1>3. e \in LogEntry
  <2>1. q[op] \in LogEntry
    <3>1. q \in Seq(LogEntry)
      BY DEF IsMaster
    <3>. HIDE DEF op
    <3>. QED BY <1>2, <3>1, ElementOfSeq
  <2>. QED BY <2>1
<1>4. Entry(e.view, e.opnum, e.request) = e
  BY <1>3 DEF Entry, LogEntry
<1>. HIDE DEF y, op, committed
<1>5. CASE op <= committed
  <2>1. Transferred(y, e) = y
    BY <1>1, <1>5 DEF Transferred, lastCommitted, op, committed
  <2>2. Grown(s, s) /\ op <= k
    BY <1>2, <1>5 DEF Grown
  <2>. QED BY <2>1, <2>2 DEF y, op
<1>6. CASE op > committed /\ op <= k
  <2>1. s.log[op] = e
    <3>1. op \in 1 .. k
      BY <1>2, <1>6
    <3>. QED BY <1>2, <3>1 DEF Within, op
  <2>2. ~(op <= committed) /\ ~(op > s.lastOp) /\ op <= s.lastOp
    BY <1>2, <1>6
  <2>3. Transferred(y, e) = y
    BY <1>1, <1>6, <2>1, <2>2 DEF Transferred, lastCommitted, op, committed
  <2>4. Grown(s, s)
    BY <1>2 DEF Grown
  <2>. QED BY <1>6, <2>3, <2>4 DEF y, op
<1>7. CASE op > k
  <2>1. op = k + 1 /\ ~(op <= committed) /\ op > committed /\ ~(op <= s.lastOp) /\ op > s.lastOp
    BY <1>2, <1>7
  <2>2. Transferred(y, e) =
          [y EXCEPT !.s = [y.s EXCEPT !.log = Append(s.log, e), !.lastOp = @ + 1]]
    BY <1>1, <1>4, <2>1 DEF Transferred, lastCommitted, op, committed
  <2>3. [y.s EXCEPT !.log = Append(s.log, e), !.lastOp = @ + 1] = t
    BY <1>1, <1>2 DEF ReplicaState
  <2>4. Transferred(y, e) = Transfer(t, old)
    <3>. HIDE DEF t
    <3>. QED BY <1>1, <2>2, <2>3 DEF Transfer
  <2>5. ReplicaHolds(q, r, t) /\ Grown(s, t) /\ Len(t.log) = k + 1
    <3>1. k < Len(q) /\ e = q[k + 1]
      BY <1>2, <2>1 DEF op
    <3>2. GrownByOne(q, r, s, t)
      BY <3>1, AppendFine, Zenon
    <3>. HIDE DEF t
    <3>. QED BY <3>2 DEF GrownByOne
  <2>6. op <= Len(t.log)
    <3>. HIDE DEF t
    <3>. QED BY <1>2, <2>1, <2>5
  <2>. HIDE DEF t
  <2>. QED BY <2>4, <2>5, <2>6 DEF y, op
<1>. QED BY <1>2, <1>5, <1>6, <1>7

TransferOne(p, y, e) == Transferred(y, e)

Transferring == INSTANCE LeftFolds WITH Op <- TransferOne

(* Entries that follow each other, from one that is there or is next, leave  *)
(* a part of the view's log, with nothing replaced.                           *)
LEMMA TransferredFine ==
  ASSUME NEW q, IsMaster(q), NEW r, r # First, NEW s, ReplicaHolds(q, r, s),
         s.status = "NORMAL", NEW entries, Segment(entries, q),
         entries # << >> => entries[1].opnum <= Len(s.log) + 1
  PROVE  LET y == FoldLeft(Transferred, Transfer(s, s.lastOp), entries)
         IN  ReplicaHolds(q, r, y.s) /\ Grown(s, y.s) /\ y.old = s.lastOp
<1>. DEFINE n == Len(entries)
            old == s.lastOp
            x == Transfer(s, old)
            Fine(i, t) == /\ ReplicaHolds(q, r, t) /\ Grown(s, t)
                          /\ i > 0 => entries[i].opnum <= Len(t.log)
<1>1. FoldLeft(Transferred, x, entries) = Transferring!Fold(r, x, entries)
  BY DEF Transferring!Fold, FoldLeft, MapThenFoldSet, TransferOne,
         Transferring!FoldLeft, Transferring!MapThenFoldSet, Max, Transferring!Max
<1>. HIDE DEF x, old
<1>2. entries \in Seq(LogEntry) /\ n \in Nat
  BY DEF Segment
<1>3. PICK run : Transferring!IsRun(run, r, x, entries)
  BY <1>2, Transferring!FoldSteps, Zenon
<1>4. /\ run[0] = x
      /\ Transferring!Fold(r, x, entries) = run[n]
      /\ \A i \in 1 .. n : run[i] = Transferred(run[i - 1], entries[i])
  BY <1>3 DEF Transferring!IsRun, TransferOne
<1>. DEFINE T == {i \in 0 .. n : \E t : run[i] = Transfer(t, old) /\ Fine(i, t)}
<1>. HIDE DEF n
<1>5. 0 \in T
  <2>1. Grown(s, s) /\ ~(0 > 0) /\ 0 \in 0 .. n
    <3>1. Len(s.log) \in Nat
      BY DEF ReplicaHolds, ReplicaState
    <3>. QED BY <1>2, <3>1 DEF Grown
  <2>2. run[0] = Transfer(s, old) /\ Fine(0, s)
    BY <1>4, <2>1 DEF x
  <2>. HIDE DEF Fine
  <2>. QED BY <2>1, <2>2
<1>6. ASSUME NEW i \in 1 .. n, i - 1 \in T PROVE i \in T
  <2>1. PICK u : run[i - 1] = Transfer(u, old) /\ Fine(i - 1, u)
    <3>. HIDE DEF Fine
    <3>. QED BY <1>6
  <2>. DEFINE e == entries[i]
  <2>2. /\ e.opnum \in 1 .. Len(q) /\ e = q[e.opnum]
        /\ e.opnum = entries[1].opnum + i - 1
    BY DEF Segment, n
  <2>3. Len(u.log) \in Nat /\ Len(s.log) \in Nat /\ Len(s.log) <= Len(u.log)
    BY <2>1 DEF ReplicaHolds, ReplicaState, Grown
  <2>4. e.opnum <= Len(u.log) + 1
    <3>1. entries # << >> /\ 1 \in 1 .. n /\ i \in Nat
      BY <1>2 DEF n
    <3>2. entries[1].opnum \in 1 .. Len(q) /\ entries[1].opnum <= Len(s.log) + 1
      BY <3>1 DEF Segment, n
    <3>3. CASE i = 1
      <4>1. e.opnum = entries[1].opnum /\ entries[1].opnum \in Nat
        BY <3>2, <3>3
      <4>. HIDE DEF e
      <4>. QED BY <2>3, <3>2, <4>1
    <3>4. CASE i # 1
      <4>1. i - 1 \in 1 .. n /\ i - 1 > 0
        BY <1>2, <3>1, <3>4
      <4>2. entries[i - 1].opnum = entries[1].opnum + (i - 1) - 1
        BY <4>1 DEF Segment, n
      <4>3. entries[i - 1].opnum <= Len(u.log)
        BY <2>1, <4>1
      <4>4. entries[1].opnum \in Nat
        BY <3>2
      <4>. HIDE DEF e
      <4>. QED BY <2>2, <2>3, <3>1, <4>2, <4>3, <4>4
    <3>. QED BY <3>3, <3>4
  <2>5. ReplicaHolds(q, r, u) /\ Grown(s, u) /\ u.status = "NORMAL"
    BY <2>1 DEF Grown
  <2>6. run[i] = Transferred(Transfer(u, old), e)
    BY <1>4, <2>1
  <2>. HIDE DEF e
  <2>7. PICK t : /\ Transferred(Transfer(u, old), e) = Transfer(t, old)
                 /\ ReplicaHolds(q, r, t) /\ Grown(u, t) /\ e.opnum <= Len(t.log)
    BY <2>2, <2>4, <2>5, TransferOneFine
  <2>8. Len(t.log) \in Nat
    BY <2>7 DEF ReplicaHolds, ReplicaState
  <2>9. Grown(s, t)
    BY <2>3, <2>5, <2>7, <2>8, GrownTransitive
  <2>10. run[i] = Transfer(t, old) /\ Fine(i, t)
    BY <2>6, <2>7, <2>9 DEF e
  <2>. HIDE DEF Fine
  <2>. QED BY <1>2, <2>10
<1>7. n \in T
  <2>. HIDE DEF T
  <2>1. \A i \in 0 .. n : i \in T
    BY <1>2, <1>5, <1>6, RangeInduction
  <2>. QED BY <1>2, <2>1
<1>8. PICK t : run[n] = Transfer(t, old) /\ Fine(n, t)
  <2>. HIDE DEF Fine
  <2>. QED BY <1>7
<1>9. run[n].s = t /\ run[n].old = old
  BY <1>8 DEF Transfer
<1>10. FoldLeft(Transferred, Transfer(s, s.lastOp), entries) = run[n]
  BY <1>1, <1>4 DEF x, old
<1>. QED BY <1>8, <1>9, <1>10 DEF old

-----------------------------------------------------------------------------
(* Steps                                                                     *)

(* A part of a log has the log's entries.                                    *)
LEMMA MasterLonger ==
  ASSUME NEW q, NEW p, IsMaster(q), IsMaster(p), Within(q, p)
  PROVE  /\ Len(q) \in Nat /\ Len(p) \in Nat /\ Len(q) <= Len(p)
         /\ \A i \in 1 .. Len(q) : i \in 1 .. Len(p) /\ q[i] = p[i]
BY DEF IsMaster, Within

(* The replies that are kept stay those of the log.                          *)
LEMMA TableStays ==
  ASSUME NEW q, NEW p, IsMaster(q), IsMaster(p), Within(q, p),
         NEW table \in [Clients -> ClientEntry], TableHolds(q, table)
  PROVE  TableHolds(p, table)
<1>1. /\ Len(q) \in Nat /\ Len(p) \in Nat /\ Len(q) <= Len(p)
      /\ \A i \in 1 .. Len(q) : i \in 1 .. Len(p) /\ q[i] = p[i]
  BY MasterLonger
<1>. SUFFICES ASSUME NEW c \in Clients, table[c].replied, table[c].opnum # 0
              PROVE  /\ table[c].opnum <= Len(p)
                     /\ p[table[c].opnum].request = [client |-> c, id |-> table[c].id]
  BY DEF TableHolds
<1>2. /\ table[c].opnum <= Len(q)
      /\ q[table[c].opnum].request = [client |-> c, id |-> table[c].id]
  BY DEF TableHolds
<1>3. table[c].opnum \in Nat
  BY DEF ClientEntry
<1>4. table[c].opnum \in 1 .. Len(q)
  BY <1>1, <1>2, <1>3
<1>. QED BY <1>1, <1>2, <1>3, <1>4

(* What a replica keeps does not change when the log grows at its end.       *)
LEMMA ReplicaStays ==
  ASSUME NEW q, NEW p, IsMaster(q), IsMaster(p), Within(q, p), NEW r, NEW s,
         ReplicaHolds(q, r, s), p = q \/ r # First
  PROVE  ReplicaHolds(p, r, s)
<1>1. /\ Len(q) \in Nat /\ Len(p) \in Nat /\ Len(q) <= Len(p)
      /\ \A i \in 1 .. Len(q) : i \in 1 .. Len(p) /\ q[i] = p[i]
  BY MasterLonger
<1>2. /\ s \in ReplicaState /\ Within(s.log, q) /\ s.lastOp = Len(s.log)
      /\ Len(s.executed) <= Len(s.log)
      /\ \A i \in 1 .. Len(s.executed) : s.executed[i] = q[i].request
      /\ s.lastBatchEnd <= s.lastOp /\ IsFiniteSet(s.prepareOKs)
      /\ TableHolds(q, s.clientTable)
      /\ s.status = "RECOVERING" => s.log = << >>
  BY DEF ReplicaHolds
<1>3. /\ Len(s.log) \in Nat /\ Len(s.executed) \in Nat
      /\ s.clientTable \in [Clients -> ClientEntry]
  BY <1>2 DEF ReplicaState
<1>4. Within(s.log, p)
  BY <1>1, <1>2, <1>3, WithinTransitive
<1>5. ASSUME NEW i \in 1 .. Len(s.executed) PROVE s.executed[i] = p[i].request
  <2>1. i \in 1 .. Len(q)
    BY <1>1, <1>2, <1>3 DEF Within
  <2>. QED BY <1>1, <1>2, <2>1
<1>6. TableHolds(p, s.clientTable)
  BY <1>2, <1>3, TableStays
<1>7. r = First /\ s.status = "NORMAL" => Leads(p, s)
  BY DEF ReplicaHolds
<1>. QED BY <1>2, <1>4, <1>5, <1>6, <1>7 DEF ReplicaHolds

(* The replica s goes on to t with a log that has not become shorter, and a  *)
(* recovery ends with a log that has what the replica has acknowledged.      *)
Advances(r, s, t, ms) ==
  /\ Len(s.log) <= Len(t.log)
  /\ \/ t.status = s.status
     \/ /\ t.status = "NORMAL"
        /\ \A a \in ms : a.type = "PREPAREOK" /\ a.src = r => a.opnum <= t.lastOp

(* What a message says stays true.                                           *)
LEMMA MessageStays ==
  ASSUME NEW q, NEW p, IsMaster(q), IsMaster(p), Within(q, p),
         NEW rep \in [Indices -> ReplicaState], NEW rst, NEW ms, NEW m \in ms,
         MessageHolds(q, rep, rst, m), NEW r \in Indices, NEW t \in ReplicaState,
         rep[r].lastOp = Len(rep[r].log), t.lastOp = Len(t.log),
         Advances(r, rep[r], t, ms)
  PROVE  MessageHolds(p, [rep EXCEPT ![r] = t], rst, m)
<1>. DEFINE new == [rep EXCEPT ![r] = t]
<1>1. /\ Len(q) \in Nat /\ Len(p) \in Nat /\ Len(q) <= Len(p)
      /\ \A i \in 1 .. Len(q) : i \in 1 .. Len(p) /\ q[i] = p[i]
  BY MasterLonger
<1>2. \A k \in 0 .. Len(q) : k \in 0 .. Len(p)
  BY <1>1
<1>3. \A i \in Indices : new[i] = IF i = r THEN t ELSE rep[i]
  OBVIOUS
<1>. HIDE DEF new
<1>4. /\ Len(rep[r].log) \in Nat /\ Len(t.log) \in Nat
      /\ Len(rep[r].log) <= Len(t.log)
  BY DEF ReplicaState, Advances
<1>5. ASSUME NEW i \in Indices
      PROVE  /\ Len(rep[i].log) \in Nat /\ Len(new[i].log) \in Nat
             /\ Len(rep[i].log) <= Len(new[i].log)
  <2>1. Len(rep[i].log) \in Nat
    BY DEF ReplicaState
  <2>. QED BY <1>3, <1>4, <2>1
<1>6. m.type \notin {"DOVIEWCHANGE", "STARTVIEW"}
  BY DEF MessageHolds
<1>7. m.type = "PREPARE" =>
       /\ m.view = 0 /\ m.opnum \in 0 .. Len(p) /\ m.batchStart \in Nat \ {0}
       /\ \A k \in m.batchStart .. m.opnum : RequestAt(m, k) = p[k].request
  <2>. SUFFICES ASSUME m.type = "PREPARE"
                PROVE  /\ m.view = 0 /\ m.opnum \in 0 .. Len(p)
                       /\ m.batchStart \in Nat \ {0}
                       /\ \A k \in m.batchStart .. m.opnum :
                            RequestAt(m, k) = p[k].request
    OBVIOUS
  <2>1. /\ m.view = 0 /\ m.opnum \in 0 .. Len(q) /\ m.batchStart \in Nat \ {0}
        /\ \A k \in m.batchStart .. m.opnum : RequestAt(m, k) = q[k].request
    BY DEF MessageHolds
  <2>2. \A k \in m.batchStart .. m.opnum : k \in 1 .. Len(q)
    BY <1>1, <2>1
  <2>. QED BY <1>1, <1>2, <2>1, <2>2
<1>8. m.type = "PREPAREOK" =>
       /\ m.view = 0 /\ m.src \in Indices /\ m.opnum \in 0 .. Len(p)
       /\ new[m.src].status = "NORMAL" => m.opnum <= new[m.src].lastOp
  <2>. SUFFICES ASSUME m.type = "PREPAREOK"
                PROVE  /\ m.view = 0 /\ m.src \in Indices /\ m.opnum \in 0 .. Len(p)
                       /\ new[m.src].status = "NORMAL" =>
                            m.opnum <= new[m.src].lastOp
    OBVIOUS
  <2>1. /\ m.view = 0 /\ m.src \in Indices /\ m.opnum \in 0 .. Len(q)
        /\ rep[m.src].status = "NORMAL" => m.opnum <= rep[m.src].lastOp
    BY DEF MessageHolds
  <2>2. ASSUME m.src = r, t.status = "NORMAL" PROVE m.opnum <= t.lastOp
    <3>1. CASE t.status = rep[r].status
      <4>1. m.opnum <= rep[r].lastOp
        BY <2>1, <2>2, <3>1
      <4>2. rep[r].lastOp <= t.lastOp /\ rep[r].lastOp \in Nat /\ t.lastOp \in Nat
        BY <1>4
      <4>3. m.opnum \in Nat
        BY <1>1, <2>1
      <4>. QED BY <4>1, <4>2, <4>3
    <3>2. CASE t.status # rep[r].status
      BY <2>2, <3>2 DEF Advances
    <3>. QED BY <3>1, <3>2
  <2>. QED BY <1>2, <1>3, <2>1, <2>2
<1>9. m.type = "COMMIT" => m.view = 0 /\ m.opnum \in 0 .. Len(p)
  BY <1>2 DEF MessageHolds
<1>10. m.type = "REPLY" =>
        /\ m.opnum \in 0 .. Len(p)
        /\ m.opnum # 0 => p[m.opnum].request = m.request
  <2>. SUFFICES ASSUME m.type = "REPLY"
                PROVE  /\ m.opnum \in 0 .. Len(p)
                       /\ m.opnum # 0 => p[m.opnum].request = m.request
    OBVIOUS
  <2>1. /\ m.opnum \in 0 .. Len(q)
        /\ m.opnum # 0 => q[m.opnum].request = m.request
    BY DEF MessageHolds
  <2>2. m.opnum # 0 => m.opnum \in 1 .. Len(q)
    BY <1>1, <2>1
  <2>. QED BY <1>1, <1>2, <2>1, <2>2
<1>11. m.type = "REQUESTSTATETRANSFER" =>
        /\ m.view = 0 /\ m.src \in Indices \ {First}
        /\ m.opnum \in 0 .. Len(new[m.src].log)
  <2>. SUFFICES ASSUME m.type = "REQUESTSTATETRANSFER"
                PROVE  /\ m.view = 0 /\ m.src \in Indices \ {First}
                       /\ m.opnum \in 0 .. Len(new[m.src].log)
    OBVIOUS
  <2>1. /\ m.view = 0 /\ m.src \in Indices \ {First}
        /\ m.opnum \in 0 .. Len(rep[m.src].log)
    BY DEF MessageHolds
  <2>. QED BY <1>5, <2>1
<1>12. m.type = "STATETRANSFER" =>
        /\ m.view = 0 /\ m.to \in Indices \ {First} /\ m.opnum \in Nat
        /\ Segment(m.entries, p)
        /\ m.entries # << >> => m.entries[1].opnum <= Len(new[m.to].log) + 1
  <2>. SUFFICES ASSUME m.type = "STATETRANSFER"
                PROVE  /\ m.view = 0 /\ m.to \in Indices \ {First} /\ m.opnum \in Nat
                       /\ Segment(m.entries, p)
                       /\ m.entries # << >> =>
                            m.entries[1].opnum <= Len(new[m.to].log) + 1
    OBVIOUS
  <2>1. /\ m.view = 0 /\ m.to \in Indices \ {First} /\ m.opnum \in Nat
        /\ Segment(m.entries, q)
        /\ m.entries # << >> => m.entries[1].opnum <= Len(rep[m.to].log) + 1
    BY DEF MessageHolds
  <2>2. Segment(m.entries, p)
    BY <1>1, <2>1 DEF Segment
  <2>3. m.entries # << >> => m.entries[1].opnum \in Nat
    <3>1. m.entries # << >> => 1 \in 1 .. Len(m.entries)
      BY <2>1 DEF Segment
    <3>. QED BY <2>1, <3>1 DEF Segment
  <2>. QED BY <1>5, <2>1, <2>2, <2>3
<1>13. m.type = "RECOVERY" =>
        /\ m.src \in Indices /\ m.nonce \in Indices \X Nat
        /\ m.nonce[1] = m.src /\ m.nonce[2] <= rst[m.src]
  BY DEF MessageHolds
<1>14. m.type = "RECOVERYRESPONSE" =>
        /\ m \in ResponseMessage
        /\ m.src # m.to /\ m.nonce[1] = m.to /\ m.nonce[2] <= rst[m.to]
        /\ m.src = First => /\ Within(m.entries, p) /\ m.lastOp = Len(m.entries)
                            /\ m.lastCommitted <= m.lastOp
  <2>. SUFFICES ASSUME m.type = "RECOVERYRESPONSE"
                PROVE  /\ m \in ResponseMessage
                       /\ m.src # m.to /\ m.nonce[1] = m.to /\ m.nonce[2] <= rst[m.to]
                       /\ m.src = First =>
                            /\ Within(m.entries, p) /\ m.lastOp = Len(m.entries)
                            /\ m.lastCommitted <= m.lastOp
    OBVIOUS
  <2>1. /\ m \in ResponseMessage
        /\ m.src # m.to /\ m.nonce[1] = m.to /\ m.nonce[2] <= rst[m.to]
        /\ m.src = First => /\ Within(m.entries, q) /\ m.lastOp = Len(m.entries)
                            /\ m.lastCommitted <= m.lastOp
    BY DEF MessageHolds
  <2>2. Len(m.entries) \in Nat
    BY <2>1 DEF ResponseMessage
  <2>. QED BY <1>1, <2>1, <2>2, WithinTransitive
<1>15. MessageHolds(p, new, rst, m)
  BY <1>6, <1>7, <1>8, <1>9, <1>10, <1>11, <1>12, <1>13, <1>14 DEF MessageHolds
<1>. QED BY <1>15 DEF new

(* A datagram that may be sent: it is true of the log, and it neither         *)
(* acknowledges for another replica nor tells a recovering one too little.   *)
MaySend(p, r, t, rep, rst, ms, m) ==
  /\ MessageHolds(p, rep, rst, m)
  /\ m.type = "PREPAREOK" => m.src = r /\ t.status = "NORMAL"
  /\ m.type = "RECOVERYRESPONSE" /\ m.src = First => m.lastOp = Len(p)
  /\ m.type = "STATETRANSFER" => \E a \in ms : a.type = "REQUESTSTATETRANSFER"

(* What a step does to what holds of the log q: the log is p now, which only *)
(* the leader can have made longer.                                           *)
Keeps(q, p, r, x) ==
  /\ IsMaster(p) /\ Within(q, p) /\ (p = q \/ r = First)
  /\ ReplicaHolds(p, r, x.s)
  /\ ResponsesHold(r, x.s, restarts, msgs)
  /\ Advances(r, replica[r], x.s, msgs)
  /\ \A m \in x.out :
       MaySend(p, r, x.s, [replica EXCEPT ![r] = x.s], restarts, msgs, m)

LEMMA StepHolds ==
  ASSUME NEW q, Holds(q, replica, restarts, msgs), NEW p, NEW r \in Indices, NEW x,
         Step(r, x), Keeps(q, p, r, x)
  PROVE  LogHolds'
<1>. DEFINE t == x.s
            new == [replica EXCEPT ![r] = t]
            all == msgs \cup x.out
<1>1. replica' = new /\ msgs' = all /\ restarts' = restarts
  BY DEF Step
<1>2. /\ IsMaster(q) /\ replica \in [Indices -> ReplicaState]
      /\ restarts \in [Indices -> Nat]
      /\ \A i \in Indices : /\ ReplicaHolds(q, i, replica[i])
                            /\ ResponsesHold(i, replica[i], restarts, msgs)
      /\ \A m \in msgs : MessageHolds(q, replica, restarts, m)
      /\ Covered(replica, restarts, msgs)
      /\ \A i \in Indices : replica[i].status = "RECOVERING" =>
           \E m \in msgs : m.type = "RECOVERY"
      /\ \A m \in msgs : m.type = "STATETRANSFER" =>
           \E a \in msgs : a.type = "REQUESTSTATETRANSFER"
  BY DEF Holds
<1>3. /\ IsMaster(p) /\ Within(q, p) /\ (p = q \/ r = First)
      /\ ReplicaHolds(p, r, t) /\ ResponsesHold(r, t, restarts, msgs)
      /\ Advances(r, replica[r], t, msgs)
      /\ \A m \in x.out : MaySend(p, r, t, new, restarts, msgs, m)
  BY DEF Keeps
<1>. HIDE DEF t
<1>4. t \in ReplicaState /\ t.lastOp = Len(t.log)
  BY <1>3 DEF ReplicaHolds
<1>5. new \in [Indices -> ReplicaState]
  BY <1>2, <1>4
<1>6. \A i \in Indices : new[i] = IF i = r THEN t ELSE replica[i]
  BY <1>2
<1>. HIDE DEF new
<1>7. ASSUME NEW i \in Indices
      PROVE  ReplicaHolds(p, i, new[i]) /\ ResponsesHold(i, new[i], restarts, all)
  <2>1. CASE i = r
    BY <1>3, <1>6, <2>1 DEF ResponsesHold
  <2>2. CASE i # r
    <3>1. p = q \/ i # First
      BY <1>3, <2>2
    <3>2. ReplicaHolds(p, i, replica[i])
      BY <1>2, <1>3, <3>1, ReplicaStays, Zenon
    <3>. QED BY <1>2, <1>6, <2>2, <3>2 DEF ResponsesHold
  <2>. QED BY <2>1, <2>2
<1>8. ASSUME NEW m \in all PROVE MessageHolds(p, new, restarts, m)
  <2>1. CASE m \in x.out
    BY <1>3, <2>1 DEF MaySend
  <2>2. CASE m \in msgs
    <3>1. MessageHolds(q, replica, restarts, m) /\ replica[r].lastOp = Len(replica[r].log)
      BY <1>2, <2>2 DEF ReplicaHolds
    <3>2. MessageHolds(p, [replica EXCEPT ![r] = t], restarts, m)
      BY <1>2, <1>3, <1>4, <2>2, <3>1, MessageStays
    <3>. QED BY <3>2 DEF new
  <2>. QED BY <2>1, <2>2
<1>9. ASSUME NEW i \in Indices, new[i].status = "RECOVERING"
      PROVE  replica[i].status = "RECOVERING" /\ (i = r => t.status # "NORMAL")
  BY <1>3, <1>6, <1>9 DEF Advances
<1>10. Covered(new, restarts, all)
  <2>. SUFFICES ASSUME NEW m \in all, m.type = "RECOVERYRESPONSE", m.src = First,
                       new[m.to].status = "RECOVERING",
                       m.nonce = <<m.to, restarts[m.to]>>,
                       NEW a \in all, a.type = "PREPAREOK", a.src = m.to
                PROVE  a.opnum <= m.lastOp
    BY DEF Covered
  <2>1. m.to \in Indices
    BY <1>8 DEF MessageHolds, ResponseMessage
  <2>2. replica[m.to].status = "RECOVERING" /\ (m.to = r => t.status # "NORMAL")
    BY <1>9, <2>1
  <2>3. a \in msgs
    <3>1. CASE a \in x.out
      BY <1>3, <2>2, <3>1 DEF MaySend
    <3>. QED BY <3>1
  <2>4. CASE m \in msgs
    BY <1>2, <2>2, <2>3, <2>4 DEF Covered
  <2>5. CASE m \in x.out
    <3>1. m.lastOp = Len(p)
      BY <1>3, <2>5 DEF MaySend
    <3>2. a.opnum \in 0 .. Len(q)
      BY <1>2, <2>3 DEF MessageHolds
    <3>3. Len(q) \in Nat /\ Len(p) \in Nat /\ Len(q) <= Len(p)
      BY <1>2, <1>3, MasterLonger
    <3>. QED BY <3>1, <3>2, <3>3
  <2>. QED BY <2>4, <2>5
<1>11. \A i \in Indices : new[i].status = "RECOVERING" =>
         \E m \in all : m.type = "RECOVERY"
  BY <1>2, <1>9
<1>12. \A m \in all : m.type = "STATETRANSFER" =>
         \E a \in all : a.type = "REQUESTSTATETRANSFER"
  BY <1>2, <1>3 DEF MaySend
<1>13. Holds(p, new, restarts, all)
  BY <1>2, <1>3, <1>5, <1>7, <1>8, <1>10, <1>11, <1>12 DEF Holds
<1>. QED BY <1>1, <1>13 DEF LogHolds

(* The first view has not ended before it ends.                              *)
LEMMA FirstViewBefore ==
  ASSUME msgs \subseteq msgs', FirstView' PROVE FirstView
BY DEF FirstView, Received

LEMMA HeldParts ==
  ASSUME NEW q, Holds(q, replica, restarts, msgs), NEW r \in Indices
  PROVE  /\ IsMaster(q) /\ Within(q, q) /\ Len(q) \in Nat
         /\ replica[r] \in ReplicaState
         /\ ReplicaHolds(q, r, replica[r])
         /\ ResponsesHold(r, replica[r], restarts, msgs)
         /\ replica[r].view = 0 /\ AmLeader(r, replica[r]) = (r = First)
         /\ \A m \in msgs : MessageHolds(q, replica, restarts, m)
<1>1. /\ IsMaster(q) /\ ReplicaHolds(q, r, replica[r])
      /\ ResponsesHold(r, replica[r], restarts, msgs)
      /\ \A m \in msgs : MessageHolds(q, replica, restarts, m)
  BY DEF Holds
<1>2. Within(q, q) /\ Len(q) \in Nat
  BY <1>1 DEF IsMaster, Within
<1>3. replica[r] \in ReplicaState
  BY <1>1 DEF ReplicaHolds
<1>4. replica[r].view = 0
  BY <1>3 DEF ReplicaState
<1>. QED BY <1>1, <1>2, <1>3, <1>4 DEF AmLeader, First

(* A step that leaves the replica as it is and says something true.          *)
LEMMA SayingHolds ==
  ASSUME NEW q, Holds(q, replica, restarts, msgs), NEW r \in Indices, NEW out,
         Step(r, Went(replica[r], out)),
         \A m \in out : MaySend(q, r, replica[r], replica, restarts, msgs, m)
  PROVE  LogHolds'
<1>. DEFINE s == replica[r]
            x == Went(s, out)
<1>1. x.s = s /\ x.out = out
  BY DEF Went
<1>2. [replica EXCEPT ![r] = s] = replica
  BY DEF Holds
<1>3. /\ IsMaster(q) /\ Within(q, q) /\ ReplicaHolds(q, r, s)
      /\ ResponsesHold(r, s, restarts, msgs) /\ s \in ReplicaState
  BY HeldParts
<1>4. Advances(r, s, s, msgs)
  BY <1>3 DEF Advances, ReplicaState
<1>5. Keeps(q, q, r, x)
  BY <1>1, <1>2, <1>3, <1>4 DEF Keeps
<1>. QED BY <1>5, StepHolds

(* A step that changes what the replica has of the log, or nothing of that.  *)
LEMMA ChangeHolds ==
  ASSUME NEW q, Holds(q, replica, restarts, msgs), NEW r \in Indices, NEW x,
         Step(r, x), ReplicaHolds(q, r, x.s),
         x.s.recoveryResponses = replica[r].recoveryResponses,
         Advances(r, replica[r], x.s, msgs),
         \A m \in x.out :
           MaySend(q, r, x.s, [replica EXCEPT ![r] = x.s], restarts, msgs, m)
  PROVE  LogHolds'
<1>1. /\ IsMaster(q) /\ Within(q, q) /\ ResponsesHold(r, replica[r], restarts, msgs)
  BY HeldParts
<1>2. ResponsesHold(r, x.s, restarts, msgs)
  BY <1>1 DEF ResponsesHold
<1>3. Keeps(q, q, r, x)
  BY <1>1, <1>2 DEF Keeps
<1>. QED BY <1>3, StepHolds

-----------------------------------------------------------------------------
(* What may be said                                                          *)

LEMMA SayReply ==
  ASSUME NEW q, NEW r, NEW t, NEW rep, NEW rst, NEW ms, NEW m, IsReply(q, m)
  PROVE  MaySend(q, r, t, rep, rst, ms, m)
BY DEF MaySend, MessageHolds, IsReply

LEMMA SayAck ==
  ASSUME NEW q, NEW r \in Indices, NEW t, ReplicaHolds(q, r, t), Len(q) \in Nat,
         t.status = "NORMAL", NEW rep, rep[r] = t, NEW rst, NEW ms, NEW m,
         IsAck(r, t, m)
  PROVE  MaySend(q, r, t, rep, rst, ms, m)
<1>1. t.lastOp \in Nat /\ t.lastOp <= Len(q)
  BY DEF ReplicaHolds, Within, ReplicaState
<1>2. m.opnum \in 0 .. Len(q) /\ m.opnum <= t.lastOp
  BY <1>1 DEF IsAck
<1>. QED BY <1>2 DEF MaySend, MessageHolds, IsAck

LEMMA SayCommit ==
  ASSUME NEW q, NEW r, NEW s, ReplicaHolds(q, r, s), Len(q) \in Nat,
         NEW t, NEW rep, NEW rst, NEW ms
  PROVE  MaySend(q, r, t, rep, rst, ms, Commit(s))
<1>1. Len(s.executed) \in 0 .. Len(q) /\ s.view = 0
  BY DEF ReplicaHolds, Within, ReplicaState
<1>. QED BY <1>1 DEF MaySend, MessageHolds, Commit, lastCommitted

IsPrepare(q, m) ==
  /\ m.type = "PREPARE" /\ m.view = 0 /\ m.opnum \in 0 .. Len(q)
  /\ m.batchStart \in Nat \ {0}
  /\ \A k \in m.batchStart .. m.opnum : RequestAt(m, k) = q[k].request

LEMMA SayPrepare ==
  ASSUME NEW q, NEW r, NEW t, NEW rep, NEW rst, NEW ms, NEW m, IsPrepare(q, m)
  PROVE  MaySend(q, r, t, rep, rst, ms, m)
BY DEF MaySend, MessageHolds, IsPrepare

LEMMA SayTransferRequest ==
  ASSUME NEW q, NEW r \in Indices \ {First}, NEW s, ReplicaHolds(q, r, s),
         NEW t, NEW rep, rep[r] = s, NEW rst, NEW ms, NEW m,
         m \in RequestStateTransfer(r, s)
  PROVE  MaySend(q, r, t, rep, rst, ms, m)
<1>1. Len(s.executed) \in 0 .. Len(s.log) /\ s.view = 0
  BY DEF ReplicaHolds, ReplicaState
<1>2. m = [type |-> "REQUESTSTATETRANSFER", view |-> s.view, src |-> r,
           opnum |-> lastCommitted(s)]
  <2>. DEFINE all == Received("REQUESTSTATETRANSFER") \cup
                       {[type |-> "REQUESTSTATETRANSFER", view |-> s.view, src |-> r,
                         opnum |-> lastCommitted(s)]}
  <2>. HIDE DEF all
  <2>. QED BY DEF RequestStateTransfer, all
<1>3. /\ m.type = "REQUESTSTATETRANSFER" /\ m.view = 0 /\ m.src = r
      /\ m.opnum = Len(s.executed)
  BY <1>1, <1>2 DEF lastCommitted
<1>. QED BY <1>1, <1>3 DEF MaySend, MessageHolds

-----------------------------------------------------------------------------
(* The normal case                                                           *)

(* What a batch prepares is what the log has.                                *)
LEMMA CloseBatchFine ==
  ASSUME NEW q, IsMaster(q), NEW r, NEW x, ReplicaHolds(q, r, x.s)
  PROVE  LET y == CloseBatch(x)
         IN  /\ ReplicaHolds(q, r, y.s) /\ Alike(x.s, y.s)
             /\ \A m \in y.out : m \in x.out \/ IsPrepare(q, m)
<1>. DEFINE s == x.s
            y == CloseBatch(x)
            low == s.lastBatchEnd + 1
            ops == Opnums(low, s.lastOp)
            requests == [i \in DOMAIN ops |-> s.log[s.lastBatchEnd + i].request]
            t == [s EXCEPT !.lastBatchEnd = s.lastOp, !.batchComplete = FALSE,
                           !.closeBatch = FALSE]
            m == [type |-> "PREPARE", view |-> s.view, opnum |-> s.lastOp,
                  batchStart |-> low, requests |-> requests]
<1>1. y.s = t /\ y.out = x.out \cup {m}
  BY DEF CloseBatch, Went
<1>2. /\ s \in ReplicaState /\ s.lastOp = Len(s.log) /\ s.lastOp \in Nat
      /\ s.lastBatchEnd \in Nat /\ s.lastBatchEnd <= s.lastOp
      /\ Within(s.log, q) /\ s.view = 0 /\ Len(q) \in Nat
  BY DEF ReplicaHolds, ReplicaState, IsMaster
<1>3. /\ low \in Nat \ {0}
      /\ Len(ops) = IF low <= s.lastOp THEN s.lastOp - low + 1 ELSE 0
      /\ DOMAIN ops = 1 .. Len(ops)
  <2>1. low \in Nat \ {0}
    BY <1>2
  <2>. HIDE DEF low
  <2>2. ops \in Seq(Nat) /\ Len(ops) = IF low <= s.lastOp THEN s.lastOp - low + 1 ELSE 0
    BY <1>2, <2>1, OpnumsAre
  <2>. HIDE DEF ops
  <2>. QED BY <2>1, <2>2
<1>. HIDE DEF y, ops
<1>4. ASSUME NEW k \in low .. s.lastOp PROVE requests[k - low + 1] = q[k].request
  <2>1. k - low + 1 \in 1 .. Len(ops) /\ s.lastBatchEnd + (k - low + 1) = k
        /\ k \in 1 .. Len(s.log)
    <3>. DEFINE batchEnd == s.lastBatchEnd
                lastOp == s.lastOp
    <3>1. /\ batchEnd \in Nat /\ lastOp \in Nat /\ low = batchEnd + 1
          /\ lastOp = Len(s.log)
      BY <1>2
    <3>. HIDE DEF batchEnd, lastOp, low, requests, m, t
    <3>2. k \in low .. lastOp /\ Len(ops) = lastOp - low + 1
      BY <1>3, <3>1 DEF lastOp
    <3>3. k - low + 1 \in 1 .. Len(ops) /\ batchEnd + (k - low + 1) = k /\ k \in 1 .. lastOp
      BY <3>1, <3>2
    <3>. QED BY <3>1, <3>3 DEF batchEnd
  <2>2. requests[k - low + 1] = s.log[s.lastBatchEnd + (k - low + 1)].request
    BY <1>3, <2>1
  <2>3. s.log[k] = q[k]
    BY <1>2, <2>1 DEF Within
  <2>. HIDE DEF requests
  <2>. QED BY <2>1, <2>2, <2>3
<1>. HIDE DEF requests
<1>5. IsPrepare(q, m)
  <2>1. s.lastOp \in 0 .. Len(q)
    BY <1>2 DEF Within
  <2>. HIDE DEF low
  <2>. QED BY <1>2, <1>3, <1>4, <2>1 DEF IsPrepare, RequestAt
<1>. HIDE DEF m
<1>6. /\ t \in ReplicaState /\ Alike(s, t) /\ t.executed = s.executed
      /\ t.clientTable = s.clientTable /\ t.lastBatchEnd = s.lastOp
      /\ t.log = s.log /\ t.lastOp = s.lastOp /\ t.status = s.status
      /\ t.prepareOKs = s.prepareOKs
  BY <1>2 DEF ReplicaState, Alike
<1>. HIDE DEF t
<1>7. ReplicaHolds(q, r, t)
  <2>1. r = First /\ t.status = "NORMAL" => Leads(q, t)
    BY <1>6 DEF ReplicaHolds, Leads
  <2>2. t.lastBatchEnd <= t.lastOp
    BY <1>2, <1>6
  <2>. QED BY <1>6, <2>1, <2>2 DEF ReplicaHolds
<1>. QED BY <1>1, <1>5, <1>6, <1>7 DEF y

LEMMA CloseBatchTimeoutHolds ==
  ASSUME NEW q, Holds(q, replica, restarts, msgs), NEW r \in Indices,
         CloseBatchTimeout(r)
  PROVE  LogHolds'
<1>. DEFINE s == replica[r]
            x == Went(s, {})
            y == CloseBatch(x)
<1>1. Step(r, y)
  BY DEF CloseBatchTimeout
<1>2. IsMaster(q) /\ ReplicaHolds(q, r, s) /\ s \in ReplicaState
  BY HeldParts
<1>3. x.s = s /\ x.out = {}
  BY DEF Went
<1>. HIDE DEF s, x
<1>4. /\ ReplicaHolds(q, r, y.s) /\ Alike(x.s, y.s)
      /\ \A m \in y.out : m \in x.out \/ IsPrepare(q, m)
  BY <1>2, <1>3, CloseBatchFine
<1>. HIDE DEF y
<1>5. Advances(r, s, y.s, msgs) /\ y.s.recoveryResponses = s.recoveryResponses
  BY <1>2, <1>3, <1>4 DEF Advances, Alike, ReplicaState
<1>6. \A m \in y.out :
        MaySend(q, r, y.s, [replica EXCEPT ![r] = y.s], restarts, msgs, m)
  BY <1>3, <1>4, SayPrepare
<1>. QED BY <1>1, <1>4, <1>5, <1>6, ChangeHolds DEF s

LEMMA SendNullCommitHolds ==
  ASSUME NEW q, Holds(q, replica, restarts, msgs), NEW r \in Indices,
         SendNullCommit(r)
  PROVE  LogHolds'
<1>1. Step(r, Went(replica[r], {Commit(replica[r])}))
  BY DEF SendNullCommit
<1>2. ReplicaHolds(q, r, replica[r]) /\ Len(q) \in Nat
  BY HeldParts
<1>3. MaySend(q, r, replica[r], replica, restarts, msgs, Commit(replica[r]))
  BY <1>2, SayCommit
<1>. QED BY <1>1, <1>3, SayingHolds

LEMMA HandlePrepareHolds ==
  ASSUME NEW q, Holds(q, replica, restarts, msgs), NEW r \in Indices,
         HandlePrepare(r)
  PROVE  LogHolds'
<1>. DEFINE s == replica[r]
<1>1. PICK m \in Received("PREPARE") :
        LET ok == PrepareOK(r, m.view, m.opnum) IN
        /\ s.status = "NORMAL" /\ m.view >= s.view
        /\ GetLeaderIndex(m.view) # r
        /\ \/ /\ m.view > s.view
              /\ Step(r, Went(s, RequestStateTransfer(r, s)))
           \/ /\ m.view = s.view /\ m.opnum <= s.lastOp
              /\ Step(r, Went(s, {ok}))
           \/ /\ m.view = s.view /\ m.opnum > s.lastOp
              /\ m.batchStart > s.lastOp + 1
              /\ Step(r, Went(s, RequestStateTransfer(r, s)))
           \/ /\ m.view = s.view /\ m.opnum > s.lastOp
              /\ m.batchStart <= s.lastOp + 1
              /\ Step(r, Went(Appended(s, m), {ok}))
  BY DEF HandlePrepare
<1>. DEFINE ok == PrepareOK(r, m.view, m.opnum)
<1>2. /\ IsMaster(q) /\ ReplicaHolds(q, r, s) /\ Len(q) \in Nat
      /\ s \in ReplicaState /\ s.view = 0
  BY HeldParts
<1>3. m \in msgs /\ m.type = "PREPARE" /\ MessageHolds(q, replica, restarts, m)
  BY HeldParts DEF Received
<1>4. /\ m.view = 0 /\ m.opnum \in 0 .. Len(q) /\ m.batchStart \in Nat \ {0}
      /\ \A k \in m.batchStart .. m.opnum : RequestAt(m, k) = q[k].request
  BY <1>3 DEF MessageHolds
<1>5. r # First
  BY <1>1, <1>4 DEF First
<1>6. ASSUME NEW t, m.opnum <= t.lastOp PROVE IsAck(r, t, ok) \/ t.lastOp \notin Nat
  BY <1>2, <1>4, <1>6 DEF IsAck, PrepareOK
<1>7. CASE Step(r, Went(s, RequestStateTransfer(r, s)))
  <2>1. \A n \in RequestStateTransfer(r, s) :
          MaySend(q, r, s, replica, restarts, msgs, n)
    BY <1>2, <1>5, SayTransferRequest
  <2>. QED BY <1>7, <2>1, SayingHolds
<1>8. CASE m.opnum <= s.lastOp /\ Step(r, Went(s, {ok}))
  <2>1. IsAck(r, s, ok)
    BY <1>2, <1>6, <1>8 DEF ReplicaState
  <2>. HIDE DEF ok
  <2>2. MaySend(q, r, s, replica, restarts, msgs, ok)
    BY <1>1, <1>2, <2>1, SayAck
  <2>. QED BY <1>8, <2>2, SayingHolds
<1>9. CASE /\ m.opnum > s.lastOp /\ m.batchStart <= s.lastOp + 1
           /\ Step(r, Went(Appended(s, m), {ok}))
  <2>. DEFINE t == Appended(s, m)
              x == Went(t, {ok})
  <2>1. ReplicaHolds(q, r, t) /\ Grown(s, t) /\ t.lastOp = m.opnum
    <3>1. s.status = "NORMAL" /\ ReplicaHolds(q, r, s) /\ IsMaster(q)
      BY <1>1, <1>2
    <3>. HIDE DEF s, ok
    <3>. QED BY <1>4, <1>5, <1>9, <3>1, AppendedFine
  <2>. HIDE DEF t
  <2>2. t \in ReplicaState /\ t.status = "NORMAL"
    BY <1>1, <2>1 DEF ReplicaHolds, Grown
  <2>3. IsAck(r, t, ok)
    BY <1>4, <1>6, <2>1, <2>2 DEF ReplicaState
  <2>. HIDE DEF ok
  <2>4. [replica EXCEPT ![r] = t][r] = t
    BY DEF Holds
  <2>5. MaySend(q, r, t, [replica EXCEPT ![r] = t], restarts, msgs, ok)
    BY <1>2, <2>1, <2>2, <2>3, <2>4, SayAck
  <2>6. x.s = t /\ x.out = {ok} /\ Step(r, x)
    BY <1>9 DEF Went, t
  <2>7. Advances(r, s, t, msgs) /\ t.recoveryResponses = s.recoveryResponses
    BY <2>1 DEF Advances, Grown
  <2>. HIDE DEF x
  <2>. QED BY <2>1, <2>5, <2>6, <2>7, ChangeHolds
<1>. QED BY <1>1, <1>7, <1>8, <1>9

LEMMA HandleCommitHolds ==
  ASSUME NEW q, Holds(q, replica, restarts, msgs), NEW r \in Indices,
         HandleCommit(r)
  PROVE  LogHolds'
<1>. DEFINE s == replica[r]
<1>1. PICK m \in Received("COMMIT") :
        /\ GetLeaderIndex(m.view) # r
        /\ s.status = "NORMAL"
        /\ \/ /\ \/ m.view > s.view
                 \/ m.view = s.view /\ m.opnum > lastCommitted(s) /\ m.opnum > s.lastOp
              /\ Step(r, Went(s, RequestStateTransfer(r, s)))
           \/ /\ m.view = s.view
              /\ m.opnum > lastCommitted(s) /\ m.opnum <= s.lastOp
              /\ m.opnum <= Len(s.log)
              /\ Step(r, CommitUpTo(Went(s, {}), m.opnum))
  BY DEF HandleCommit, CanCommit
<1>2. /\ IsMaster(q) /\ ReplicaHolds(q, r, s) /\ Len(q) \in Nat
      /\ s \in ReplicaState /\ s.view = 0
  BY HeldParts
<1>3. m \in msgs /\ m.type = "COMMIT" /\ MessageHolds(q, replica, restarts, m)
  BY HeldParts DEF Received
<1>4. m.view = 0 /\ m.opnum \in 0 .. Len(q) /\ m.opnum \in Nat
  BY <1>3 DEF MessageHolds
<1>5. r # First
  BY <1>1, <1>4 DEF First
<1>6. CASE Step(r, Went(s, RequestStateTransfer(r, s)))
  <2>1. \A n \in RequestStateTransfer(r, s) :
          MaySend(q, r, s, replica, restarts, msgs, n)
    BY <1>2, <1>5, SayTransferRequest
  <2>. QED BY <1>6, <2>1, SayingHolds
<1>7. CASE m.opnum <= Len(s.log) /\ Step(r, CommitUpTo(Went(s, {}), m.opnum))
  <2>. DEFINE x == Went(s, {})
              y == CommitUpTo(x, m.opnum)
  <2>1. x.s = s /\ x.out = {}
    BY DEF Went
  <2>. HIDE DEF x
  <2>2. Executed(q, r, x, y)
    BY <1>2, <1>4, <1>7, <2>1, CommitUpToFine
  <2>3. Step(r, y)
    BY <1>7 DEF x
  <2>. HIDE DEF y
  <2>4. /\ ReplicaHolds(q, r, y.s)
        /\ \A n \in y.out : IsReply(q, n)
    BY <2>1, <2>2 DEF Executed
  <2>5. Advances(r, s, y.s, msgs) /\ y.s.recoveryResponses = s.recoveryResponses
    BY <1>2, <2>1, <2>2 DEF Executed, Advances, Alike, ReplicaState
  <2>6. \A n \in y.out :
          MaySend(q, r, y.s, [replica EXCEPT ![r] = y.s], restarts, msgs, n)
    BY <2>4, SayReply
  <2>. QED BY <2>3, <2>4, <2>5, <2>6, ChangeHolds
<1>. QED BY <1>1, <1>6, <1>7

(* What the invariant does not look at may change.                           *)
LEMMA SameHolds ==
  ASSUME NEW q, NEW r, NEW s, ReplicaHolds(q, r, s), NEW t \in ReplicaState,
         Alike(s, [t EXCEPT !.prepareOKs = s.prepareOKs]),
         t.executed = s.executed, t.clientTable = s.clientTable,
         t.lastBatchEnd = s.lastBatchEnd, IsFiniteSet(t.prepareOKs)
  PROVE  ReplicaHolds(q, r, t)
<1>1. t.status = s.status /\ t.log = s.log /\ t.lastOp = s.lastOp
  BY DEF Alike, ReplicaState
<1>2. r = First /\ t.status = "NORMAL" => Leads(q, t)
  BY <1>1 DEF ReplicaHolds, Leads
<1>. QED BY <1>1, <1>2 DEF ReplicaHolds

(* What the leader does when its log does not change.                        *)
Goes(q, r, s, y) ==
  /\ ReplicaHolds(q, r, y.s) /\ Alike(s, y.s)
  /\ \A m \in y.out : IsReply(q, m) \/ IsPrepare(q, m)
                        \/ \E u : ReplicaHolds(q, r, u) /\ m = Commit(u)

LEMMA GoesHolds ==
  ASSUME NEW q, Holds(q, replica, restarts, msgs), NEW r \in Indices, NEW s,
         ReplicaHolds(q, r, s), s.status = replica[r].status,
         s.log = replica[r].log,
         s.recoveryResponses = replica[r].recoveryResponses,
         NEW y, Step(r, y), Goes(q, r, s, y)
  PROVE  LogHolds'
<1>1. Len(q) \in Nat /\ replica[r] \in ReplicaState
  BY HeldParts
<1>2. /\ ReplicaHolds(q, r, y.s)
      /\ y.s.recoveryResponses = replica[r].recoveryResponses
  BY DEF Goes, Alike
<1>3. Advances(r, replica[r], y.s, msgs)
  BY <1>1 DEF Goes, Alike, Advances, ReplicaState
<1>4. ASSUME NEW m \in y.out
      PROVE  MaySend(q, r, y.s, [replica EXCEPT ![r] = y.s], restarts, msgs, m)
  <2>1. CASE IsReply(q, m)
    BY <2>1, SayReply
  <2>2. CASE IsPrepare(q, m)
    BY <2>2, SayPrepare
  <2>3. CASE \E u : ReplicaHolds(q, r, u) /\ m = Commit(u)
    BY <1>1, <2>3, SayCommit
  <2>. QED BY <2>1, <2>2, <2>3 DEF Goes
<1>. QED BY <1>2, <1>3, <1>4, ChangeHolds

(* The quorum of an operation of the log lets it execute it.                 *)
LEMMA QuorumFine ==
  ASSUME NEW q, IsMaster(q), NEW r, NEW x, ReplicaHolds(q, r, x.s), x.out = {},
         NEW opnum \in Nat, opnum <= Len(x.s.log)
  PROVE  Goes(q, r, x.s, HandlePrepareOKQuorum(x, opnum))
<1>. DEFINE y == CommitUpTo(x, opnum)
            z == Went(y.s, y.out \cup {Commit(y.s)})
            all == {o \in y.s.prepareOKs : o.opnum = opnum}
            n == Cardinality(all)
            t == [z.s EXCEPT !.batchComplete = TRUE]
<1>1. Executed(q, r, x, y)
  BY CommitUpToFine
<1>2. HandlePrepareOKQuorum(x, opnum) =
        CASE n >= QuorumSize -> y
          [] n < QuorumSize /\ y.s.lastBatchEnd # opnum -> z
          [] n < QuorumSize /\ y.s.lastBatchEnd = opnum ->
               IF y.s.lastOp > opnum THEN CloseBatch(z) ELSE Went(t, z.out)
  BY DEF HandlePrepareOKQuorum
<1>. HIDE DEF y
<1>3. /\ ReplicaHolds(q, r, y.s) /\ Alike(x.s, y.s) /\ y.s \in ReplicaState
      /\ \A m \in y.out : IsReply(q, m)
  BY <1>1 DEF Executed, ReplicaHolds
<1>4. n \in Nat /\ QuorumSize \in Nat
  <2>1. IsFiniteSet(y.s.prepareOKs)
    BY <1>3 DEF ReplicaHolds
  <2>2. IsFiniteSet(all)
    BY <2>1, FS_Subset
  <2>. HIDE DEF all
  <2>. QED BY <2>2, FS_CardinalityType, ConfigurationAssumption DEF QuorumSize
<1>5. z.s = y.s /\ z.out = y.out \cup {Commit(y.s)}
  BY DEF Went
<1>. HIDE DEF n, z
<1>6. \A m \in z.out : IsReply(q, m) \/ \E u : ReplicaHolds(q, r, u) /\ m = Commit(u)
  BY <1>3, <1>5
<1>7. CASE n >= QuorumSize
  <2>1. HandlePrepareOKQuorum(x, opnum) = y
    BY <1>2, <1>4, <1>7
  <2>. QED BY <1>3, <2>1 DEF Goes
<1>8. CASE n < QuorumSize /\ y.s.lastBatchEnd # opnum
  <2>1. HandlePrepareOKQuorum(x, opnum) = z
    BY <1>2, <1>4, <1>8
  <2>. QED BY <1>3, <1>5, <1>6, <2>1 DEF Goes
<1>9. CASE n < QuorumSize /\ y.s.lastBatchEnd = opnum /\ y.s.lastOp > opnum
  <2>. DEFINE w == CloseBatch(z)
  <2>1. HandlePrepareOKQuorum(x, opnum) = w
    BY <1>2, <1>4, <1>9
  <2>2. /\ ReplicaHolds(q, r, w.s) /\ Alike(z.s, w.s)
        /\ \A m \in w.out : m \in z.out \/ IsPrepare(q, m)
    BY <1>3, <1>5, CloseBatchFine
  <2>. HIDE DEF w
  <2>3. Alike(x.s, w.s)
    BY <1>3, <1>5, <2>2 DEF Alike
  <2>. QED BY <1>6, <2>1, <2>2, <2>3 DEF Goes
<1>10. CASE n < QuorumSize /\ y.s.lastBatchEnd = opnum /\ ~(y.s.lastOp > opnum)
  <2>1. HandlePrepareOKQuorum(x, opnum) = Went(t, z.out)
    BY <1>2, <1>4, <1>10
  <2>2. t \in ReplicaState /\ Alike(y.s, t) /\ t.executed = y.s.executed
        /\ t.clientTable = y.s.clientTable /\ t.lastBatchEnd = y.s.lastBatchEnd
        /\ t.prepareOKs = y.s.prepareOKs
    BY <1>3, <1>5 DEF ReplicaState, Alike
  <2>. HIDE DEF t
  <2>3. Alike(y.s, [t EXCEPT !.prepareOKs = y.s.prepareOKs])
    BY <2>2 DEF Alike, ReplicaState
  <2>4. ReplicaHolds(q, r, t)
    <3>1. IsFiniteSet(t.prepareOKs)
      BY <1>3, <2>2 DEF ReplicaHolds
    <3>. QED BY <1>3, <2>2, <2>3, <3>1, SameHolds
  <2>5. Alike(x.s, t)
    BY <1>3, <2>2 DEF Alike
  <2>. QED BY <1>6, <2>1, <2>4, <2>5 DEF Goes, Went
<1>. QED BY <1>4, <1>7, <1>8, <1>9, <1>10

LEMMA HandlePrepareOKHolds ==
  ASSUME NEW q, Holds(q, replica, restarts, msgs), NEW r \in Indices,
         HandlePrepareOK(r)
  PROVE  LogHolds'
<1>1. PICK m \in Received("PREPAREOK") :
        LET s == [replica[r] EXCEPT !.prepareOKs =
                    @ \cup {[opnum |-> m.opnum, src |-> m.src]}]
        IN  /\ GetLeaderIndex(m.view) = r
            /\ replica[r].status = "NORMAL" /\ m.view >= replica[r].view
            /\ \/ /\ m.view > replica[r].view
                  /\ Step(r, Went(replica[r], RequestStateTransfer(r, replica[r])))
               \/ /\ m.view = replica[r].view /\ ~PrepareOKQuorum(s, m.opnum)
                  /\ Step(r, Went(s, {}))
               \/ /\ m.view = replica[r].view /\ PrepareOKQuorum(s, m.opnum)
                  /\ m.opnum <= Len(s.log)
                  /\ Step(r, HandlePrepareOKQuorum(Went(s, {}), m.opnum))
  BY DEF HandlePrepareOK, CanCommit
<1>. DEFINE o == [opnum |-> m.opnum, src |-> m.src]
            oks == replica[r].prepareOKs \cup {o}
            s == [replica[r] EXCEPT !.prepareOKs = oks]
            x == Went(s, {})
<1>2. /\ IsMaster(q) /\ ReplicaHolds(q, r, replica[r]) /\ Len(q) \in Nat
      /\ replica[r] \in ReplicaState /\ replica[r].view = 0
  BY HeldParts
<1>3. m \in msgs /\ m.type = "PREPAREOK" /\ MessageHolds(q, replica, restarts, m)
  BY HeldParts DEF Received
<1>4. m.view = 0 /\ m.src \in Indices /\ m.opnum \in Nat
  BY <1>2, <1>3 DEF MessageHolds
<1>5. oks \in SUBSET [opnum : Nat, src : Indices] /\ IsFiniteSet(oks)
  <2>1. IsFiniteSet(replica[r].prepareOKs)
    BY <1>2 DEF ReplicaHolds
  <2>2. o \in [opnum : Nat, src : Indices]
    BY <1>4
  <2>3. replica[r].prepareOKs \in SUBSET [opnum : Nat, src : Indices]
    BY <1>2 DEF ReplicaState
  <2>. HIDE DEF o
  <2>. QED BY <2>1, <2>2, <2>3, FS_AddElement
<1>6. s = [replica[r] EXCEPT !.prepareOKs = @ \cup {[opnum |-> m.opnum, src |-> m.src]}]
  BY <1>2 DEF ReplicaState
<1>. HIDE DEF oks
<1>7. /\ s \in ReplicaState /\ s.executed = replica[r].executed
      /\ s.clientTable = replica[r].clientTable
      /\ s.lastBatchEnd = replica[r].lastBatchEnd /\ s.prepareOKs = oks
      /\ s.status = replica[r].status /\ s.log = replica[r].log
      /\ s.recoveryResponses = replica[r].recoveryResponses
      /\ Alike(replica[r], [s EXCEPT !.prepareOKs = replica[r].prepareOKs])
  BY <1>2, <1>5 DEF ReplicaState, Alike
<1>8. ReplicaHolds(q, r, s)
  <2>. HIDE DEF s
  <2>. QED BY <1>2, <1>5, <1>7, SameHolds
<1>9. x.s = s /\ x.out = {}
  BY DEF Went
<1>10. \/ Step(r, x)
       \/ m.opnum <= Len(s.log) /\ Step(r, HandlePrepareOKQuorum(x, m.opnum))
  <2>1. ~(m.view > replica[r].view)
    BY <1>2, <1>4
  <2>. QED BY <1>1, <1>6, <2>1
<1>. HIDE DEF s, x
<1>11. CASE Step(r, x)
  <2>1. Goes(q, r, s, x)
    BY <1>8, <1>9 DEF Goes, Alike
  <2>. QED BY <1>7, <1>8, <1>11, <2>1, GoesHolds
<1>12. CASE m.opnum <= Len(s.log) /\ Step(r, HandlePrepareOKQuorum(x, m.opnum))
  <2>1. Goes(q, r, s, HandlePrepareOKQuorum(x, m.opnum))
    BY <1>2, <1>4, <1>8, <1>9, <1>12, QuorumFine
  <2>. QED BY <1>7, <1>8, <1>12, <2>1, GoesHolds
<1>. QED BY <1>10, <1>11, <1>12

(* A client's request that is none of the log, nor older than one of it.     *)
IsNew(q, request) ==
  \A i \in 1 .. Len(q) : q[i].request.client = request.client =>
                           q[i].request.id < request.id

Ordered(p, q, s, t) ==
  /\ IsMaster(p) /\ Within(q, p) /\ ReplicaHolds(p, First, t)
  /\ t.status = s.status /\ t.log = p
  /\ t.recoveryResponses = s.recoveryResponses

(* A request the leader has not seen is what its log goes on with.           *)
LEMMA LeaderAppends ==
  ASSUME NEW q, IsMaster(q), NEW s, ReplicaHolds(q, First, s), s.status = "NORMAL",
         NEW request \in Request,
         IsNew(q, request), s.clientTable[request.client].id = request.id,
         NEW e, e = Entry(0, Len(q) + 1, request)
  PROVE  Ordered(Append(q, e), q, s,
                 [s EXCEPT !.lastOp = s.lastOp + 1, !.log = Append(q, e)])
<1>. DEFINE p == Append(q, e)
            op == s.lastOp + 1
            t == [s EXCEPT !.lastOp = op, !.log = p]
<1>1. /\ s \in ReplicaState /\ s.log = q /\ s.lastOp = Len(q) /\ Len(q) \in Nat
      /\ q \in Seq(LogEntry) /\ Leads(q, s)
      /\ s.clientTable \in [Clients -> ClientEntry] /\ TableHolds(q, s.clientTable)
      /\ Len(s.executed) \in Nat /\ Len(s.executed) <= Len(q)
      /\ \A i \in 1 .. Len(s.executed) : s.executed[i] = q[i].request
      /\ s.lastBatchEnd \in Nat /\ s.lastBatchEnd <= Len(q)
      /\ IsFiniteSet(s.prepareOKs)
  BY DEF ReplicaHolds, ReplicaState, Leads, IsMaster
<1>2. e \in LogEntry /\ e.view = 0 /\ e.opnum = Len(q) + 1 /\ e.request = request
  BY <1>1 DEF Entry, LogEntry
<1>3. /\ p \in Seq(LogEntry) /\ Len(p) = Len(q) + 1
      /\ \A i \in 1 .. Len(q) : p[i] = q[i]
      /\ p[Len(q) + 1] = e
  BY <1>1, <1>2, Appending
<1>4. /\ t \in ReplicaState /\ t.status = s.status /\ t.log = p
      /\ t.lastOp = op /\ t.executed = s.executed
      /\ t.clientTable = s.clientTable /\ t.lastBatchEnd = s.lastBatchEnd
      /\ t.prepareOKs = s.prepareOKs /\ t.recoveryResponses = s.recoveryResponses
      /\ op = Len(q) + 1
  <2>1. op \in Nat /\ op = Len(q) + 1
    BY <1>1
  <2>. HIDE DEF op, p
  <2>. QED BY <1>1, <1>3, <2>1 DEF ReplicaState
<1>. HIDE DEF p, t, op
<1>5. \A i \in 1 .. Len(p) : i \in 1 .. Len(q) \/ i = Len(q) + 1
  BY <1>1, <1>3
<1>6. ASSUME NEW i \in 1 .. Len(q)
      PROVE  q[i].request \in Request /\ q[i].view = 0 /\ q[i].opnum = i
  <2>1. q[i] \in LogEntry
    BY <1>1, ElementOfSeq
  <2>. QED BY <2>1 DEF IsMaster, LogEntry
<1>7. Within(q, p)
  BY <1>1, <1>3 DEF Within
<1>8. IsMaster(p)
  <2>1. \A i \in 1 .. Len(p) : p[i].view = 0 /\ p[i].opnum = i
    BY <1>2, <1>3, <1>5, <1>6
  <2>2. ASSUME NEW i \in 1 .. Len(p), NEW j \in 1 .. Len(p), i < j,
               p[i].request.client = p[j].request.client
        PROVE  p[i].request.id < p[j].request.id
    <3>1. i \in 1 .. Len(q)
      BY <1>1, <1>3, <2>2
    <3>2. CASE j \in 1 .. Len(q)
      BY <1>3, <2>2, <3>1, <3>2 DEF IsMaster
    <3>3. CASE j = Len(q) + 1
      BY <1>2, <1>3, <2>2, <3>1, <3>3 DEF IsNew
    <3>. QED BY <1>5, <3>2, <3>3
  <2>. QED BY <1>3, <2>1, <2>2 DEF IsMaster
<1>9. TableHolds(p, t.clientTable)
  BY <1>1, <1>4, <1>7, <1>8, TableStays
<1>10. Leads(p, t)
  <2>1. ASSUME NEW i \in 1 .. Len(p)
        PROVE  p[i].request.id <= t.clientTable[p[i].request.client].id
    <3>1. CASE i \in 1 .. Len(q)
      BY <1>1, <1>3, <1>4, <3>1 DEF Leads
    <3>2. CASE i = Len(q) + 1
      <4>1. request.id \in Nat
        BY DEF Request
      <4>. QED BY <1>2, <1>3, <1>4, <3>2, <4>1
    <3>. QED BY <1>5, <3>1, <3>2
  <2>. QED BY <1>4, <2>1 DEF Leads
<1>11. Within(t.log, p) /\ t.lastOp = Len(t.log) /\ Len(t.executed) <= Len(t.log)
       /\ t.lastBatchEnd <= t.lastOp
  BY <1>1, <1>3, <1>4 DEF Within
<1>12. \A i \in 1 .. Len(t.executed) : t.executed[i] = p[i].request
  BY <1>1, <1>3, <1>4
<1>13. ReplicaHolds(p, First, t)
  BY <1>1, <1>4, <1>9, <1>10, <1>11, <1>12 DEF ReplicaHolds
<1>. QED BY <1>4, <1>7, <1>8, <1>13 DEF p, t, op, Ordered

(* The request goes into a batch, which is closed or is to be.               *)
LEMMA AppendRequestHolds ==
  ASSUME NEW q, Holds(q, replica, restarts, msgs), NEW r \in Indices, r = First,
         NEW s, ReplicaHolds(q, r, s), s.status = "NORMAL",
         s.status = replica[r].status, s.log = replica[r].log,
         s.recoveryResponses = replica[r].recoveryResponses,
         NEW request \in Request, s.clientTable[request.client].id < request.id,
         AppendRequest(r, s, request)
  PROVE  LogHolds'
<1>. DEFINE known == UpdateClientTable(s, request)
            op == s.lastOp + 1
            t == [known EXCEPT !.lastOp = op,
                               !.log = Append(@, Entry(s.view, op, request))]
            x == IF BatchFull(t) THEN CloseBatch(Went(t, {}))
                 ELSE Went([t EXCEPT !.closeBatch = TRUE], {})
            e == Entry(0, Len(q) + 1, request)
            p == Append(q, e)
            u == [known EXCEPT !.lastOp = known.lastOp + 1, !.log = p]
            v == [t EXCEPT !.closeBatch = TRUE]
<1>1. Step(r, x)
  BY DEF AppendRequest
<1>2. IsMaster(q) /\ Len(q) \in Nat /\ ResponsesHold(r, replica[r], restarts, msgs)
  BY HeldParts
<1>3. /\ s \in ReplicaState /\ s.log = q /\ s.lastOp = Len(q) /\ s.view = 0
      /\ Leads(q, s) /\ s.clientTable \in [Clients -> ClientEntry]
  BY DEF ReplicaHolds, ReplicaState, Leads
<1>4. request.client \in Clients /\ request.id \in Nat
  BY DEF Request
<1>5. s.clientTable[request.client].id \in Nat
  BY <1>3, <1>4 DEF ClientEntry
<1>6. /\ ReplicaHolds(q, r, known) /\ Alike(s, known)
      /\ known.clientTable[request.client].id = request.id
  <2>1. s.clientTable[request.client].id <= request.id
    BY <1>4, <1>5
  <2>. QED BY <2>1, UpdateClientTableFine
<1>7. ASSUME NEW i \in 1 .. Len(q), q[i].request.client = request.client
      PROVE  q[i].request.id < request.id
  <2>1. q[i].request.id <= s.clientTable[request.client].id
    BY <1>3, <1>7 DEF Leads
  <2>2. q[i] \in LogEntry
    BY <1>2, ElementOfSeq DEF IsMaster
  <2>3. q[i].request.id \in Nat
    BY <2>2 DEF LogEntry, Request
  <2>. QED BY <1>4, <1>5, <2>1, <2>3
<1>. HIDE DEF known
<1>8. known \in ReplicaState /\ known.log = q /\ known.lastOp = s.lastOp
      /\ known.status = "NORMAL" /\ known.recoveryResponses = s.recoveryResponses
  BY <1>3, <1>6 DEF Alike, ReplicaHolds
<1>9. t = u
  <2>. HIDE DEF e
  <2>1. Entry(s.view, op, request) = e
    BY <1>3 DEF e
  <2>. QED BY <1>8, <2>1 DEF ReplicaState
<1>10. /\ IsMaster(p) /\ Within(q, p) /\ ReplicaHolds(p, First, u)
       /\ u.status = known.status /\ u.log = p
       /\ u.recoveryResponses = known.recoveryResponses
  <2>1. IsNew(q, request) /\ ReplicaHolds(q, First, known)
    BY <1>6, <1>7 DEF IsNew
  <2>2. e = Entry(0, Len(q) + 1, request)
    OBVIOUS
  <2>. HIDE DEF op, t, x, v, e
  <2>3. Ordered(Append(q, e), q, known,
                [known EXCEPT !.lastOp = known.lastOp + 1, !.log = Append(q, e)])
    BY <1>2, <1>6, <1>8, <2>1, <2>2, LeaderAppends, Zenon
  <2>. QED BY <2>3 DEF Ordered
<1>. HIDE DEF t, u, p, e, op
<1>11. /\ IsMaster(p) /\ Within(q, p) /\ ReplicaHolds(p, r, t)
       /\ t.status = replica[r].status /\ t.log = p /\ t \in ReplicaState
       /\ t.recoveryResponses = replica[r].recoveryResponses
  BY <1>8, <1>9, <1>10 DEF ReplicaHolds
<1>12. Len(replica[r].log) <= Len(p)
  BY <1>3, <1>10 DEF Within
<1>13. Goes(p, r, t, x)
  <2>1. CASE BatchFull(t)
    <3>. DEFINE w == Went(t, {})
    <3>1. w.s = t /\ w.out = {}
      BY DEF Went
    <3>2. x = CloseBatch(w)
      BY <2>1
    <3>. HIDE DEF w
    <3>. QED BY <1>11, <3>1, <3>2, CloseBatchFine DEF Goes
  <2>2. CASE ~BatchFull(t)
    <3>1. x = Went(v, {})
      BY <2>2
    <3>2. /\ v \in ReplicaState /\ Alike(t, v) /\ v.executed = t.executed
          /\ v.clientTable = t.clientTable /\ v.lastBatchEnd = t.lastBatchEnd
          /\ v.prepareOKs = t.prepareOKs
      BY <1>11 DEF ReplicaState, Alike
    <3>. HIDE DEF v
    <3>3. Alike(t, [v EXCEPT !.prepareOKs = t.prepareOKs])
      BY <3>2 DEF Alike, ReplicaState
    <3>4. IsFiniteSet(v.prepareOKs)
      BY <1>11, <3>2 DEF ReplicaHolds
    <3>5. ReplicaHolds(p, r, v)
      BY <1>11, <3>2, <3>3, <3>4, SameHolds
    <3>6. x.s = v /\ x.out = {}
      BY <3>1 DEF Went
    <3>. QED BY <3>2, <3>5, <3>6 DEF Goes
  <2>. QED BY <2>1, <2>2
<1>. HIDE DEF x
<1>14. /\ ReplicaHolds(p, r, x.s) /\ Advances(r, replica[r], x.s, msgs)
       /\ x.s.recoveryResponses = replica[r].recoveryResponses
  BY <1>11, <1>12, <1>13 DEF Goes, Alike, Advances
<1>15. ASSUME NEW m \in x.out
       PROVE  MaySend(p, r, x.s, [replica EXCEPT ![r] = x.s], restarts, msgs, m)
  <2>1. CASE IsReply(p, m)
    BY <2>1, SayReply
  <2>2. CASE IsPrepare(p, m)
    BY <2>2, SayPrepare
  <2>3. CASE \E w : ReplicaHolds(p, r, w) /\ m = Commit(w)
    <3>1. Len(p) \in Nat
      BY <1>11 DEF IsMaster
    <3>. QED BY <2>3, <3>1, SayCommit
  <2>. QED BY <1>13, <2>1, <2>2, <2>3 DEF Goes
<1>16. ResponsesHold(r, x.s, restarts, msgs)
  BY <1>2, <1>14 DEF ResponsesHold
<1>17. Keeps(q, p, r, x)
  BY <1>11, <1>14, <1>15, <1>16 DEF Keeps
<1>. QED BY <1>1, <1>17, StepHolds

LEMMA HandleRequestHolds ==
  ASSUME NEW q, Holds(q, replica, restarts, msgs), NEW r \in Indices,
         invoked \in [Clients -> 0 .. MaxReqId], HandleRequest(r)
  PROVE  LogHolds'
<1>0. PICK c \in Clients :
        \E id \in 1 .. invoked[c] :
          LET s       == [replica[r] EXCEPT !.clientAddresses = @ \cup {c}]
              request == [client |-> c, id |-> id]
          IN  /\ s.status = "NORMAL" /\ AmLeader(r, s)
              /\ IF id <= s.clientTable[c].id THEN HandleDuplicateRequest(r, s, request)
                 ELSE AnswerRequest(r, s, request) \/ AppendRequest(r, s, request)
  BY DEF HandleRequest
<1>1. PICK id \in 1 .. invoked[c] :
        LET s       == [replica[r] EXCEPT !.clientAddresses = @ \cup {c}]
            request == [client |-> c, id |-> id]
        IN  /\ s.status = "NORMAL" /\ AmLeader(r, s)
            /\ IF id <= s.clientTable[c].id THEN HandleDuplicateRequest(r, s, request)
               ELSE AnswerRequest(r, s, request) \/ AppendRequest(r, s, request)
  BY <1>0
<1>. DEFINE s == [replica[r] EXCEPT !.clientAddresses = @ \cup {c}]
            request == [client |-> c, id |-> id]
            entry == s.clientTable[c]
<1>2. /\ IsMaster(q) /\ ReplicaHolds(q, r, replica[r]) /\ Len(q) \in Nat
      /\ replica[r] \in ReplicaState /\ replica[r].view = 0
  BY HeldParts
<1>3. /\ s \in ReplicaState /\ s.executed = replica[r].executed
      /\ s.clientTable = replica[r].clientTable /\ s.view = 0
      /\ s.lastBatchEnd = replica[r].lastBatchEnd
      /\ s.prepareOKs = replica[r].prepareOKs
      /\ s.status = replica[r].status /\ s.log = replica[r].log
      /\ s.recoveryResponses = replica[r].recoveryResponses
      /\ Alike(replica[r], s)
  BY <1>2 DEF ReplicaState, Alike
<1>4. request \in Request /\ id \in Nat /\ request.client = c /\ request.id = id
      /\ id \in 0 .. MaxReqId
  <2>1. invoked[c] \in 0 .. MaxReqId
    OBVIOUS
  <2>2. id \in 1 .. MaxReqId
    BY <2>1, ViewstampedReplicationAssumption
  <2>. QED BY <2>2, ViewstampedReplicationAssumption DEF Request
<1>5. s.status = "NORMAL" /\ r = First
  BY <1>1, <1>3 DEF AmLeader, First
<1>6. \/ id <= s.clientTable[c].id /\ HandleDuplicateRequest(r, s, request)
      \/ ~(id <= s.clientTable[c].id) /\ AnswerRequest(r, s, request)
      \/ ~(id <= s.clientTable[c].id) /\ AppendRequest(r, s, request)
  BY <1>1
<1>. HIDE DEF s
<1>7. ReplicaHolds(q, r, s)
  <2>1. Alike(replica[r], [s EXCEPT !.prepareOKs = replica[r].prepareOKs])
    BY <1>3 DEF Alike, ReplicaState
  <2>2. IsFiniteSet(s.prepareOKs)
    BY <1>2, <1>3 DEF ReplicaHolds
  <2>. QED BY <1>2, <1>3, <2>1, <2>2, SameHolds
<1>8. /\ s.clientTable \in [Clients -> ClientEntry] /\ entry \in ClientEntry
      /\ entry.id \in Nat /\ entry.opnum \in Nat
  BY <1>3 DEF ReplicaState, ClientEntry
<1>. HIDE DEF request
<1>9. CASE HandleDuplicateRequest(r, s, request)
  <2>. DEFINE out == IF request.id = entry.id /\ entry.replied
                     THEN {Reply(request, entry.opnum)} ELSE {}
              x == Went(s, out)
  <2>1. Step(r, x)
    BY <1>4, <1>9 DEF HandleDuplicateRequest
  <2>2. ASSUME request.id = entry.id, entry.replied
        PROVE  IsReply(q, Reply(request, entry.opnum))
    <3>1. /\ entry.opnum \in 0 .. Len(q)
          /\ entry.opnum # 0 => q[entry.opnum].request = [client |-> c, id |-> entry.id]
      BY <1>2, <1>7, <1>8, <2>2 DEF ReplicaHolds, TableHolds
    <3>2. [client |-> c, id |-> entry.id] = request
      BY <1>4, <2>2 DEF request
    <3>. HIDE DEF entry
    <3>. QED BY <3>1, <3>2 DEF IsReply, Reply
  <2>3. \A m \in out : IsReply(q, m)
    BY <2>2
  <2>4. x.s = s /\ x.out = out
    BY DEF Went
  <2>. HIDE DEF x, out
  <2>5. Goes(q, r, s, x)
    BY <1>7, <2>3, <2>4 DEF Goes, Alike
  <2>. QED BY <1>3, <1>7, <2>1, <2>5, GoesHolds
<1>10. CASE ~(id <= s.clientTable[c].id) /\ AnswerRequest(r, s, request)
  <2>. DEFINE e == [id |-> request.id, replied |-> TRUE, opnum |-> 0]
              t == [s EXCEPT !.clientTable = [@ EXCEPT ![c] = e]]
              x == Went(t, {Reply(request, 0)})
  <2>1. Step(r, x)
    <3>1. [s EXCEPT !.clientTable[request.client] = e] = t
      BY <1>3, <1>4 DEF ReplicaState
    <3>. QED BY <1>10, <3>1 DEF AnswerRequest
  <2>2. e \in ClientEntry /\ e.id = id /\ e.opnum = 0
    BY <1>4 DEF ClientEntry
  <2>3. /\ t.status = s.status /\ t.log = s.log /\ t.view = s.view
        /\ t.lastOp = s.lastOp /\ t.prepareOKs = s.prepareOKs
        /\ t.recoveryResponses = s.recoveryResponses
    BY <1>3 DEF ReplicaState
  <2>. HIDE DEF e
  <2>4. ReplicaHolds(q, r, t)
    <3>1. s.clientTable[c].id <= e.id
      BY <1>4, <1>8, <1>10, <2>2
    <3>. QED BY <1>7, <2>2, <3>1, TableChanges
  <2>5. IsReply(q, Reply(request, 0))
    BY <1>2 DEF IsReply, Reply
  <2>6. x.s = t /\ x.out = {Reply(request, 0)}
    BY DEF Went
  <2>. HIDE DEF t, x
  <2>7. Goes(q, r, s, x)
    BY <2>3, <2>4, <2>5, <2>6 DEF Goes, Alike
  <2>. QED BY <1>3, <1>7, <2>1, <2>7, GoesHolds
<1>11. CASE ~(id <= s.clientTable[c].id) /\ AppendRequest(r, s, request)
  <2>1. s.clientTable[request.client].id < request.id
    BY <1>4, <1>8, <1>11
  <2>2. s.status = replica[r].status /\ s.log = replica[r].log
        /\ s.recoveryResponses = replica[r].recoveryResponses
    BY <1>3
  <2>. QED BY <1>4, <1>5, <1>7, <1>11, <2>1, <2>2, AppendRequestHolds
<1>. QED BY <1>6, <1>9, <1>10, <1>11

-----------------------------------------------------------------------------
(* State transfer                                                            *)

(* Nothing is dumped of what the log does not have.                          *)
LEMMA DumpNothing ==
  ASSUME NEW q, IsMaster(q), NEW log \in Seq(LogEntry), Within(log, q),
         NEW from \in Nat, from > Len(log) + 1
  PROVE  Dump(log, from) = << >>
<1>1. Len(log) \in Nat /\ LastViewstamp(log).opnum = Len(log)
  BY LastOpnum
<1>2. Larger(from, 1) \in Int /\ Len(log) < Larger(from, 1)
  BY <1>1 DEF Larger
<1>. QED BY <1>1, <1>2, SubSeqEmpty DEF Dump

LEMMA HandleRequestStateTransferHolds ==
  ASSUME NEW q, Holds(q, replica, restarts, msgs), NEW r \in Indices,
         HandleRequestStateTransfer(r)
  PROVE  LogHolds'
<1>. DEFINE s == replica[r]
<1>1. PICK m \in Received("REQUESTSTATETRANSFER") :
        /\ m.src # r /\ s.status = "NORMAL"
        /\ Step(r, Went(s, IF m.view > s.view THEN RequestStateTransfer(r, s)
                           ELSE {StateTransfer(s, m.opnum, m.src)}))
  BY DEF HandleRequestStateTransfer
<1>2. /\ IsMaster(q) /\ ReplicaHolds(q, r, s) /\ Len(q) \in Nat
      /\ s \in ReplicaState /\ s.view = 0
  BY HeldParts
<1>3. /\ m \in msgs /\ m.type = "REQUESTSTATETRANSFER"
      /\ MessageHolds(q, replica, restarts, m)
  BY HeldParts DEF Received
<1>4. m.view = 0 /\ m.src \in Indices \ {First} /\ m.opnum \in 0 .. Len(replica[m.src].log)
  BY <1>3 DEF MessageHolds
<1>5. Len(replica[m.src].log) \in Nat /\ Len(s.executed) \in Nat
  <2>1. replica[m.src] \in ReplicaState
    BY <1>4, HeldParts
  <2>2. \A t \in ReplicaState : Len(t.log) \in Nat /\ Len(t.executed) \in Nat
    BY DEF ReplicaState
  <2>. QED BY <1>2, <2>1, <2>2
<1>. DEFINE a == StateTransfer(s, m.opnum, m.src)
            from == m.opnum + 1
            entries == Dump(s.log, from)
<1>6. from \in Nat /\ from = m.opnum + 1 /\ Larger(from, 1) = from
  BY <1>4, <1>5 DEF Larger
<1>7. Step(r, Went(s, {a}))
  BY <1>1, <1>2, <1>4
<1>. HIDE DEF entries, from
<1>8. /\ Segment(entries, q)
      /\ entries # << >> => entries[1].opnum = from
  <2>1. s.log \in Seq(LogEntry) /\ Within(s.log, q) /\ Len(s.log) \in Nat
    BY <1>2 DEF ReplicaHolds, ReplicaState
  <2>2. CASE from <= Len(s.log) + 1
    BY <1>2, <1>6, <2>1, <2>2, DumpFine DEF entries
  <2>3. CASE from > Len(s.log) + 1
    <3>1. entries = << >>
      BY <1>2, <1>6, <2>1, <2>3, DumpNothing DEF entries
    <3>. QED BY <3>1 DEF Segment
  <2>. QED BY <1>6, <2>1, <2>2, <2>3
<1>9. /\ a.type = "STATETRANSFER" /\ a.view = 0 /\ a.to = m.src
      /\ a.opnum = Len(s.executed) /\ a.entries = entries
  BY <1>2 DEF StateTransfer, lastCommitted, entries, from
<1>. HIDE DEF a
<1>10. a.entries # << >> => a.entries[1].opnum <= Len(replica[a.to].log) + 1
  BY <1>4, <1>5, <1>6, <1>8, <1>9
<1>11. MessageHolds(q, replica, restarts, a)
  BY <1>4, <1>5, <1>8, <1>9, <1>10 DEF MessageHolds
<1>12. MaySend(q, r, s, replica, restarts, msgs, a)
  BY <1>3, <1>9, <1>11 DEF MaySend
<1>. QED BY <1>7, <1>12, SayingHolds

(* Once a transfer has been asked for in the first view, no replica has      *)
(* restarted.                                                                 *)
LEMMA NoneRecovers ==
  ASSUME NEW q, Holds(q, replica, restarts, msgs), FirstView, NEW m \in msgs,
         m.type = "STATETRANSFER", NEW r \in Indices
  PROVE  replica[r].status = "NORMAL"
<1>1. \E a \in msgs : a.type = "REQUESTSTATETRANSFER"
  BY DEF Holds
<1>2. ~ \E a \in msgs : a.type = "RECOVERY"
  BY <1>1 DEF FirstView, Received
<1>3. replica[r].status # "RECOVERING"
  BY <1>2 DEF Holds
<1>4. replica[r] \in ReplicaState
  BY HeldParts
<1>. QED BY <1>3, <1>4 DEF ReplicaState

LEMMA HandleStateTransferHolds ==
  ASSUME NEW q, Holds(q, replica, restarts, msgs), NEW r \in Indices, FirstView,
         HandleStateTransfer(r)
  PROVE  LogHolds'
<1>. DEFINE s == replica[r]
<1>1. PICK m \in Received("STATETRANSFER") :
        LET y == FoldLeft(Transferred, [s |-> s, old |-> s.lastOp], m.entries)
            t == IF m.view > s.view THEN EnterView(y.s, m.view) ELSE y.s
        IN  /\ m.to = r /\ m.view >= s.view
            /\ m.opnum <= Len(t.log)
            /\ Step(r, SendPrepareOKs(r, CommitUpTo(Went(t, {}), m.opnum), y.old))
  BY DEF HandleStateTransfer, CanCommit
<1>. DEFINE y == FoldLeft(Transferred, [s |-> s, old |-> s.lastOp], m.entries)
            t == y.s
            x == Went(t, {})
            u == CommitUpTo(x, m.opnum)
            w == SendPrepareOKs(r, u, y.old)
<1>2. /\ IsMaster(q) /\ ReplicaHolds(q, r, s) /\ Len(q) \in Nat
      /\ s \in ReplicaState /\ s.view = 0 /\ s.lastOp \in Nat
  BY HeldParts DEF ReplicaState
<1>3. m \in msgs /\ m.type = "STATETRANSFER" /\ MessageHolds(q, replica, restarts, m)
  BY HeldParts DEF Received
<1>4. /\ m.view = 0 /\ m.to = r /\ r # First /\ m.opnum \in Nat
      /\ Segment(m.entries, q)
      /\ m.entries # << >> => m.entries[1].opnum <= Len(s.log) + 1
  BY <1>1, <1>3 DEF MessageHolds
<1>5. m.opnum <= Len(t.log) /\ Step(r, w)
  <2>1. ~(m.view > s.view)
    BY <1>2, <1>4
  <2>. HIDE DEF y
  <2>. QED BY <1>1, <2>1 DEF y
<1>6. s.status = "NORMAL"
  BY <1>3, NoneRecovers
<1>7. ReplicaHolds(q, r, t) /\ Grown(s, t) /\ y.old = s.lastOp
  <2>1. y = FoldLeft(Transferred, Transfer(s, s.lastOp), m.entries)
    BY DEF Transfer
  <2>. HIDE DEF s, y
  <2>2. LET z == FoldLeft(Transferred, Transfer(s, s.lastOp), m.entries)
        IN  ReplicaHolds(q, r, z.s) /\ Grown(s, z.s) /\ z.old = s.lastOp
    BY <1>2, <1>4, <1>6, TransferredFine
  <2>. QED BY <2>1, <2>2
<1>. HIDE DEF y
<1>8. x.s = t /\ x.out = {}
  BY DEF Went
<1>. HIDE DEF x
<1>9. Executed(q, r, x, u)
  <2>. HIDE DEF t
  <2>. QED BY <1>2, <1>4, <1>5, <1>7, <1>8, CommitUpToFine
<1>. HIDE DEF u
<1>10. ReplicaHolds(q, r, u.s) /\ Alike(t, u.s) /\ \A n \in u.out : IsReply(q, n)
  BY <1>8, <1>9 DEF Executed
<1>11. Acknowledged(q, r, u, w)
  <2>1. y.old \in Nat
    BY <1>2, <1>7
  <2>. QED BY <1>2, <1>4, <1>10, <2>1, SendPrepareOKsFine
<1>. HIDE DEF w, t
<1>12. /\ ReplicaHolds(q, r, w.s) /\ Alike(u.s, w.s)
       /\ \A n \in w.out : n \in u.out \/ IsAck(r, u.s, n)
  BY <1>11 DEF Acknowledged
<1>13. /\ w.s.status = "NORMAL" /\ w.s.lastOp = u.s.lastOp
       /\ Advances(r, s, w.s, msgs)
       /\ w.s.recoveryResponses = s.recoveryResponses
  BY <1>6, <1>7, <1>10, <1>12 DEF Alike, Grown, Advances
<1>14. [replica EXCEPT ![r] = w.s][r] = w.s
  BY DEF Holds
<1>15. ASSUME NEW n \in w.out
       PROVE  MaySend(q, r, w.s, [replica EXCEPT ![r] = w.s], restarts, msgs, n)
  <2>1. CASE IsReply(q, n)
    BY <2>1, SayReply
  <2>2. CASE IsAck(r, u.s, n)
    <3>1. IsAck(r, w.s, n)
      BY <1>13, <2>2 DEF IsAck
    <3>. QED BY <1>2, <1>12, <1>13, <1>14, <3>1, SayAck
  <2>. QED BY <1>10, <1>12, <2>1, <2>2
<1>. QED BY <1>5, <1>12, <1>13, <1>15, ChangeHolds

-----------------------------------------------------------------------------
(* View changes                                                              *)

(* A view change begins with a STARTVIEWCHANGE.                              *)
LEMMA NoViewChange ==
  ASSUME NEW q, Holds(q, replica, restarts, msgs), NEW r \in Indices,
         FirstView, FirstView'
  PROVE  /\ ~ViewChangeTimeout(r) /\ ~HandleStartViewChange(r)
         /\ ~HandleDoViewChange(r) /\ ~HandleStartView(r)
<1>1. ~ViewChangeTimeout(r)
  <2>. SUFFICES ASSUME ViewChangeTimeout(r) PROVE FALSE
    OBVIOUS
  <2>. DEFINE s == replica[r]
              m == [type |-> "STARTVIEWCHANGE", view |-> s.view + 1, src |-> r,
                    lastCommitted |-> lastCommitted(s)]
  <2>1. Step(r, StartViewChange(r, s, s.view + 1))
    BY DEF ViewChangeTimeout
  <2>2. StartViewChange(r, s, s.view + 1).out = {m}
    BY DEF StartViewChange, Went
  <2>3. m \in msgs' /\ m.type = "STARTVIEWCHANGE"
    BY <2>1, <2>2 DEF Step
  <2>. QED BY <2>3 DEF FirstView, Received
<1>2. ~HandleStartViewChange(r)
  BY DEF FirstView, HandleStartViewChange
<1>3. \A m \in msgs : m.type \notin {"DOVIEWCHANGE", "STARTVIEW"}
  BY DEF Holds, MessageHolds
<1>4. ~HandleDoViewChange(r)
  BY <1>3 DEF HandleDoViewChange, Received
<1>5. ~HandleStartView(r)
  BY <1>3 DEF HandleStartView, Received
<1>. QED BY <1>1, <1>2, <1>4, <1>5

-----------------------------------------------------------------------------
(* Crash and recovery                                                        *)

LEMMA EmptyReplica ==
  ASSUME NEW table \in [Clients -> ClientEntry],
         NEW status \in {"NORMAL", "RECOVERING"}
  PROVE  [status |-> status, view |-> 0, log |-> << >>, lastOp |-> 0,
          executed |-> << >>, clientTable |-> table, clientAddresses |-> {},
          lastBatchEnd |-> 0, batchComplete |-> TRUE, closeBatch |-> FALSE,
          prepareOKs |-> {}, startViewChanges |-> {}, doViewChanges |-> {},
          recoveryResponses |-> {}] \in ReplicaState
BY DEF ReplicaState

(* A replica that has lost everything holds nothing against the log.        *)
LEMMA RecoveringHolds ==
  ASSUME NEW q, IsMaster(q), NEW r,
         NEW s, s = [InitialReplica EXCEPT !.status = "RECOVERING"]
  PROVE  ReplicaHolds(q, r, s) /\ s.recoveryResponses = {}
<1>1. s = [status |-> "RECOVERING", view |-> 0, log |-> << >>, lastOp |-> 0,
           executed |-> << >>, clientTable |-> [c \in Clients |-> NoEntry],
           clientAddresses |-> {}, lastBatchEnd |-> 0, batchComplete |-> TRUE,
           closeBatch |-> FALSE, prepareOKs |-> {}, startViewChanges |-> {},
           doViewChanges |-> {}, recoveryResponses |-> {}]
  BY DEF InitialReplica
<1>2. NoEntry \in ClientEntry /\ ~NoEntry.replied
  BY ViewstampedReplicationAssumption DEF NoEntry, ClientEntry
<1>. DEFINE table == [c \in Clients |-> NoEntry]
<1>3. table \in [Clients -> ClientEntry] /\ \A c \in Clients : ~table[c].replied
  BY <1>2
<1>. HIDE DEF table
<1>4. s \in ReplicaState
  <2>1. s = [status |-> "RECOVERING", view |-> 0, log |-> << >>, lastOp |-> 0,
             executed |-> << >>, clientTable |-> table, clientAddresses |-> {},
             lastBatchEnd |-> 0, batchComplete |-> TRUE, closeBatch |-> FALSE,
             prepareOKs |-> {}, startViewChanges |-> {}, doViewChanges |-> {},
             recoveryResponses |-> {}]
    BY <1>1 DEF table
  <2>. QED BY <1>3, <2>1, EmptyReplica
<1>5. /\ s.status = "RECOVERING" /\ s.log = << >> /\ s.lastOp = 0
      /\ s.executed = << >> /\ s.clientTable = table /\ s.lastBatchEnd = 0
      /\ s.prepareOKs = {} /\ s.recoveryResponses = {}
  BY <1>1 DEF table
<1>6. TableHolds(q, table)
  BY <1>3 DEF TableHolds
<1>7. IsFiniteSet({})
  BY FS_EmptySet
<1>8. Within(<< >>, q) /\ Len(<< >>) = 0
  BY DEF Within, IsMaster
<1>9. Within(s.log, q) /\ s.lastOp = Len(s.log) /\ s.lastBatchEnd <= s.lastOp
  BY <1>5, <1>8
<1>10. Len(s.executed) = 0 /\ Len(s.executed) <= Len(s.log)
  BY <1>5, <1>8
<1>11. \A i \in 1 .. Len(s.executed) : s.executed[i] = q[i].request
  BY <1>10
<1>12. IsFiniteSet(s.prepareOKs) /\ TableHolds(q, s.clientTable)
  BY <1>5, <1>6, <1>7
<1>13. ~(s.status = "NORMAL")
  BY <1>5
<1>. HIDE DEF table
<1>. QED BY <1>4, <1>5, <1>9, <1>10, <1>11, <1>12, <1>13 DEF ReplicaHolds

(* A message stays true when a replica restarts, unless it asks for a state  *)
(* transfer or is the answer.                                                 *)
LEMMA MessageSurvives ==
  ASSUME NEW q, NEW rep \in [Indices -> ReplicaState],
         NEW rst \in [Indices -> Nat], NEW m, MessageHolds(q, rep, rst, m),
         m.type \notin {"REQUESTSTATETRANSFER", "STATETRANSFER"},
         NEW r \in Indices, NEW t, t.status = "RECOVERING"
  PROVE  MessageHolds(q, [rep EXCEPT ![r] = t], [rst EXCEPT ![r] = @ + 1], m)
<1>. DEFINE new == [rep EXCEPT ![r] = t]
            now == [rst EXCEPT ![r] = @ + 1]
<1>1. \A i \in Indices : new[i] = IF i = r THEN t ELSE rep[i]
  OBVIOUS
<1>2. \A i \in Indices : now[i] \in Nat /\ rst[i] \in Nat /\ rst[i] <= now[i]
  OBVIOUS
<1>. HIDE DEF new, now
<1>3. m.type = "PREPAREOK" =>
       /\ m.view = 0 /\ m.src \in Indices /\ m.opnum \in 0 .. Len(q)
       /\ new[m.src].status = "NORMAL" => m.opnum <= new[m.src].lastOp
  BY <1>1 DEF MessageHolds
<1>4. m.type = "RECOVERY" =>
       /\ m.src \in Indices /\ m.nonce \in Indices \X Nat
       /\ m.nonce[1] = m.src /\ m.nonce[2] <= now[m.src]
  <2>. SUFFICES ASSUME m.type = "RECOVERY" PROVE
         /\ m.src \in Indices /\ m.nonce \in Indices \X Nat
         /\ m.nonce[1] = m.src /\ m.nonce[2] <= now[m.src]
    OBVIOUS
  <2>1. /\ m.src \in Indices /\ m.nonce \in Indices \X Nat
        /\ m.nonce[1] = m.src /\ m.nonce[2] <= rst[m.src]
    BY DEF MessageHolds
  <2>2. m.nonce[2] \in Nat
    BY <2>1
  <2>. QED BY <1>2, <2>1, <2>2
<1>5. m.type = "RECOVERYRESPONSE" =>
       /\ m \in ResponseMessage
       /\ m.src # m.to /\ m.nonce[1] = m.to /\ m.nonce[2] <= now[m.to]
       /\ m.src = First => /\ Within(m.entries, q) /\ m.lastOp = Len(m.entries)
                           /\ m.lastCommitted <= m.lastOp
  <2>. SUFFICES ASSUME m.type = "RECOVERYRESPONSE" PROVE
         /\ m \in ResponseMessage
         /\ m.src # m.to /\ m.nonce[1] = m.to /\ m.nonce[2] <= now[m.to]
         /\ m.src = First => /\ Within(m.entries, q) /\ m.lastOp = Len(m.entries)
                             /\ m.lastCommitted <= m.lastOp
    OBVIOUS
  <2>1. /\ m \in ResponseMessage
        /\ m.src # m.to /\ m.nonce[1] = m.to /\ m.nonce[2] <= rst[m.to]
        /\ m.src = First => /\ Within(m.entries, q) /\ m.lastOp = Len(m.entries)
                            /\ m.lastCommitted <= m.lastOp
    BY DEF MessageHolds
  <2>2. m.to \in Indices /\ m.nonce \in Indices \X Nat
    BY <2>1 DEF ResponseMessage
  <2>3. m.nonce[2] \in Nat
    BY <2>2
  <2>. QED BY <1>2, <2>1, <2>2, <2>3
<1>6. MessageHolds(q, new, now, m)
  BY <1>3, <1>4, <1>5 DEF MessageHolds
<1>. QED BY <1>6 DEF new, now

LEMMA RestartHolds ==
  ASSUME NEW q, Holds(q, replica, restarts, msgs), NEW r \in Indices, FirstView',
         Restart(r)
  PROVE  LogHolds'
<1>. DEFINE t == [InitialReplica EXCEPT !.status = "RECOVERING"]
            new == [replica EXCEPT ![r] = t]
            now == [restarts EXCEPT ![r] = @ + 1]
            n == [type |-> "RECOVERY", src |-> r, nonce |-> <<r, now[r]>>]
            all == msgs \cup {n}
<1>1. replica' = new /\ restarts' = now /\ msgs' = all
  BY DEF Restart, Nonce
<1>2. /\ IsMaster(q) /\ replica \in [Indices -> ReplicaState]
      /\ restarts \in [Indices -> Nat]
      /\ \A i \in Indices : /\ ReplicaHolds(q, i, replica[i])
                            /\ ResponsesHold(i, replica[i], restarts, msgs)
      /\ \A m \in msgs : MessageHolds(q, replica, restarts, m)
      /\ Covered(replica, restarts, msgs)
      /\ \A i \in Indices : replica[i].status = "RECOVERING" =>
           \E m \in msgs : m.type = "RECOVERY"
      /\ \A m \in msgs : m.type = "STATETRANSFER" =>
           \E a \in msgs : a.type = "REQUESTSTATETRANSFER"
  BY DEF Holds
<1>3. n.type = "RECOVERY" /\ n.src = r /\ n.nonce = <<r, now[r]>>
  OBVIOUS
<1>4. \A m \in msgs : m.type \notin {"REQUESTSTATETRANSFER", "STATETRANSFER"}
  <2>1. n \in Received("RECOVERY")'
    BY <1>1, <1>3 DEF Received
  <2>2. Received("REQUESTSTATETRANSFER")' = {}
    BY <2>1 DEF FirstView
  <2>3. \A m \in msgs : m.type # "REQUESTSTATETRANSFER"
    BY <1>1, <2>2 DEF Received
  <2>. QED BY <1>2, <2>3
<1>5. ReplicaHolds(q, r, t) /\ t.recoveryResponses = {} /\ t.status = "RECOVERING"
  <2>1. t.status = "RECOVERING"
    BY DEF InitialReplica
  <2>. HIDE DEF t
  <2>. QED BY <1>2, <2>1, RecoveringHolds DEF t
<1>. HIDE DEF t
<1>6. t \in ReplicaState
  BY <1>5 DEF ReplicaHolds
<1>7. /\ new \in [Indices -> ReplicaState]
      /\ \A i \in Indices : new[i] = IF i = r THEN t ELSE replica[i]
  BY <1>2, <1>6
<1>8. /\ now \in [Indices -> Nat]
      /\ \A i \in Indices : now[i] = IF i = r THEN restarts[r] + 1 ELSE restarts[i]
  BY <1>2
<1>9. ASSUME NEW m \in msgs PROVE MessageHolds(q, new, now, m)
  BY <1>2, <1>4, <1>5, MessageSurvives
<1>. HIDE DEF new, now, n
<1>10. MessageHolds(q, new, now, n)
  BY <1>3, <1>8 DEF MessageHolds
<1>11. ASSUME NEW i \in Indices
       PROVE  ReplicaHolds(q, i, new[i]) /\ ResponsesHold(i, new[i], now, all)
  <2>1. CASE i = r
    BY <1>5, <1>7, <2>1 DEF ResponsesHold
  <2>2. CASE i # r
    BY <1>2, <1>7, <1>8, <2>2 DEF ResponsesHold
  <2>. QED BY <2>1, <2>2
<1>12. Covered(new, now, all)
  <2>. SUFFICES ASSUME NEW m \in all, m.type = "RECOVERYRESPONSE", m.src = First,
                       new[m.to].status = "RECOVERING", m.nonce = <<m.to, now[m.to]>>,
                       NEW a \in all, a.type = "PREPAREOK", a.src = m.to
                PROVE  a.opnum <= m.lastOp
    BY DEF Covered
  <2>1. m \in msgs /\ a \in msgs
    BY <1>3
  <2>2. m.to \in Indices /\ m.nonce[2] <= restarts[m.to]
    BY <1>2, <2>1 DEF MessageHolds, ResponseMessage
  <2>3. m.nonce[2] = now[m.to]
    OBVIOUS
  <2>4. m.to # r
    <3>1. restarts[m.to] \in Nat /\ now[m.to] <= restarts[m.to]
      BY <1>2, <2>2, <2>3
    <3>. QED BY <1>8, <2>2, <3>1
  <2>5. new[m.to] = replica[m.to] /\ now[m.to] = restarts[m.to]
    BY <1>7, <1>8, <2>2, <2>4
  <2>. QED BY <1>2, <2>1, <2>5 DEF Covered
<1>13. \A i \in Indices : new[i].status = "RECOVERING" =>
         \E m \in all : m.type = "RECOVERY"
  BY <1>3
<1>14. \A m \in all : m.type = "STATETRANSFER" =>
         \E a \in all : a.type = "REQUESTSTATETRANSFER"
  BY <1>3, <1>4
<1>15. \A m \in all : MessageHolds(q, new, now, m)
  BY <1>9, <1>10
<1>16. Holds(q, new, now, all)
  BY <1>2, <1>7, <1>8, <1>11, <1>12, <1>13, <1>14, <1>15 DEF Holds
<1>. QED BY <1>1, <1>16 DEF LogHolds

LEMMA HandleRecoveryHolds ==
  ASSUME NEW q, Holds(q, replica, restarts, msgs), NEW r \in Indices,
         HandleRecovery(r)
  PROVE  LogHolds'
<1>. DEFINE s == replica[r]
<1>1. PICK m \in Received("RECOVERY") :
        /\ m.src # r /\ s.status = "NORMAL"
        /\ Step(r, Went(s, {RecoveryResponse(r, s, m)}))
  BY DEF HandleRecovery
<1>2. /\ IsMaster(q) /\ ReplicaHolds(q, r, s) /\ Len(q) \in Nat
      /\ s \in ReplicaState /\ s.view = 0 /\ AmLeader(r, s) = (r = First)
  BY HeldParts
<1>3. m \in msgs /\ m.type = "RECOVERY" /\ MessageHolds(q, replica, restarts, m)
  BY HeldParts DEF Received
<1>4. /\ m.src \in Indices /\ m.nonce \in Indices \X Nat
      /\ m.nonce[1] = m.src /\ m.nonce[2] <= restarts[m.src]
  BY <1>3 DEF MessageHolds
<1>5. /\ s.log \in Seq(LogEntry) /\ Within(s.log, q) /\ s.lastOp = Len(s.log)
      /\ Len(s.log) \in Nat /\ Len(s.executed) \in Nat
      /\ Len(s.executed) <= Len(s.log)
  BY <1>2 DEF ReplicaHolds, ReplicaState
<1>. DEFINE d == Dump(s.log, 0)
            a == RecoveryResponse(r, s, m)
<1>. HIDE DEF a
<1>6. d \in Seq(LogEntry) /\ Within(d, q) /\ Len(d) = Len(s.log)
  <2>1. 0 \in Nat /\ 0 <= Len(s.log) + 1
    BY <1>5
  <2>2. Segment(d, q) /\ Within(d, q) /\ Len(d) = Len(s.log)
    BY <1>2, <1>5, <2>1, DumpFine
  <2>. QED BY <2>2 DEF Segment
<1>. HIDE DEF d
<1>7. a = [type |-> "RECOVERYRESPONSE", view |-> 0, src |-> r, to |-> m.src,
           nonce |-> m.nonce, lastOp |-> IF r = First THEN s.lastOp ELSE 0,
           lastCommitted |-> IF r = First THEN Len(s.executed) ELSE 0,
           entries |-> IF r = First THEN d ELSE << >>]
  BY <1>2 DEF RecoveryResponse, lastCommitted, d, a
<1>8. a \in ResponseMessage
  BY <1>4, <1>5, <1>6, <1>7 DEF ResponseMessage
<1>9. /\ a.type = "RECOVERYRESPONSE" /\ a.src = r /\ a.to = m.src
      /\ a.nonce = m.nonce
      /\ r = First => /\ a.lastOp = s.lastOp /\ a.entries = d
                      /\ a.lastCommitted = Len(s.executed)
  BY <1>7
<1>10. r = First => a.lastOp = Len(q)
  BY <1>1, <1>2, <1>5, <1>9 DEF ReplicaHolds, Leads
<1>11. MessageHolds(q, replica, restarts, a)
  BY <1>1, <1>4, <1>5, <1>6, <1>8, <1>9 DEF MessageHolds
<1>12. MaySend(q, r, s, replica, restarts, msgs, a)
  BY <1>9, <1>10, <1>11 DEF MaySend
<1>. QED BY <1>1, <1>12, SayingHolds DEF a

(* A log that is installed where there is none is taken as it is.            *)
LEMMA InstallAll ==
  ASSUME NEW entries \in Seq(LogEntry)
  PROVE  Install(<< >>, entries) = entries
<1>. DEFINE new == {i \in DOMAIN entries :
                      ~(entries[i].opnum \notin DOMAIN << >>) =>
                        entries[i].view # << >>[entries[i].opnum].view}
            e == entries[Min(new)]
<1>1. Install(<< >>, entries) =
        IF new = {} THEN << >>
        ELSE (IF e.opnum \notin DOMAIN << >> THEN << >>
              ELSE RemoveAfter(<< >>, e.opnum))
               \o SubSeq(entries, Min(new), Len(entries))
  BY DEF Install
<1>2. DOMAIN << >> = {}
  OBVIOUS
<1>3. new = 1 .. Len(entries) /\ Len(entries) \in Nat
  BY <1>2
<1>. HIDE DEF new
<1>4. CASE entries = << >>
  <2>1. new = {}
    BY <1>3, <1>4
  <2>. QED BY <1>1, <1>4, <2>1
<1>5. CASE entries # << >>
  <2>1. Len(entries) >= 1 /\ 1 \in new /\ new \subseteq Nat
    BY <1>3, <1>5
  <2>2. Min(new) \in new /\ \A k \in new : Min(new) <= k
    BY <2>1, MinOfNaturals
  <2>3. Min(new) = 1
    BY <1>3, <2>1, <2>2
  <2>4. SubSeq(entries, 1, Len(entries)) = entries
    BY SubSeqFull
  <2>5. << >> \o entries = entries
    OBVIOUS
  <2>. QED BY <1>1, <1>2, <2>1, <2>3, <2>4, <2>5
<1>. QED BY <1>4, <1>5

Recovered(q, r, d, t) ==
  /\ ReplicaHolds(q, r, t) /\ t.status = "NORMAL"
  /\ t.lastOp = d.lastOp /\ t.log = d.entries
  /\ t.recoveryResponses = {}

(* The log of the leader is one to go on with.                               *)
LEMMA EnteredFine ==
  ASSUME NEW q, IsMaster(q), NEW r, r # First, NEW s, ReplicaHolds(q, r, s),
         s.log = << >>, NEW d \in ResponseMessage, Within(d.entries, q),
         d.lastOp = Len(d.entries)
  PROVE  Recovered(q, r, d, [EnterView(s, d.view) EXCEPT
                               !.log = Install(s.log, d.entries),
                               !.lastOp = d.lastOp])
<1>. DEFINE t == [EnterView(s, d.view) EXCEPT !.log = Install(s.log, d.entries),
                                              !.lastOp = d.lastOp]
            u == [s EXCEPT !.view = 0, !.status = "NORMAL", !.lastBatchEnd = s.lastOp,
                           !.batchComplete = TRUE, !.closeBatch = FALSE,
                           !.prepareOKs = {}, !.startViewChanges = {},
                           !.doViewChanges = {}, !.recoveryResponses = {},
                           !.log = d.entries, !.lastOp = d.lastOp]
<1>1. /\ s \in ReplicaState /\ s.lastOp = 0 /\ Len(s.executed) = 0
      /\ TableHolds(q, s.clientTable)
  <2>1. /\ s \in ReplicaState /\ s.lastOp = Len(<< >>)
        /\ Len(s.executed) \in Nat /\ Len(s.executed) <= Len(<< >>)
        /\ TableHolds(q, s.clientTable)
    BY DEF ReplicaHolds, ReplicaState
  <2>. QED BY <2>1
<1>2. d.entries \in Seq(LogEntry) /\ d.lastOp \in Nat /\ d.view = 0
  BY DEF ResponseMessage
<1>3. Install(s.log, d.entries) = d.entries
  BY <1>2, InstallAll
<1>4. t = u
  BY <1>1, <1>2, <1>3 DEF EnterView, ReplicaState
<1>. HIDE DEF t
<1>5. /\ u \in ReplicaState /\ u.status = "NORMAL" /\ u.log = d.entries
      /\ u.lastOp = d.lastOp /\ u.executed = s.executed
      /\ u.clientTable = s.clientTable /\ u.lastBatchEnd = 0
      /\ u.prepareOKs = {} /\ u.recoveryResponses = {}
  BY <1>1, <1>2 DEF ReplicaState
<1>. HIDE DEF u
<1>6. IsFiniteSet({})
  BY FS_EmptySet
<1>7. Len(u.executed) = 0 /\ 0 <= Len(u.log) /\ u.lastBatchEnd <= u.lastOp
  BY <1>1, <1>2, <1>5
<1>8. ReplicaHolds(q, r, u)
  BY <1>1, <1>2, <1>5, <1>6, <1>7 DEF ReplicaHolds
<1>. QED BY <1>4, <1>5, <1>8 DEF t, Recovered

LEMMA HandleRecoveryResponseHolds ==
  ASSUME NEW q, Holds(q, replica, restarts, msgs), NEW r \in Indices,
         HandleRecoveryResponse(r)
  PROVE  LogHolds'
<1>1. PICK m \in Received("RECOVERYRESPONSE") :
        LET s == [replica[r] EXCEPT !.recoveryResponses = With(@, m)]
            leader == FromLeader(s.recoveryResponses)
        IN  /\ m.to = r /\ m.nonce = Nonce(r)
            /\ s.status = "RECOVERING"
            /\ \/ /\ ~RecoveryResponseQuorum(s.recoveryResponses) \/ leader = {}
                  /\ Step(r, Went(s, {}))
               \/ /\ RecoveryResponseQuorum(s.recoveryResponses)
                  /\ \E d \in leader :
                       LET entered == [EnterView(s, d.view) EXCEPT
                                         !.log = Install(s.log, d.entries),
                                         !.lastOp = d.lastOp]
                       IN  Step(r, CommitUpTo(Went(entered, {}), d.lastCommitted))
  BY DEF HandleRecoveryResponse
<1>. DEFINE s == [replica[r] EXCEPT !.recoveryResponses = With(@, m)]
            responses == With(replica[r].recoveryResponses, m)
            x == Went(s, {})
<1>2. /\ IsMaster(q) /\ Within(q, q) /\ ReplicaHolds(q, r, replica[r]) /\ Len(q) \in Nat
      /\ replica[r] \in ReplicaState
      /\ ResponsesHold(r, replica[r], restarts, msgs)
  BY HeldParts
<1>3. /\ m \in msgs /\ m.type = "RECOVERYRESPONSE"
      /\ MessageHolds(q, replica, restarts, m) /\ m \in ResponseMessage
  BY HeldParts DEF Received, MessageHolds
<1>4. /\ responses \subseteq ResponseMessage
      /\ \A d \in responses : d \in replica[r].recoveryResponses \/ d = m
  BY <1>2, <1>3 DEF With, ReplicaState
<1>. HIDE DEF responses
<1>5. s = [replica[r] EXCEPT !.recoveryResponses = responses]
  BY <1>2 DEF responses, ReplicaState
<1>6. /\ s \in ReplicaState /\ s.executed = replica[r].executed
      /\ s.clientTable = replica[r].clientTable
      /\ s.lastBatchEnd = replica[r].lastBatchEnd
      /\ s.prepareOKs = replica[r].prepareOKs
      /\ s.status = replica[r].status /\ s.log = replica[r].log
      /\ s.lastOp = replica[r].lastOp /\ s.recoveryResponses = responses
  BY <1>2, <1>4, <1>5 DEF ReplicaState
<1>7. s.status = "RECOVERING" /\ m.to = r /\ m.nonce = <<r, restarts[r]>>
  BY <1>1 DEF Nonce
<1>8. \/ Step(r, x)
      \/ \E d \in FromLeader(s.recoveryResponses) :
           LET entered == [EnterView(s, d.view) EXCEPT
                             !.log = Install(s.log, d.entries), !.lastOp = d.lastOp]
           IN  Step(r, CommitUpTo(Went(entered, {}), d.lastCommitted))
  BY <1>1
<1>. HIDE DEF s
<1>9. s.log = << >>
  BY <1>2, <1>6, <1>7 DEF ReplicaHolds
<1>10. ReplicaHolds(q, r, s)
  <2>1. r = First /\ s.status = "NORMAL" => Leads(q, s)
    BY <1>7
  <2>. QED BY <1>2, <1>6, <2>1 DEF ReplicaHolds
<1>11. ResponsesHold(r, s, restarts, msgs)
  BY <1>2, <1>3, <1>4, <1>6, <1>7 DEF ResponsesHold
<1>12. CASE Step(r, x)
  <2>1. x.s = s /\ x.out = {}
    BY DEF Went
  <2>2. Advances(r, replica[r], s, msgs)
    BY <1>2, <1>6 DEF Advances, ReplicaState
  <2>3. Keeps(q, q, r, x)
    BY <1>2, <1>10, <1>11, <2>1, <2>2 DEF Keeps
  <2>. QED BY <1>12, <2>3, StepHolds
<1>13. ASSUME NEW d \in FromLeader(s.recoveryResponses),
              LET entered == [EnterView(s, d.view) EXCEPT
                                !.log = Install(s.log, d.entries), !.lastOp = d.lastOp]
              IN  Step(r, CommitUpTo(Went(entered, {}), d.lastCommitted))
       PROVE  LogHolds'
  <2>. DEFINE entered == [EnterView(s, d.view) EXCEPT
                            !.log = Install(s.log, d.entries), !.lastOp = d.lastOp]
              w == Went(entered, {})
              y == CommitUpTo(w, d.lastCommitted)
  <2>1. Step(r, y)
    BY <1>13
  <2>2. d \in s.recoveryResponses /\ GetLeaderIndex(d.view) = d.src
    BY DEF FromLeader
  <2>3. /\ d \in msgs /\ d.to = r /\ d.nonce = <<r, restarts[r]>>
        /\ d \in ResponseMessage
    BY <1>4, <1>6, <1>11, <2>2 DEF ResponsesHold
  <2>4. d.type = "RECOVERYRESPONSE" /\ d.view = 0 /\ d.src = First /\ d.lastCommitted \in Nat
    BY <2>2, <2>3 DEF ResponseMessage, First
  <2>5. /\ r # First /\ Within(d.entries, q) /\ d.lastOp = Len(d.entries)
        /\ d.lastCommitted <= d.lastOp
    <3>1. MessageHolds(q, replica, restarts, d)
      BY <2>3, HeldParts
    <3>. QED BY <2>3, <2>4, <3>1 DEF MessageHolds
  <2>6. \A a \in msgs : a.type = "PREPAREOK" /\ a.src = r => a.opnum <= d.lastOp
    <3>1. replica[d.to].status = "RECOVERING" /\ d.nonce = <<d.to, restarts[d.to]>>
      BY <1>6, <1>7, <2>3
    <3>. QED BY <2>3, <2>4, <3>1 DEF Holds, Covered
  <2>7. /\ ReplicaHolds(q, r, entered) /\ entered.status = "NORMAL"
        /\ entered.lastOp = d.lastOp /\ entered.log = d.entries
        /\ entered.recoveryResponses = {}
    <3>1. Recovered(q, r, d, entered)
      BY <1>2, <1>9, <1>10, <2>3, <2>5, EnteredFine, Zenon
    <3>. HIDE DEF entered
    <3>. QED BY <3>1 DEF Recovered
  <2>. HIDE DEF entered
  <2>8. w.s = entered /\ w.out = {}
    BY DEF Went
  <2>. HIDE DEF w
  <2>9. Executed(q, r, w, y)
    BY <1>2, <2>4, <2>5, <2>7, <2>8, CommitUpToFine
  <2>. HIDE DEF y
  <2>10. /\ ReplicaHolds(q, r, y.s) /\ Alike(entered, y.s)
         /\ \A n \in y.out : IsReply(q, n)
    BY <2>8, <2>9 DEF Executed
  <2>11. y.s.recoveryResponses = {} /\ y.s.status = "NORMAL" /\ y.s.lastOp = d.lastOp
         /\ Len(y.s.log) \in Nat
    BY <2>7, <2>10 DEF Alike, ReplicaHolds, ReplicaState
  <2>12. ResponsesHold(r, y.s, restarts, msgs)
    BY <2>11 DEF ResponsesHold
  <2>13. Len(replica[r].log) <= Len(y.s.log)
    <3>1. Len(replica[r].log) = 0
      BY <1>6, <1>9
    <3>. QED BY <2>11, <3>1
  <2>14. Advances(r, replica[r], y.s, msgs)
    BY <2>6, <2>11, <2>13 DEF Advances
  <2>15. ASSUME NEW n \in y.out
         PROVE  MaySend(q, r, y.s, [replica EXCEPT ![r] = y.s], restarts, msgs, n)
    BY <2>10, SayReply
  <2>16. Keeps(q, q, r, y)
    BY <1>2, <2>10, <2>12, <2>14, <2>15 DEF Keeps
  <2>. QED BY <2>1, <2>16, StepHolds
<1>. QED BY <1>8, <1>12, <1>13

-----------------------------------------------------------------------------
(* The invariant                                                             *)

LEMMA InitHolds == Init => IInv
<1>. SUFFICES ASSUME Init PROVE IInv
  OBVIOUS
<1>. DEFINE q == << >>
            table == [c \in Clients |-> NoEntry]
            s == InitialReplica
<1>1. q \in Seq(LogEntry) /\ Len(q) = 0
  OBVIOUS
<1>. HIDE DEF q
<1>2. IsMaster(q)
  BY <1>1 DEF IsMaster
<1>3. NoEntry \in ClientEntry /\ ~NoEntry.replied
  BY ViewstampedReplicationAssumption DEF NoEntry, ClientEntry
<1>4. table \in [Clients -> ClientEntry] /\ \A c \in Clients : ~table[c].replied
  BY <1>3
<1>. HIDE DEF table
<1>5. s = [status |-> "NORMAL", view |-> 0, log |-> << >>, lastOp |-> 0,
           executed |-> << >>, clientTable |-> table, clientAddresses |-> {},
           lastBatchEnd |-> 0, batchComplete |-> TRUE, closeBatch |-> FALSE,
           prepareOKs |-> {}, startViewChanges |-> {}, doViewChanges |-> {},
           recoveryResponses |-> {}]
  BY DEF InitialReplica, table
<1>6. s \in ReplicaState
  BY <1>4, <1>5, EmptyReplica
<1>7. /\ s.status = "NORMAL" /\ s.log = q /\ s.lastOp = 0 /\ Len(s.executed) = 0
      /\ s.clientTable = table /\ s.lastBatchEnd = 0
      /\ s.prepareOKs = {} /\ s.recoveryResponses = {}
  BY <1>5 DEF q
<1>. HIDE DEF s
<1>8. ASSUME NEW r \in Indices
      PROVE  ReplicaHolds(q, r, s) /\ ResponsesHold(r, s, restarts, msgs)
  <2>1. Within(s.log, q) /\ s.lastOp = Len(s.log)
    BY <1>1, <1>7 DEF Within
  <2>2. Len(s.executed) <= Len(s.log) /\ s.lastBatchEnd <= s.lastOp
    BY <1>1, <1>7
  <2>3. \A i \in 1 .. Len(s.executed) : s.executed[i] = q[i].request
    BY <1>7
  <2>4. IsFiniteSet(s.prepareOKs)
    BY <1>7, FS_EmptySet
  <2>5. TableHolds(q, s.clientTable)
    BY <1>4, <1>7 DEF TableHolds
  <2>6. Leads(q, s) /\ ~(s.status = "RECOVERING")
    BY <1>1, <1>7 DEF Leads
  <2>7. ResponsesHold(r, s, restarts, msgs)
    BY <1>7 DEF ResponsesHold
  <2>. QED BY <1>6, <2>1, <2>2, <2>3, <2>4, <2>5, <2>6, <2>7 DEF ReplicaHolds
<1>9. /\ replica = [r \in Indices |-> s] /\ restarts = [r \in Indices |-> 0]
      /\ invoked = [c \in Clients |-> 0] /\ msgs = {}
  BY DEF Init, s
<1>10. Covered(replica, restarts, msgs)
  BY <1>9 DEF Covered
<1>11. Holds(q, replica, restarts, msgs)
  BY <1>2, <1>6, <1>7, <1>8, <1>9, <1>10 DEF Holds
<1>12. invoked \in [Clients -> 0 .. MaxReqId]
  BY <1>9, ViewstampedReplicationAssumption
<1>. QED BY <1>11, <1>12 DEF IInv, LogHolds

(* What one replica does.                                                    *)
LEMMA ReplicaStepHolds ==
  ASSUME IInv, NEW r \in Indices, FirstView, FirstView',
         \/ HandleRequest(r) \/ CloseBatchTimeout(r) \/ SendNullCommit(r)
         \/ HandlePrepare(r) \/ HandlePrepareOK(r) \/ HandleCommit(r)
         \/ HandleRequestStateTransfer(r) \/ HandleStateTransfer(r)
         \/ ViewChangeTimeout(r) \/ HandleStartViewChange(r)
         \/ HandleDoViewChange(r) \/ HandleStartView(r)
         \/ Restart(r) \/ HandleRecovery(r) \/ HandleRecoveryResponse(r)
  PROVE  LogHolds'
<1>1. PICK q : Holds(q, replica, restarts, msgs)
  BY DEF IInv, LogHolds
<1>2. CASE HandleRequest(r)
  BY <1>1, <1>2, HandleRequestHolds DEF IInv
<1>3. CASE CloseBatchTimeout(r)
  BY <1>1, <1>3, CloseBatchTimeoutHolds
<1>4. CASE SendNullCommit(r)
  BY <1>1, <1>4, SendNullCommitHolds
<1>5. CASE HandlePrepare(r)
  BY <1>1, <1>5, HandlePrepareHolds
<1>6. CASE HandlePrepareOK(r)
  BY <1>1, <1>6, HandlePrepareOKHolds
<1>7. CASE HandleCommit(r)
  BY <1>1, <1>7, HandleCommitHolds
<1>8. CASE HandleRequestStateTransfer(r)
  BY <1>1, <1>8, HandleRequestStateTransferHolds
<1>9. CASE HandleStateTransfer(r)
  BY <1>1, <1>9, HandleStateTransferHolds
<1>10. CASE \/ ViewChangeTimeout(r) \/ HandleStartViewChange(r)
            \/ HandleDoViewChange(r) \/ HandleStartView(r)
  BY <1>1, <1>10, NoViewChange
<1>11. CASE Restart(r)
  BY <1>1, <1>11, RestartHolds
<1>12. CASE HandleRecovery(r)
  BY <1>1, <1>12, HandleRecoveryHolds
<1>13. CASE HandleRecoveryResponse(r)
  BY <1>1, <1>13, HandleRecoveryResponseHolds
<1>. QED BY <1>2, <1>3, <1>4, <1>5, <1>6, <1>7, <1>8, <1>9, <1>10, <1>11, <1>12, <1>13

LEMMA NextHolds == IInv /\ [Next]_vars => IInv'
<1>. SUFFICES ASSUME IInv, [Next]_vars PROVE IInv'
  OBVIOUS
<1>1. CASE vars' = vars
  <2>1. /\ replica' = replica /\ restarts' = restarts /\ msgs' = msgs
        /\ invoked' = invoked
    BY <1>1 DEF vars
  <2>2. FirstView' => FirstView
    BY <2>1, FirstViewBefore
  <2>3. LogHolds => LogHolds'
    BY <2>1 DEF LogHolds
  <2>. QED BY <2>1, <2>2, <2>3 DEF IInv
<1>2. CASE \E c \in Clients : Invoke(c)
  <2>1. PICK c \in Clients : Invoke(c)
    BY <1>2
  <2>2. invoked' \in [Clients -> 0 .. MaxReqId]
    <3>1. invoked \in [Clients -> 0 .. MaxReqId] /\ MaxReqId \in Nat
      BY ViewstampedReplicationAssumption DEF IInv
    <3>2. invoked' = [invoked EXCEPT ![c] = @ + 1] /\ invoked[c] < MaxReqId
      BY <2>1 DEF Invoke
    <3>. QED BY <3>1, <3>2
  <2>3. /\ replica' = replica /\ restarts' = restarts /\ msgs' = msgs
    BY <2>1 DEF Invoke
  <2>4. FirstView' => FirstView
    BY <2>3, FirstViewBefore
  <2>5. LogHolds => LogHolds'
    BY <2>3 DEF LogHolds
  <2>. QED BY <2>2, <2>4, <2>5 DEF IInv
<1>3. ASSUME NEW r \in Indices,
             \/ HandleRequest(r) \/ CloseBatchTimeout(r) \/ SendNullCommit(r)
             \/ HandlePrepare(r) \/ HandlePrepareOK(r) \/ HandleCommit(r)
             \/ HandleRequestStateTransfer(r) \/ HandleStateTransfer(r)
             \/ ViewChangeTimeout(r) \/ HandleStartViewChange(r)
             \/ HandleDoViewChange(r) \/ HandleStartView(r)
             \/ Restart(r) \/ HandleRecovery(r) \/ HandleRecoveryResponse(r)
      PROVE  IInv'
  <2>1. invoked' = invoked /\ msgs \subseteq msgs'
    <3>1. \A x : Step(r, x) => invoked' = invoked /\ msgs \subseteq msgs'
      BY DEF Step
    <3>. DEFINE request(c, id) == [client |-> c, id |-> id]
                known(c) == [replica[r] EXCEPT !.clientAddresses = @ \cup {c}]
    <3>2. CASE HandleRequest(r)
      <4>1. PICK c \in Clients : \E id \in 1 .. invoked[c] :
              \/ HandleDuplicateRequest(r, known(c), request(c, id))
              \/ AnswerRequest(r, known(c), request(c, id))
              \/ AppendRequest(r, known(c), request(c, id))
        BY <3>2 DEF HandleRequest
      <4>. HIDE DEF known, request
      <4>. QED BY <3>1, <4>1 DEF HandleDuplicateRequest, AnswerRequest, AppendRequest
    <3>3. CASE CloseBatchTimeout(r) \/ SendNullCommit(r) \/ ViewChangeTimeout(r)
      BY <3>1, <3>3 DEF CloseBatchTimeout, SendNullCommit, ViewChangeTimeout
    <3>4. CASE HandlePrepare(r) \/ HandleCommit(r) \/ HandleRequestStateTransfer(r)
      BY <3>1, <3>4 DEF HandlePrepare, HandleCommit, HandleRequestStateTransfer
    <3>5. CASE HandlePrepareOK(r)
      BY <3>1, <3>5 DEF HandlePrepareOK
    <3>6. CASE HandleStateTransfer(r)
      BY <3>1, <3>6 DEF HandleStateTransfer
    <3>7. CASE HandleStartViewChange(r)
      BY <3>1, <3>7 DEF HandleStartViewChange
    <3>8. CASE HandleDoViewChange(r)
      BY <3>1, <3>8 DEF HandleDoViewChange
    <3>9. CASE HandleStartView(r)
      BY <3>1, <3>9 DEF HandleStartView
    <3>10. CASE HandleRecovery(r)
      BY <3>1, <3>10 DEF HandleRecovery
    <3>11. CASE HandleRecoveryResponse(r)
      BY <3>1, <3>11 DEF HandleRecoveryResponse
    <3>12. CASE Restart(r)
      BY <3>12 DEF Restart
    <3>. QED BY <1>3, <3>2, <3>3, <3>4, <3>5, <3>6, <3>7, <3>8, <3>9, <3>10, <3>11, <3>12
  <2>2. FirstView' => FirstView
    BY <2>1, FirstViewBefore
  <2>3. FirstView' => LogHolds'
    BY <1>3, <2>2, ReplicaStepHolds
  <2>. QED BY <2>1, <2>3 DEF IInv
<1>. QED BY <1>1, <1>2, <1>3 DEF Next

(* The replicas' logs are parts of one, and what is sent is true of it, as   *)
(* long as the first view goes on (vr/replica.cc, the handlers of the normal  *)
(* case, of state transfer and of recovery).                                  *)
THEOREM Invariance == Spec => []IInv
<1>. QED BY InitHolds, NextHolds, PTL DEF Spec

-----------------------------------------------------------------------------
(* What follows from it                                                      *)

LEMMA LogsHold ==
  ASSUME NEW q, Holds(q, replica, restarts, msgs), NEW r \in Indices
  PROVE  /\ \A i \in DOMAIN replica[r].log :
              i \in 1 .. Len(q) /\ replica[r].log[i] = q[i] /\ q[i].opnum = i
         /\ DOMAIN replica[r].log = 1 .. Len(replica[r].log)
         /\ Len(replica[r].log) \in Nat /\ replica[r].lastOp = Len(replica[r].log)
<1>1. /\ IsMaster(q) /\ ReplicaHolds(q, r, replica[r]) /\ Len(q) \in Nat
  BY HeldParts
<1>2. /\ Within(replica[r].log, q) /\ replica[r].lastOp = Len(replica[r].log)
      /\ replica[r].log \in Seq(LogEntry)
  BY <1>1 DEF ReplicaHolds, ReplicaState
<1>3. Len(replica[r].log) \in Nat /\ DOMAIN replica[r].log = 1 .. Len(replica[r].log)
  BY <1>2
<1>4. ASSUME NEW i \in 1 .. Len(replica[r].log)
      PROVE  i \in 1 .. Len(q) /\ replica[r].log[i] = q[i] /\ q[i].opnum = i
  <2>1. i \in 1 .. Len(q)
    BY <1>1, <1>2, <1>3 DEF Within
  <2>. QED BY <1>1, <1>2, <2>1 DEF Within, IsMaster
<1>. QED BY <1>2, <1>3, <1>4

(* Each entry is at its place in the log, as Log::Find expects               *)
(* (common/log.cc:94).                                                        *)
THEOREM LogsAreInOrder == Spec => [](FirstView => LogInOrder)
<1>1. IInv => (FirstView => LogInOrder)
  <2>. SUFFICES ASSUME IInv, FirstView PROVE LogInOrder
    OBVIOUS
  <2>1. PICK q : Holds(q, replica, restarts, msgs)
    BY DEF IInv, LogHolds
  <2>. QED BY <2>1, LogsHold DEF LogInOrder
<1>. QED BY <1>1, Invariance, PTL

(* No two replicas have different requests under one viewstamp, however      *)
(* they have come by them: from a PREPARE, from a state transfer or from the  *)
(* leader's answer to a recovery (HandlePrepare, HandleStateTransfer,         *)
(* HandleRecoveryResponse).                                                   *)
THEOREM ViewstampsAreUnique == Spec => [](FirstView => ViewstampsUnique)
<1>1. IInv => (FirstView => ViewstampsUnique)
  <2>. SUFFICES ASSUME IInv, FirstView PROVE ViewstampsUnique
    OBVIOUS
  <2>1. PICK q : Holds(q, replica, restarts, msgs)
    BY DEF IInv, LogHolds
  <2>2. ASSUME NEW e \in Entries PROVE \E i \in 1 .. Len(q) : e = q[i] /\ e.opnum = i
    <3>1. PICK r \in Indices : e \in ToSet(replica[r].log)
      BY DEF Entries
    <3>2. PICK i \in DOMAIN replica[r].log : e = replica[r].log[i]
      BY <3>1 DEF ToSet
    <3>. QED BY <2>1, <3>2, LogsHold
  <2>. QED BY <2>2 DEF ViewstampsUnique
<1>. QED BY <1>1, Invariance, PTL

(* A replica that has acknowledged an operation has it and every one before  *)
(* it, also when it has lost everything since and recovered (HandlePrepare,   *)
(* HandleRecovery, HandleRecoveryResponse).                                   *)
THEOREM PromisesAreKept == Spec => [](FirstView => PromisesKept)
<1>1. IInv => (FirstView => PromisesKept)
  <2>. SUFFICES ASSUME IInv, FirstView PROVE PromisesKept
    OBVIOUS
  <2>1. PICK q : Holds(q, replica, restarts, msgs)
    BY DEF IInv, LogHolds
  <2>. SUFFICES ASSUME NEW m \in Received("PREPAREOK"),
                       replica[m.src].status = "NORMAL",
                       replica[m.src].view = m.view
                PROVE  /\ m.opnum <= replica[m.src].lastOp
                       /\ \A p \in Received("PREPARE") :
                            p.view = m.view =>
                              \A k \in p.batchStart .. p.opnum : k <= m.opnum =>
                                /\ k \in DOMAIN replica[m.src].log
                                /\ replica[m.src].log[k].request = RequestAt(p, k)
    BY DEF PromisesKept
  <2>2. /\ m.src \in Indices /\ m.opnum \in 0 .. Len(q)
        /\ m.opnum <= replica[m.src].lastOp
    BY <2>1 DEF Holds, MessageHolds, Received
  <2>3. ASSUME NEW p \in Received("PREPARE"), NEW k \in p.batchStart .. p.opnum,
               k <= m.opnum
        PROVE  /\ k \in DOMAIN replica[m.src].log
               /\ replica[m.src].log[k].request = RequestAt(p, k)
    <3>1. /\ p.opnum \in 0 .. Len(q) /\ p.batchStart \in Nat \ {0}
          /\ RequestAt(p, k) = q[k].request
      BY <2>1 DEF Holds, MessageHolds, Received
    <3>2. Len(q) \in Nat
      BY <2>1, <2>2, HeldParts
    <3>3. /\ Len(replica[m.src].log) \in Nat
          /\ replica[m.src].lastOp = Len(replica[m.src].log)
          /\ DOMAIN replica[m.src].log = 1 .. Len(replica[m.src].log)
      BY <2>1, <2>2, LogsHold
    <3>4. k \in DOMAIN replica[m.src].log
      BY <2>2, <2>3, <3>1, <3>2, <3>3
    <3>5. replica[m.src].log[k] = q[k]
      BY <2>1, <2>2, <3>4, LogsHold
    <3>. QED BY <3>1, <3>4, <3>5
  <2>. QED BY <2>2, <2>3
<1>. QED BY <1>1, Invariance, PTL

(* The replicas execute parts of one sequence in which no request comes      *)
(* twice, and what a client is told was executed there (CommitUpTo,           *)
(* HandleRequest).                                                            *)
THEOREM ExecutionsDoAgree == Spec => [](FirstView => ExecutionsAgree)
<1>1. IInv => (FirstView => ExecutionsAgree)
  <2>. SUFFICES ASSUME IInv, FirstView PROVE ExecutionsAgree
    OBVIOUS
  <2>1. PICK q : Holds(q, replica, restarts, msgs)
    BY DEF IInv, LogHolds
  <2>2. ASSUME NEW r \in Indices, NEW i \in DOMAIN replica[r].executed
        PROVE  i \in 1 .. Len(q) /\ replica[r].executed[i] = q[i].request
    <3>1. /\ ReplicaHolds(q, r, replica[r]) /\ Len(q) \in Nat
          /\ replica[r] \in ReplicaState
      BY <2>1, HeldParts
    <3>2. /\ replica[r].executed \in Seq(Request)
          /\ Len(replica[r].log) \in Nat
      BY <3>1 DEF ReplicaState
    <3>3. /\ Len(replica[r].executed) \in Nat
          /\ i \in 1 .. Len(replica[r].executed)
      BY <3>2
    <3>. QED BY <3>1, <3>2, <3>3 DEF ReplicaHolds, Within
  <2>3. IsMaster(q)
    BY <2>1 DEF Holds
  <2>4. ASSUME NEW i \in 1 .. Len(q), NEW j \in 1 .. Len(q),
               q[i].request = q[j].request
        PROVE  i = j
    <3>1. q[i] \in LogEntry /\ q[j] \in LogEntry
      BY <2>3, ElementOfSeq DEF IsMaster
    <3>2. q[i].request.id \in Nat /\ q[j].request.id \in Nat
      BY <3>1 DEF LogEntry, Request
    <3>3. ~(i < j) /\ ~(j < i)
      BY <2>3, <2>4, <3>2 DEF IsMaster
    <3>. QED BY <3>3
  <2>5. ASSUME NEW m \in Received("REPLY"), NEW r \in Indices,
               m.opnum \in DOMAIN replica[r].executed
        PROVE  replica[r].executed[m.opnum] = m.request
    <3>1. m.opnum # 0 => q[m.opnum].request = m.request
      BY <2>1 DEF Holds, MessageHolds, Received
    <3>2. /\ m.opnum \in 1 .. Len(q)
          /\ replica[r].executed[m.opnum] = q[m.opnum].request
      BY <2>2, <2>5
    <3>. QED BY <3>1, <3>2
  <2>6. \A r \in Indices : IsInjective(replica[r].executed)
    BY <2>2, <2>4 DEF IsInjective
  <2>7. \A r, o \in Indices : \A i \in DOMAIN replica[r].executed
                                       \cap DOMAIN replica[o].executed :
          replica[r].executed[i] = replica[o].executed[i]
    BY <2>2
  <2>. QED BY <2>5, <2>6, <2>7 DEF ExecutionsAgree
<1>. QED BY <1>1, Invariance, PTL

-----------------------------------------------------------------------------
(* All views                                                                 *)

(* What a replica keeps and what is sent in any view, whatever fails.        *)
DoViewChangeMessage ==
  [type : {"DOVIEWCHANGE"}, view : Nat, src : Indices, lastNormalView : Nat,
   lastOp : Nat, lastCommitted : Nat, entries : Seq(LogEntry)]

Response ==
  [type : {"RECOVERYRESPONSE"}, view : Nat, src : Indices, to : Indices,
   nonce : Indices \X Nat, lastOp : Nat, lastCommitted : Nat,
   entries : Seq(LogEntry)]

StartViewChangeMessage ==
  [type : {"STARTVIEWCHANGE"}, view : Nat, src : Indices, lastCommitted : Nat]

AnyReplica ==
  [status : {"NORMAL", "VIEW_CHANGE", "RECOVERING"}, view : Nat,
   log : Seq(LogEntry), lastOp : Nat, executed : Seq(Request),
   clientTable : [Clients -> ClientEntry], clientAddresses : SUBSET Clients,
   lastBatchEnd : Nat, batchComplete : BOOLEAN, closeBatch : BOOLEAN,
   prepareOKs : SUBSET [opnum : Nat, src : Indices],
   startViewChanges : SUBSET StartViewChangeMessage,
   doViewChanges : SUBSET DoViewChangeMessage,
   recoveryResponses : SUBSET Response]

UpTo(view) == {e \in LogEntry : e.view <= view}

InOrder(log) == \A i \in DOMAIN log : log[i].opnum = i

(* A log that is brought reaches up to its lastOp, or that is committed.     *)
Brings(m) ==
  /\ m.view \in Nat /\ m.lastOp \in Nat /\ m.lastCommitted \in Nat
  /\ m.entries \in Seq(UpTo(m.view))
  /\ IF m.entries = << >> THEN m.lastOp <= m.lastCommitted
     ELSE m.lastOp <= m.entries[Len(m.entries)].opnum

(* What is kept of a view change or a recovery has been received.            *)
KeepsSent(s, ms) ==
  /\ \A d \in s.doViewChanges :
       d \in ms /\ d.type = "DOVIEWCHANGE" /\ d.view = s.view
  /\ \A d \in s.recoveryResponses : d \in ms /\ d.type = "RECOVERYRESPONSE"

StateFine(r, s, ms) ==
  /\ s \in AnyReplica
  /\ s.log \in Seq(UpTo(s.view)) /\ s.lastOp <= Len(s.log)
  /\ IsFiniteSet(s.prepareOKs)
  /\ s.status = "RECOVERING" => s.view = 0 /\ \E m \in ms : m.type = "RECOVERY"
  /\ s.closeBatch => s.status = "NORMAL" /\ AmLeader(r, s)
  /\ KeepsSent(s, ms)

MessageFine(m) ==
  /\ m.type = "PREPARE" =>
       /\ m.view \in Nat /\ m.opnum \in Nat /\ m.batchStart \in Nat \ {0}
       /\ \A k \in m.batchStart .. m.opnum : RequestAt(m, k) \in Request
  /\ m.type = "PREPAREOK" => m.view \in Nat /\ m.opnum \in Nat /\ m.src \in Indices
  /\ m.type = "COMMIT" => m.view \in Nat /\ m.opnum \in Nat
  /\ m.type = "REQUESTSTATETRANSFER" =>
       m.view \in Nat /\ m.opnum \in Nat /\ m.src \in Indices
  /\ m.type = "STATETRANSFER" =>
       /\ m.view \in Nat /\ m.opnum \in Nat /\ m.to \in Indices
       /\ m.entries \in Seq(UpTo(m.view))
  /\ m.type = "STARTVIEWCHANGE" => m \in StartViewChangeMessage
  /\ m.type = "DOVIEWCHANGE" => m \in DoViewChangeMessage /\ Brings(m)
  /\ m.type = "STARTVIEW" => Brings(m)
  /\ m.type = "RECOVERY" => m.src \in Indices /\ m.nonce \in Indices \X Nat
  /\ m.type = "RECOVERYRESPONSE" => m \in Response /\ Brings(m)

Sent(ms, type) == \E m \in ms : m.type = type

AllFine(rep, rst, ms) ==
  /\ rep \in [Indices -> AnyReplica] /\ rst \in [Indices -> Nat]
  /\ \A r \in Indices : StateFine(r, rep[r], ms)
  /\ \A m \in ms : MessageFine(m)
  /\ Sent(ms, "STATETRANSFER") => Sent(ms, "REQUESTSTATETRANSFER")

(* The bounds, and the types.                                                *)
TypesInv ==
  /\ invoked \in [Clients -> 0 .. MaxReqId]
  /\ restarts \in [Indices -> 0 .. MaxRestarts]
  /\ \A r \in Indices : replica[r].view <= MaxView
  /\ AllFine(replica, restarts, msgs)

(* No replica has asked for a state transfer or restarted.                   *)
ViewsOnly ==
  ~Sent(msgs, "REQUESTSTATETRANSFER") /\ ~Sent(msgs, "RECOVERY")

(* M[v][k]: what the leader of the view v has at the opnum k.                *)
KnownEntries(M) ==
  {e \in LogEntry : e.opnum \in 1 .. Len(M[e.view])
                      /\ M[e.view][e.opnum] = e.request}

OrderMessage(M, m) ==
  /\ m.type \in {"DOVIEWCHANGE", "STARTVIEW"} => m.entries \in Seq(KnownEntries(M))
  /\ m.type = "PREPARE" =>
       /\ m.opnum <= Len(M[m.view])
       /\ \A k \in m.batchStart .. m.opnum : RequestAt(m, k) = M[m.view][k]

(* The leader of a view has its order, before which there is none.           *)
Orders(M, v, s) ==
  /\ s.view = v /\ s.status = "NORMAL" =>
       /\ Len(M[v]) = Len(s.log)
       /\ \A k \in 1 .. Len(s.log) : M[v][k] = s.log[k].request
  /\ s.view < v \/ (s.view = v /\ s.status = "VIEW_CHANGE") => M[v] = << >>

Order(M, rep, ms) ==
  /\ M \in [Nat -> Seq(Request)]
  /\ \A r \in Indices : rep[r].log \in Seq(KnownEntries(M))
  /\ \A m \in ms : OrderMessage(M, m)
  /\ \A v \in Nat : \A r \in Indices : GetLeaderIndex(v) = r => Orders(M, v, rep[r])

OrderHolds == ViewsOnly => \E M : Order(M, replica, msgs)

-----------------------------------------------------------------------------
(* Logs of any view                                                          *)

LEMMA SeqOfMore ==
  ASSUME NEW A, NEW B, A \subseteq B, NEW q \in Seq(A)
  PROVE  q \in Seq(B)
OBVIOUS

LEMMA UpToMore ==
  ASSUME NEW v \in Nat, NEW w \in Nat, v <= w, NEW q \in Seq(UpTo(v))
  PROVE  q \in Seq(UpTo(w)) /\ q \in Seq(LogEntry)
<1>1. UpTo(v) \subseteq UpTo(w) /\ UpTo(w) \subseteq LogEntry
  BY DEF UpTo, LogEntry
<1>. QED BY <1>1, SeqOfMore

(* The last viewstamp of a log in order.                                     *)
LEMMA LastInOrder ==
  ASSUME NEW log \in Seq(LogEntry)
  PROVE  /\ LastViewstamp(log).view \in Nat /\ LastViewstamp(log).opnum \in Nat
         /\ InOrder(log) => LastViewstamp(log).opnum = Len(log)
<1>1. CASE log = << >>
  BY <1>1 DEF LastViewstamp
<1>2. CASE log # << >>
  <2>1. Len(log) \in Nat /\ Len(log) \in 1 .. Len(log) /\ DOMAIN log = 1 .. Len(log)
    BY <1>2
  <2>2. log[Len(log)] \in LogEntry
    BY <2>1, ElementOfSeq
  <2>. QED BY <1>2, <2>1, <2>2 DEF LastViewstamp, Last, InOrder, LogEntry
<1>. QED BY <1>1, <1>2

(* What is dumped of a log in order ends where the log ends.                 *)
LEMMA DumpTyped ==
  ASSUME NEW X, NEW log \in Seq(X), X \subseteq LogEntry, InOrder(log), NEW from \in Int
  PROVE  LET d == Dump(log, from)
         IN  /\ d \in Seq(X)
             /\ d = << >> => Len(log) = 0 \/ from > Len(log)
             /\ d # << >> => d[Len(d)].opnum = Len(log)
<1>. DEFINE n == Len(log)
            a == Larger(from, 1)
            d == Dump(log, from)
<1>0. log \in Seq(LogEntry) /\ n \in Nat /\ DOMAIN log = 1 .. n
  BY SeqOfMore
<1>1. LastViewstamp(log).opnum = n
  BY <1>0, LastInOrder
<1>2. a \in Nat \ {0} /\ (a = from \/ a = 1)
  BY DEF Larger
<1>3. d = SubSeq(log, a, n)
  BY <1>1 DEF Dump
<1>. HIDE DEF a, d
<1>4. CASE a <= n
  <2>1. a \in 1 .. n + 1
    BY <1>0, <1>2, <1>4
  <2>2. /\ d \in Seq(X) /\ Len(d) = n - a + 1
        /\ \A i \in 1 .. n - a + 1 : d[i] = log[a + i - 1]
    BY <1>3, <2>1, Part
  <2>3. d[Len(d)] = log[n] /\ d # << >>
    <3>1. Len(d) \in 1 .. n - a + 1 /\ a + Len(d) - 1 = n
      BY <1>0, <1>2, <1>4, <2>2
    <3>2. Len(d) # 0
      BY <3>1
    <3>. QED BY <2>2, <3>1, <3>2
  <2>4. n \in DOMAIN log
    BY <1>0, <1>2, <1>4
  <2>. QED BY <2>2, <2>3, <2>4 DEF InOrder, d
<1>5. CASE a > n
  <2>1. d = << >>
    BY <1>0, <1>2, <1>3, <1>5
  <2>2. Len(log) = 0 \/ from > Len(log)
    BY <1>0, <1>2, <1>5
  <2>. QED BY <2>1, <2>2 DEF d
<1>. QED BY <1>0, <1>2, <1>4, <1>5

(* To drop the end of a log leaves a log.                                     *)
LEMMA RemoveAfterTyped ==
  ASSUME NEW X, NEW log \in Seq(X), X \subseteq LogEntry, NEW opnum \in Nat \ {0},
         InOrder(log) \/ opnum <= Len(log) + 1
  PROVE  RemoveAfter(log, opnum) \in Seq(X)
<1>1. log \in Seq(LogEntry) /\ Len(log) \in Nat
  BY SeqOfMore
<1>2. LastViewstamp(log).opnum \in Nat
      /\ (InOrder(log) => LastViewstamp(log).opnum = Len(log))
  BY <1>1, LastInOrder
<1>3. CASE opnum > LastViewstamp(log).opnum
  BY <1>3 DEF RemoveAfter
<1>4. CASE ~(opnum > LastViewstamp(log).opnum)
  <2>1. RemoveAfter(log, opnum) = SubSeq(log, 1, opnum - 1)
    BY <1>4 DEF RemoveAfter
  <2>2. opnum - 1 <= Len(log) /\ opnum - 1 \in Nat
    BY <1>1, <1>2, <1>4
  <2>3. \A i \in 1 .. opnum - 1 : log[i] \in X
    <3>1. \A i \in 1 .. opnum - 1 : i \in 1 .. Len(log)
      BY <1>1, <2>2
    <3>. QED BY <3>1, ElementOfSeq
  <2>. QED BY <2>1, <2>2, <2>3, SubSeqProperties
<1>. QED BY <1>3, <1>4

(* What is installed has the entries' end.                                   *)
LEMMA InstallTyped ==
  ASSUME NEW X, X \subseteq LogEntry, NEW log \in Seq(X), NEW entries \in Seq(X)
  PROVE  LET new == Install(log, entries)
         IN  /\ new \in Seq(X)
             /\ entries # << >> /\ InOrder(new) =>
                  entries[Len(entries)].opnum <= Len(new)
<1>. DEFINE missing(e) == e.opnum \notin DOMAIN log
            differs(e) == e.view # log[e.opnum].view
            n == Len(entries)
            new == {i \in DOMAIN entries :
                      ~missing(entries[i]) => differs(entries[i])}
            a == Min(new)
            e == entries[a]
            kept == IF missing(e) THEN log ELSE RemoveAfter(log, e.opnum)
            rest == SubSeq(entries, a, n)
<1>1. Install(log, entries) = IF new = {} THEN log ELSE kept \o rest
  BY DEF Install
<1>2. /\ n \in Nat /\ DOMAIN entries = 1 .. n /\ DOMAIN log = 1 .. Len(log)
      /\ Len(log) \in Nat
  OBVIOUS
<1>3. \A i \in 1 .. n : entries[i] \in X
  BY ElementOfSeq
<1>4. CASE new = {}
  <2>1. Install(log, entries) = log
    BY <1>1, <1>4
  <2>2. ASSUME entries # << >> PROVE entries[n].opnum <= Len(log)
    <3>1. n \in DOMAIN entries
      BY <1>2, <2>2
    <3>2. ~missing(entries[n])
      BY <1>4, <3>1
    <3>. QED BY <1>2, <3>2
  <2>. QED BY <2>1, <2>2
<1>5. CASE new # {}
  <2>1. a \in 1 .. n
    <3>1. new \subseteq Nat /\ new \subseteq 1 .. n
      BY <1>2
    <3>. HIDE DEF new
    <3>. QED BY <1>5, <3>1, MinOfNaturals
  <2>. HIDE DEF new
  <2>2. e \in X /\ e \in LogEntry
    BY <1>3, <2>1
  <2>3. kept \in Seq(X)
    <3>1. CASE missing(e)
      BY <3>1
    <3>2. CASE ~missing(e)
      <4>1. e.opnum \in Nat \ {0} /\ e.opnum <= Len(log) + 1
        BY <1>2, <3>2
      <4>2. RemoveAfter(log, e.opnum) \in Seq(X)
        BY <4>1, RemoveAfterTyped
      <4>. QED BY <3>2, <4>2
    <3>. QED BY <3>1, <3>2
  <2>. HIDE DEF a
  <2>4. /\ rest \in Seq(X) /\ Len(rest) = n - a + 1
        /\ \A i \in 1 .. n - a + 1 : rest[i] = entries[a + i - 1]
    BY <1>2, <2>1, Part
  <2>. DEFINE whole == kept \o rest
  <2>. HIDE DEF kept, rest
  <2>5. /\ whole \in Seq(X) /\ Len(whole) = Len(kept) + Len(rest)
        /\ \A i \in 1 .. Len(whole) : whole[i] = IF i <= Len(kept) THEN kept[i]
                                                 ELSE rest[i - Len(kept)]
    <3>1. kept \in Seq(X) /\ rest \in Seq(X)
      BY <2>3, <2>4
    <3>2. /\ kept \o rest \in Seq(X) /\ Len(kept \o rest) = Len(kept) + Len(rest)
          /\ \A i \in 1 .. Len(kept) + Len(rest) :
               (kept \o rest)[i] = IF i <= Len(kept) THEN kept[i]
                                   ELSE rest[i - Len(kept)]
      BY <3>1, ConcatProperties
    <3>. QED BY <3>2
  <2>6. Len(whole) \in 1 .. Len(whole) /\ ~(Len(whole) <= Len(kept))
        /\ Len(whole) - Len(kept) = n - a + 1 /\ n - a + 1 \in 1 .. n - a + 1
        /\ Len(whole) \in Nat
    <3>1. Len(kept) \in Nat
      BY <2>3
    <3>. HIDE DEF whole
    <3>. QED BY <1>2, <2>1, <2>4, <2>5, <3>1
  <2>7. whole[Len(whole)] = entries[n]
    <3>1. whole[Len(whole)] = rest[n - a + 1]
      BY <2>5, <2>6
    <3>2. a + (n - a + 1) - 1 = n
      BY <1>2, <2>1
    <3>. QED BY <2>4, <2>6, <3>1, <3>2
  <2>8. InOrder(whole) => entries[n].opnum = Len(whole)
    <3>1. Len(whole) \in DOMAIN whole
      BY <2>5, <2>6
    <3>. QED BY <2>7, <3>1 DEF InOrder
  <2>9. Install(log, entries) = whole
    BY <1>1, <1>5
  <2>. HIDE DEF whole
  <2>. QED BY <2>5, <2>6, <2>8, <2>9
<1>. QED BY <1>4, <1>5

(* The log that a message brings, put in the place of one in order.          *)
LEMMA ReplacedTyped ==
  ASSUME NEW X, X \subseteq LogEntry, NEW log \in Seq(X), InOrder(log),
         NEW m, m.entries \in Seq(X), m.lastOp \in Nat
  PROVE  LET new == Replaced(log, m)
         IN  /\ new \in Seq(X)
             /\ m.entries = << >> => new = log
             /\ m.entries # << >> /\ InOrder(new) =>
                  m.entries[Len(m.entries)].opnum <= Len(new)
<1>1. CASE m.entries = << >>
  BY <1>1 DEF Replaced
<1>2. CASE m.entries # << >>
  <2>1. RemoveAfter(log, m.lastOp + 1) \in Seq(X)
    <3>1. m.lastOp + 1 \in Nat \ {0}
      OBVIOUS
    <3>. QED BY <3>1, RemoveAfterTyped
  <2>2. Replaced(log, m) = Install(RemoveAfter(log, m.lastOp + 1), m.entries)
    BY <1>2 DEF Replaced
  <2>. QED BY <1>2, <2>1, <2>2, InstallTyped
<1>. QED BY <1>1, <1>2

-----------------------------------------------------------------------------
(* What a replica executes, acknowledges and appends in any view             *)

Untouched(s, t) ==
  /\ t.status = s.status /\ t.view = s.view
  /\ t.clientAddresses = s.clientAddresses /\ t.lastBatchEnd = s.lastBatchEnd
  /\ t.batchComplete = s.batchComplete /\ t.closeBatch = s.closeBatch
  /\ t.prepareOKs = s.prepareOKs /\ t.startViewChanges = s.startViewChanges
  /\ t.doViewChanges = s.doViewChanges
  /\ t.recoveryResponses = s.recoveryResponses

(* A message that brings no entries.                                         *)
Quiet(m) ==
  /\ MessageFine(m)
  /\ m.type \in {"REPLY", "PREPAREOK", "COMMIT", "REQUESTSTATETRANSFER",
                 "STARTVIEWCHANGE"}

Executes(x, y) ==
  /\ y.s \in AnyReplica /\ Untouched(x.s, y.s)
  /\ y.s.log = x.s.log /\ y.s.lastOp = x.s.lastOp
  /\ Len(x.s.executed) <= Len(y.s.executed)
  /\ \A m \in y.out : m \in x.out \/ Quiet(m)

LEMMA ExecutesNothing ==
  ASSUME NEW x, x.s \in AnyReplica
  PROVE  Executes(x, x)
<1>1. Len(x.s.executed) \in Nat
  BY DEF AnyReplica
<1>. QED BY <1>1 DEF Executes, Untouched

LEMMA ExecutesOn ==
  ASSUME NEW x, NEW y, NEW z, x.s \in AnyReplica, Executes(x, y), Executes(y, z)
  PROVE  Executes(x, z)
<1>1. /\ Len(x.s.executed) \in Nat /\ Len(y.s.executed) \in Nat
      /\ Len(z.s.executed) \in Nat
  BY DEF AnyReplica, Executes
<1>2. Len(x.s.executed) <= Len(z.s.executed)
  BY <1>1 DEF Executes
<1>3. Untouched(x.s, z.s)
  BY DEF Executes, Untouched
<1>. QED BY <1>2, <1>3 DEF Executes

LEMMA ExecuteTyped ==
  ASSUME NEW x, x.s \in AnyReplica, NEW opnum \in 1 .. Len(x.s.log)
  PROVE  LET y == Execute(x, opnum)
         IN  Executes(x, y) /\ Len(y.s.executed) = Len(x.s.executed) + 1
<1>. DEFINE s == x.s
            request == s.log[opnum].request
            c == request.client
            done == Append(s.executed, request)
            e == IF s.clientTable[c].id > request.id THEN s.clientTable[c]
                 ELSE [id |-> request.id, replied |-> TRUE, opnum |-> opnum]
            table == [s.clientTable EXCEPT ![c] = e]
            t == [s EXCEPT !.executed = done, !.clientTable = table]
            out == IF c \in s.clientAddresses
                   THEN x.out \cup {Reply(request, opnum)} ELSE x.out
<1>1. /\ s \in AnyReplica /\ s.log \in Seq(LogEntry) /\ s.executed \in Seq(Request)
      /\ s.clientTable \in [Clients -> ClientEntry] /\ Len(s.executed) \in Nat
      /\ Len(s.log) \in Nat
  BY DEF AnyReplica
<1>2. Execute(x, opnum) = [s |-> t, out |-> out]
  <2>1. [s EXCEPT !.executed = done,
                  !.clientTable[c] = IF @.id > request.id THEN @
                    ELSE [id |-> request.id, replied |-> TRUE, opnum |-> opnum]] = t
    BY <1>1 DEF AnyReplica
  <2>. QED BY <2>1 DEF Execute, Went
<1>3. request \in Request /\ c \in Clients /\ request.id \in 0 .. MaxReqId
  <2>1. s.log[opnum] \in LogEntry
    BY <1>1, ElementOfSeq
  <2>. QED BY <2>1, ViewstampedReplicationAssumption DEF LogEntry, Request
<1>4. done \in Seq(Request) /\ Len(done) = Len(s.executed) + 1
  BY <1>1, <1>3
<1>5. e \in ClientEntry
  BY <1>1, <1>3 DEF ClientEntry
<1>. HIDE DEF e, done
<1>6. table \in [Clients -> ClientEntry]
  BY <1>1, <1>5
<1>. HIDE DEF table
<1>7. /\ t \in AnyReplica /\ Untouched(s, t) /\ t.log = s.log
      /\ t.lastOp = s.lastOp /\ t.executed = done
  BY <1>1, <1>4, <1>6 DEF AnyReplica, Untouched
<1>. HIDE DEF t
<1>8. Quiet(Reply(request, opnum))
  BY DEF Quiet, MessageFine, Reply
<1>9. \A m \in out : m \in x.out \/ Quiet(m)
  BY <1>8
<1>. HIDE DEF out, request
<1>10. Execute(x, opnum).s = t /\ Execute(x, opnum).out = out
  BY <1>2
<1>11. t \in AnyReplica /\ Untouched(x.s, t) /\ t.log = x.s.log
       /\ t.lastOp = x.s.lastOp /\ t.executed = done
  BY <1>7
<1>12. Len(done) = Len(x.s.executed) + 1 /\ Len(x.s.executed) \in Nat
  BY <1>1, <1>4
<1>. HIDE DEF s
<1>. QED BY <1>9, <1>10, <1>11, <1>12 DEF Executes

(* The operations of a fold are those of a run.                              *)
LEMMA CommitUpToTyped ==
  ASSUME NEW x, x.s \in AnyReplica, NEW upto \in Nat,
         upto <= Len(x.s.log) \/ upto <= Len(x.s.executed)
  PROVE  Executes(x, CommitUpTo(x, upto))
<1>. DEFINE k == Len(x.s.executed)
            ops == Opnums(k + 1, upto)
            n == Len(ops)
<1>1. CommitUpTo(x, upto) = Committing!Fold(0, x, ops)
  BY DEF CommitUpTo, Committing!Fold, FoldLeft, MapThenFoldSet, ExecuteAt,
         Committing!FoldLeft, Committing!MapThenFoldSet, Max, Committing!Max,
         lastCommitted
<1>2. k \in Nat /\ Len(x.s.log) \in Nat
  BY DEF AnyReplica
<1>3. /\ ops \in Seq(Nat) /\ n \in Nat
      /\ \A i \in 1 .. n : ops[i] \in 1 .. Len(x.s.log)
  <2>. DEFINE limit == Len(x.s.log)
  <2>1. k + 1 \in Nat /\ (upto <= limit \/ upto <= k) /\ limit \in Nat
    BY <1>2
  <2>. HIDE DEF k, limit
  <2>2. /\ ops \in Seq(Nat) /\ n \in Nat
        /\ n = IF k + 1 <= upto THEN upto - (k + 1) + 1 ELSE 0
        /\ \A i \in 1 .. n : ops[i] = k + 1 + i - 1
    BY <2>1, OpnumsAre
  <2>. HIDE DEF ops, n
  <2>3. ASSUME NEW i \in 1 .. n PROVE ops[i] \in 1 .. limit
    BY <1>2, <2>1, <2>2
  <2>. QED BY <2>2, <2>3 DEF limit
<1>4. PICK run : Committing!IsRun(run, 0, x, ops)
  <2>. HIDE DEF ops
  <2>. QED BY <1>3, Committing!FoldSteps, Zenon
<1>5. /\ run[0] = x
      /\ Committing!Fold(0, x, ops) = run[n]
      /\ \A i \in 1 .. n : run[i] = Execute(run[i - 1], ops[i])
  BY <1>4 DEF Committing!IsRun, ExecuteAt
<1>. DEFINE T == {i \in 0 .. n : Executes(x, run[i])}
<1>. HIDE DEF ops, n
<1>6. 0 \in T
  BY <1>3, <1>5, ExecutesNothing
<1>7. ASSUME NEW i \in 1 .. n, i - 1 \in T PROVE i \in T
  <2>. DEFINE y == run[i - 1]
              o == ops[i]
  <2>1. Executes(x, y)
    BY <1>7
  <2>2. run[i] = Execute(y, o)
    BY <1>5
  <2>. HIDE DEF y
  <2>3. y.s \in AnyReplica /\ o \in 1 .. Len(y.s.log)
    BY <1>3, <2>1 DEF Executes
  <2>. HIDE DEF o, T
  <2>4. Executes(y, Execute(y, o))
    BY <2>3, ExecuteTyped
  <2>5. Executes(x, run[i])
    BY <2>1, <2>2, <2>4, ExecutesOn
  <2>. QED BY <1>3, <2>5 DEF T
<1>8. n \in T
  <2>. HIDE DEF T
  <2>1. \A i \in 0 .. n : i \in T
    BY <1>3, <1>6, <1>7, RangeInduction
  <2>. QED BY <1>3, <2>1
<1>. QED BY <1>1, <1>5, <1>8

(* Remembering a request.                                                    *)
LEMMA UpdateTyped ==
  ASSUME NEW s \in AnyReplica, NEW request \in Request
  PROVE  LET t == UpdateClientTable(s, request)
         IN  /\ t \in AnyReplica /\ Untouched(s, t) /\ t.log = s.log
             /\ t.lastOp = s.lastOp /\ t.executed = s.executed
<1>. DEFINE c == request.client
            e == IF s.clientTable[c].id = request.id THEN s.clientTable[c]
                 ELSE [id |-> request.id, replied |-> FALSE, opnum |-> 0]
            table == [s.clientTable EXCEPT ![c] = e]
            t == [s EXCEPT !.clientTable = table]
<1>1. s.clientTable \in [Clients -> ClientEntry]
  BY DEF AnyReplica
<1>2. c \in Clients /\ request.id \in 0 .. MaxReqId
  BY ViewstampedReplicationAssumption DEF Request
<1>3. UpdateClientTable(s, request) = t
  BY <1>1, <1>2 DEF UpdateClientTable, AnyReplica
<1>4. e \in ClientEntry
  BY <1>1, <1>2 DEF ClientEntry
<1>. HIDE DEF e
<1>5. table \in [Clients -> ClientEntry]
  BY <1>1, <1>4
<1>. HIDE DEF table
<1>. QED BY <1>3, <1>5 DEF AnyReplica, Untouched

(* What is acknowledged is in the log.                                       *)
LEMMA SendPrepareOKsTyped ==
  ASSUME NEW x, x.s \in AnyReplica, x.s.lastOp <= Len(x.s.log),
         NEW old \in Nat, NEW r \in Indices
  PROVE  Executes(x, SendPrepareOKs(r, x, old))
<1>. DEFINE low == Larger(old, lastCommitted(x.s) + 1)
            high == x.s.lastOp
            ops == Opnums(low, high)
            n == Len(ops)
<1>1. SendPrepareOKs(r, x, old) = Acknowledging!Fold(r, x, ops)
  BY DEF SendPrepareOKs, Acknowledging!Fold, FoldLeft, MapThenFoldSet, Acknowledge,
         Acknowledging!FoldLeft, Acknowledging!MapThenFoldSet, Max, Acknowledging!Max
<1>2. low \in Nat \ {0} /\ high \in Nat /\ Len(x.s.log) \in Nat
  <2>1. Len(x.s.executed) \in Nat /\ high \in Nat /\ Len(x.s.log) \in Nat
    BY DEF AnyReplica
  <2>. HIDE DEF high
  <2>. QED BY <2>1 DEF Larger, lastCommitted
<1>3. /\ ops \in Seq(Nat) /\ n \in Nat
      /\ \A i \in 1 .. n : ops[i] \in 1 .. Len(x.s.log)
  <2>1. high <= Len(x.s.log)
    OBVIOUS
  <2>. HIDE DEF low, high
  <2>2. /\ ops \in Seq(Nat) /\ n \in Nat
        /\ n = IF low <= high THEN high - low + 1 ELSE 0
        /\ \A i \in 1 .. n : ops[i] = low + i - 1
    BY <1>2, OpnumsAre
  <2>. HIDE DEF ops
  <2>. QED BY <1>2, <2>1, <2>2
<1>4. PICK run : Acknowledging!IsRun(run, r, x, ops)
  <2>. HIDE DEF ops
  <2>. QED BY <1>3, Acknowledging!FoldSteps, Zenon
<1>5. /\ run[0] = x
      /\ Acknowledging!Fold(r, x, ops) = run[n]
      /\ \A i \in 1 .. n : run[i] = Acknowledge(r, run[i - 1], ops[i])
  BY <1>4 DEF Acknowledging!IsRun
<1>. DEFINE T == {i \in 0 .. n : Executes(x, run[i])}
<1>. HIDE DEF ops, n
<1>6. 0 \in T
  BY <1>3, <1>5, ExecutesNothing
<1>7. ASSUME NEW i \in 1 .. n, i - 1 \in T PROVE i \in T
  <2>. DEFINE y == run[i - 1]
              request == y.s.log[ops[i]].request
              t == UpdateClientTable(y.s, request)
              ok == PrepareOK(r, y.s.view, ops[i])
  <2>1. Executes(x, y)
    BY <1>7
  <2>2. run[i] = Went(t, y.out \cup {ok})
    BY <1>5 DEF Acknowledge
  <2>. HIDE DEF y
  <2>3. y.s \in AnyReplica /\ ops[i] \in 1 .. Len(y.s.log) /\ ops[i] \in Nat
    BY <1>2, <1>3, <2>1 DEF Executes
  <2>4. request \in Request
    <3>1. y.s.log \in Seq(LogEntry)
      BY <2>3 DEF AnyReplica
    <3>2. y.s.log[ops[i]] \in LogEntry
      BY <2>3, <3>1, ElementOfSeq
    <3>. QED BY <3>2 DEF LogEntry
  <2>. HIDE DEF request
  <2>5. /\ t \in AnyReplica /\ Untouched(y.s, t) /\ t.log = y.s.log
        /\ t.lastOp = y.s.lastOp /\ t.executed = y.s.executed
    BY <2>3, <2>4, UpdateTyped
  <2>6. Quiet(ok)
    <3>1. y.s.view \in Nat
      BY <2>3 DEF AnyReplica
    <3>. QED BY <2>3, <3>1 DEF Quiet, MessageFine, PrepareOK
  <2>. HIDE DEF t, ok
  <2>7. run[i].s = t /\ run[i].out = y.out \cup {ok}
    BY <2>2 DEF Went
  <2>8. Len(y.s.executed) \in Nat
    BY <2>3 DEF AnyReplica
  <2>9. Executes(y, run[i])
    BY <2>5, <2>6, <2>7, <2>8 DEF Executes
  <2>10. Executes(x, run[i])
    BY <2>1, <2>9, ExecutesOn
  <2>. QED BY <1>3, <2>10
<1>8. n \in T
  <2>. HIDE DEF T
  <2>1. \A i \in 0 .. n : i \in T
    BY <1>3, <1>6, <1>7, RangeInduction
  <2>. QED BY <1>3, <2>1
<1>. QED BY <1>1, <1>5, <1>8

(* An entry more, of a set of entries.                                       *)
LongerBy(Y, s, e, t) ==
  /\ t \in AnyReplica /\ Untouched(s, t) /\ t.log \in Seq(Y)
  /\ t.log = Append(s.log, e) /\ t.lastOp = s.lastOp + 1
  /\ t.executed = s.executed /\ t.clientTable = s.clientTable
  /\ Len(t.log) = Len(s.log) + 1 /\ Len(s.log) \in Nat

LEMMA AppendTyped ==
  ASSUME NEW Y, Y \subseteq LogEntry, NEW s \in AnyReplica, s.log \in Seq(Y),
         NEW e \in Y
  PROVE  LongerBy(Y, s, e, [s EXCEPT !.log = Append(s.log, e),
                                     !.lastOp = s.lastOp + 1])
<1>. DEFINE log == Append(s.log, e)
            op == s.lastOp + 1
            t == [s EXCEPT !.log = log, !.lastOp = op]
<1>1. log \in Seq(Y) /\ Len(log) = Len(s.log) + 1 /\ Len(s.log) \in Nat
  BY Appending
<1>2. log \in Seq(LogEntry)
  <2>. HIDE DEF log
  <2>. QED BY <1>1, SeqOfMore
<1>3. op \in Nat
  BY DEF AnyReplica
<1>. HIDE DEF op, log
<1>4. /\ t \in AnyReplica /\ Untouched(s, t) /\ t.log = log /\ t.lastOp = op
      /\ t.executed = s.executed /\ t.clientTable = s.clientTable
  BY <1>2, <1>3 DEF AnyReplica, Untouched
<1>. HIDE DEF t
<1>5. Len(log) = Len(s.log) + 1 /\ op = s.lastOp + 1
  BY <1>1 DEF op
<1>6. LongerBy(Y, s, e, t)
  BY <1>1, <1>4, <1>5 DEF LongerBy, log
<1>. QED BY <1>6 DEF t, log, op

(* What a PREPARE brings goes behind the log.                                *)
LEMMA AppendedTyped ==
  ASSUME NEW Y, Y \subseteq LogEntry, NEW s \in AnyReplica, s.log \in Seq(Y),
         NEW m, m.view \in Nat, m.opnum \in Nat, m.batchStart \in Nat \ {0},
         \A k \in m.batchStart .. m.opnum : Entry(m.view, k, RequestAt(m, k)) \in Y,
         m.batchStart <= s.lastOp + 1, m.opnum > s.lastOp
  PROVE  LET t == Appended(s, m)
         IN  /\ t \in AnyReplica /\ Untouched(s, t) /\ t.log \in Seq(Y)
             /\ t.lastOp = m.opnum /\ t.executed = s.executed
             /\ Len(t.log) - t.lastOp = Len(s.log) - s.lastOp
<1>. DEFINE k == s.lastOp
            ops == Opnums(s.lastOp + 1, m.opnum)
            n == Len(ops)
<1>1. Appended(s, m) = Appendings!Fold(m, s, ops)
  BY DEF Appended, Appendings!Fold, FoldLeft, MapThenFoldSet, AppendOne,
         Appendings!FoldLeft, Appendings!MapThenFoldSet, Max, Appendings!Max
<1>2. k \in Nat /\ s.lastOp = k /\ m.opnum \in Nat /\ m.batchStart \in Nat
      /\ Len(s.log) \in Nat
  BY DEF AnyReplica
<1>. HIDE DEF k
<1>3. /\ ops \in Seq(Nat) /\ n \in Nat /\ n = m.opnum - k
      /\ \A i \in 1 .. n : ops[i] = k + i
  <2>. DEFINE low == s.lastOp + 1
  <2>1. low \in Nat
    BY <1>2
  <2>. HIDE DEF low
  <2>2. /\ Opnums(low, m.opnum) \in Seq(Nat) /\ Len(Opnums(low, m.opnum)) \in Nat
        /\ Len(Opnums(low, m.opnum)) =
             IF low <= m.opnum THEN m.opnum - low + 1 ELSE 0
        /\ \A i \in 1 .. Len(Opnums(low, m.opnum)) :
             Opnums(low, m.opnum)[i] = low + i - 1
    <3>1. m.opnum \in Nat
      BY <1>2
    <3>. QED BY <2>1, <3>1, OpnumsAre, Zenon
  <2>3. ops = Opnums(low, m.opnum)
    BY DEF low
  <2>. HIDE DEF ops
  <2>4. low = k + 1 /\ low <= m.opnum
    BY <1>2 DEF low
  <2>. QED BY <1>2, <2>2, <2>3, <2>4
<1>4. PICK run : Appendings!IsRun(run, m, s, ops)
  <2>. HIDE DEF ops
  <2>. QED BY <1>3, Appendings!FoldSteps, Zenon
<1>5. /\ run[0] = s
      /\ Appendings!Fold(m, s, ops) = run[n]
      /\ \A i \in 1 .. n : run[i] = AppendOne(m, run[i - 1], ops[i])
  BY <1>4 DEF Appendings!IsRun
<1>. DEFINE Fine(i, t) ==
              /\ t \in AnyReplica /\ Untouched(s, t) /\ t.log \in Seq(Y)
              /\ t.lastOp = k + i /\ t.executed = s.executed
              /\ Len(t.log) = Len(s.log) + i
            T == {i \in 0 .. n : Fine(i, run[i])}
<1>. HIDE DEF ops, n
<1>6. 0 \in T
  <2>1. Fine(0, s)
    BY <1>2 DEF Untouched
  <2>. HIDE DEF Fine
  <2>. QED BY <1>3, <1>5, <2>1
<1>7. ASSUME NEW i \in 1 .. n, i - 1 \in T PROVE i \in T
  <2>. DEFINE t == run[i - 1]
              op == ops[i]
              request == m.requests[op - m.batchStart + 1]
              e == Entry(m.view, op, request)
              u == [t EXCEPT !.log = Append(t.log, e), !.lastOp = t.lastOp + 1]
  <2>1. Fine(i - 1, t)
    BY <1>7
  <2>2. run[i] = UpdateClientTable([t EXCEPT !.lastOp = @ + 1, !.log = Append(@, e)],
                                   request)
    BY <1>5 DEF AppendOne
  <2>. HIDE DEF t, T
  <2>3. t \in AnyReplica /\ t.log \in Seq(Y)
    BY <2>1
  <2>4. run[i] = UpdateClientTable(u, request)
    <3>1. [t EXCEPT !.lastOp = @ + 1, !.log = Append(@, e)] = u
      <4>. HIDE DEF e
      <4>. QED BY <2>3 DEF AnyReplica
    <3>. HIDE DEF u, e, request
    <3>. QED BY <2>2, <3>1
  <2>5. op \in m.batchStart .. m.opnum
    <3>1. op = k + i
      BY <1>3
    <3>. HIDE DEF op
    <3>. QED BY <1>2, <1>3, <3>1
  <2>. HIDE DEF op
  <2>6. e \in Y /\ request \in Request
    <3>1. Entry(m.view, op, RequestAt(m, op)) \in Y
      BY <2>5
    <3>2. request = RequestAt(m, op)
      BY DEF RequestAt
    <3>. HIDE DEF request
    <3>3. e \in Y /\ e \in LogEntry /\ e.request = request
      BY <3>1, <3>2 DEF Entry
    <3>. HIDE DEF e
    <3>. QED BY <3>3 DEF LogEntry
  <2>. HIDE DEF e, request
  <2>7. /\ u \in AnyReplica /\ Untouched(t, u) /\ u.log \in Seq(Y)
        /\ u.lastOp = t.lastOp + 1 /\ u.executed = t.executed
        /\ Len(u.log) = Len(t.log) + 1 /\ Len(t.log) \in Nat
    <3>1. LongerBy(Y, t, e, u)
      BY <2>3, <2>6, AppendTyped, Zenon
    <3>. HIDE DEF u
    <3>. QED BY <3>1 DEF LongerBy
  <2>. HIDE DEF u
  <2>8. /\ run[i] \in AnyReplica /\ Untouched(u, run[i]) /\ run[i].log = u.log
        /\ run[i].lastOp = u.lastOp /\ run[i].executed = u.executed
    BY <2>4, <2>6, <2>7, UpdateTyped
  <2>9. Untouched(s, run[i])
    BY <2>1, <2>7, <2>8 DEF Untouched
  <2>10. t.lastOp = k + (i - 1) /\ Len(t.log) = Len(s.log) + (i - 1)
         /\ t.executed = s.executed
    BY <2>1
  <2>11. Fine(i, run[i])
    BY <1>2, <1>3, <2>7, <2>8, <2>9, <2>10
  <2>. HIDE DEF Fine
  <2>. QED BY <1>3, <2>11 DEF T
<1>8. n \in T
  <2>. HIDE DEF T
  <2>1. \A i \in 0 .. n : i \in T
    BY <1>3, <1>6, <1>7, RangeInduction
  <2>. QED BY <1>3, <2>1
<1>9. Fine(n, run[n])
  BY <1>8
<1>10. k + n = m.opnum /\ Len(run[n].log) - run[n].lastOp = Len(s.log) - s.lastOp
  BY <1>2, <1>3, <1>9
<1>. QED BY <1>1, <1>5, <1>9, <1>10

(* One entry of a STATETRANSFER; entries are in order above what is          *)
(* executed, and the log reaches up to lastOp.                                *)
TransfersOn(Y, s, y) ==
  /\ y.old \in Nat
  /\ y.s \in AnyReplica /\ Untouched(s, y.s) /\ y.s.log \in Seq(Y)
  /\ y.s.lastOp <= Len(y.s.log) /\ y.s.executed = s.executed

LEMMA TransferOneTyped ==
  ASSUME NEW Y, Y \subseteq LogEntry, NEW s, NEW y, TransfersOn(Y, s, y), NEW e \in Y
  PROVE  TransfersOn(Y, s, Transferred(y, e))
<1>. DEFINE t == y.s
            op == e.opnum
            committed == Len(t.executed)
<1>1. /\ t \in AnyReplica /\ t.log \in Seq(Y) /\ t.lastOp <= Len(t.log)
      /\ y.old \in Nat
  BY DEF TransfersOn
<1>2. /\ e \in LogEntry /\ op \in Nat /\ committed \in Nat /\ t.lastOp \in Nat
      /\ Len(t.log) \in Nat
  BY <1>1 DEF AnyReplica, LogEntry
<1>3. Entry(e.view, e.opnum, e.request) = e
  BY <1>2 DEF Entry, LogEntry
<1>. HIDE DEF op, committed
<1>4. CASE op <= committed
  <2>1. Transferred(y, e) = y
    BY <1>2, <1>4 DEF Transferred, lastCommitted, op, committed
  <2>. QED BY <2>1
<1>5. CASE op > committed /\ op <= t.lastOp
  <2>0. ~(op <= committed)
    BY <1>2, <1>5
  <2>. DEFINE kept == RemoveAfter(t.log, op)
              log == Append(kept, e)
              u == [t EXCEPT !.log = log, !.lastOp = op]
  <2>1. Transferred(y, e) = IF t.log[op].view = e.view THEN y
                            ELSE [s |-> [y.s EXCEPT !.log = Append(RemoveAfter(y.s.log, e.opnum), e),
                                                    !.lastOp = e.opnum],
                                  old |-> e.opnum]
    BY <1>2, <1>5, <2>0 DEF Transferred, lastCommitted, op, committed
  <2>2. CASE t.log[op].view = e.view
    <3>1. Transferred(y, e) = y
      BY <2>1, <2>2
    <3>. QED BY <3>1
  <2>3. CASE t.log[op].view # e.view
    <3>1. Transferred(y, e) = [s |-> u, old |-> op]
      BY <2>1, <2>3 DEF op
    <3>2. op \in 1 .. Len(t.log) /\ op \in Nat \ {0} /\ op <= Len(t.log) + 1
      BY <1>1, <1>2, <1>5
    <3>3. kept \in Seq(Y) /\ Len(kept) >= op - 1
      <4>1. kept \in Seq(Y)
        BY <1>1, <3>2, RemoveAfterTyped
      <4>2. kept = t.log \/ kept = SubSeq(t.log, 1, op - 1)
        BY DEF RemoveAfter
      <4>3. Len(SubSeq(t.log, 1, op - 1)) = op - 1
        BY <1>1, <1>2, <3>2
      <4>. HIDE DEF kept
      <4>. QED BY <1>2, <3>2, <4>1, <4>2, <4>3
    <3>. HIDE DEF kept
    <3>4. log \in Seq(Y) /\ Len(log) = Len(kept) + 1 /\ Len(kept) \in Nat
      BY <3>3, Appending
    <3>. HIDE DEF log
    <3>5. log \in Seq(LogEntry) /\ op <= Len(log)
      BY <3>2, <3>3, <3>4, SeqOfMore
    <3>6. /\ u \in AnyReplica /\ Untouched(t, u) /\ u.log = log /\ u.lastOp = op
          /\ u.executed = t.executed
      BY <1>1, <1>2, <3>5 DEF AnyReplica, Untouched
    <3>. HIDE DEF u
    <3>7. Transferred(y, e).s = u /\ Transferred(y, e).old = op
      BY <3>1
    <3>8. Untouched(s, u) /\ u.executed = s.executed
      BY <3>6 DEF TransfersOn, Untouched
    <3>. QED BY <1>2, <3>4, <3>5, <3>6, <3>7, <3>8 DEF TransfersOn
  <2>. QED BY <2>2, <2>3
<1>6. CASE op > committed /\ op > t.lastOp
  <2>1. ~(op <= committed) /\ ~(op <= t.lastOp)
    BY <1>2, <1>6
  <2>. DEFINE u == [t EXCEPT !.log = Append(t.log, e), !.lastOp = t.lastOp + 1]
  <2>2. Transferred(y, e) =
          [y EXCEPT !.s = [y.s EXCEPT !.log = Append(t.log, e), !.lastOp = @ + 1]]
    BY <1>3, <1>6, <2>1 DEF Transferred, lastCommitted, op, committed
  <2>3. [y.s EXCEPT !.log = Append(t.log, e), !.lastOp = @ + 1] = u
    BY <1>1 DEF AnyReplica
  <2>4. /\ u \in AnyReplica /\ Untouched(t, u) /\ u.log \in Seq(Y)
        /\ u.lastOp = t.lastOp + 1 /\ u.executed = t.executed
        /\ Len(u.log) = Len(t.log) + 1
    <3>1. LongerBy(Y, t, e, u)
      BY <1>1, AppendTyped, Zenon
    <3>. HIDE DEF u
    <3>. QED BY <3>1 DEF LongerBy
  <2>. HIDE DEF u
  <2>5. Transferred(y, e) = [y EXCEPT !.s = u]
    BY <2>2, <2>3
  <2>6. Transferred(y, e).s = u /\ Transferred(y, e).old = y.old
    <3>. QED BY <2>5
  <2>7. Untouched(s, u) /\ u.executed = s.executed
    BY <2>4 DEF TransfersOn, Untouched
  <2>8. u.lastOp <= Len(u.log)
    BY <1>1, <1>2, <2>4
  <2>. QED BY <1>1, <2>4, <2>6, <2>7, <2>8 DEF TransfersOn
<1>. QED BY <1>2, <1>4, <1>5, <1>6

(* What a STATETRANSFER brings.                                              *)
LEMMA TransferredTyped ==
  ASSUME NEW Y, Y \subseteq LogEntry, NEW s \in AnyReplica, s.log \in Seq(Y),
         s.lastOp <= Len(s.log), NEW entries \in Seq(Y)
  PROVE  TransfersOn(Y, s, FoldLeft(Transferred, [s |-> s, old |-> s.lastOp], entries))
<1>. DEFINE n == Len(entries)
            x == [s |-> s, old |-> s.lastOp]
<1>1. FoldLeft(Transferred, x, entries) = Transferring!Fold(0, x, entries)
  BY DEF Transferring!Fold, FoldLeft, MapThenFoldSet, TransferOne,
         Transferring!FoldLeft, Transferring!MapThenFoldSet, Max, Transferring!Max
<1>2. TransfersOn(Y, s, x)
  <2>1. x.s = s /\ x.old = s.lastOp /\ s.lastOp \in Nat /\ Untouched(s, s)
    BY DEF AnyReplica, Untouched
  <2>. HIDE DEF x
  <2>. QED BY <2>1 DEF TransfersOn
<1>. HIDE DEF x
<1>3. n \in Nat
  OBVIOUS
<1>4. PICK run : Transferring!IsRun(run, 0, x, entries)
  BY <1>3, Transferring!FoldSteps, Zenon
<1>5. /\ run[0] = x
      /\ Transferring!Fold(0, x, entries) = run[n]
      /\ \A i \in 1 .. n : run[i] = Transferred(run[i - 1], entries[i])
  BY <1>4 DEF Transferring!IsRun, TransferOne
<1>. DEFINE T == {i \in 0 .. n : TransfersOn(Y, s, run[i])}
<1>6. 0 \in T
  BY <1>2, <1>3, <1>5
<1>7. ASSUME NEW i \in 1 .. n, i - 1 \in T PROVE i \in T
  <2>1. TransfersOn(Y, s, run[i - 1])
    BY <1>7
  <2>2. entries[i] \in Y
    BY ElementOfSeq
  <2>3. TransfersOn(Y, s, Transferred(run[i - 1], entries[i]))
    BY <2>1, <2>2, TransferOneTyped
  <2>4. i \in 0 .. n
    BY <1>3
  <2>. QED BY <1>5, <2>3, <2>4
<1>8. n \in T
  <2>. HIDE DEF T, n
  <2>1. \A i \in 0 .. n : i \in T
    BY <1>3, <1>6, <1>7, RangeInduction
  <2>. QED BY <1>3, <2>1
<1>. QED BY <1>1, <1>5, <1>8 DEF x

(* What is prepared is in the leader's log.                                  *)
Prepares(s, m) ==
  /\ m.type = "PREPARE" /\ m.view = s.view /\ m.opnum = s.lastOp
  /\ m.batchStart \in Nat \ {0}
  /\ \A k \in m.batchStart .. m.opnum : RequestAt(m, k) = s.log[k].request

LEMMA CloseBatchTyped ==
  ASSUME NEW x, x.s \in AnyReplica, x.s.lastOp <= Len(x.s.log)
  PROVE  LET y == CloseBatch(x)
         IN  /\ y.s \in AnyReplica /\ y.s.log = x.s.log /\ y.s.lastOp = x.s.lastOp
             /\ y.s.executed = x.s.executed /\ y.s.closeBatch = FALSE
             /\ y.s.view = x.s.view /\ y.s.status = x.s.status
             /\ y.s.prepareOKs = x.s.prepareOKs
             /\ y.s.doViewChanges = x.s.doViewChanges
             /\ y.s.recoveryResponses = x.s.recoveryResponses
             /\ \A m \in y.out : m \in x.out \/ Prepares(x.s, m)
<1>. DEFINE s == x.s
            y == CloseBatch(x)
            low == s.lastBatchEnd + 1
            ops == Opnums(low, s.lastOp)
            requests == [i \in DOMAIN ops |-> s.log[s.lastBatchEnd + i].request]
            t == [s EXCEPT !.lastBatchEnd = s.lastOp, !.batchComplete = FALSE,
                           !.closeBatch = FALSE]
            m == [type |-> "PREPARE", view |-> s.view, opnum |-> s.lastOp,
                  batchStart |-> low, requests |-> requests]
<1>1. y.s = t /\ y.out = x.out \cup {m}
  BY DEF CloseBatch, Went
<1>2. /\ s \in AnyReplica /\ s.lastOp \in Nat /\ s.lastBatchEnd \in Nat
  BY DEF AnyReplica
<1>3. /\ low \in Nat \ {0}
      /\ Len(ops) = IF low <= s.lastOp THEN s.lastOp - low + 1 ELSE 0
      /\ DOMAIN ops = 1 .. Len(ops)
  <2>1. low \in Nat \ {0}
    BY <1>2
  <2>. HIDE DEF low
  <2>2. ops \in Seq(Nat) /\ Len(ops) = IF low <= s.lastOp THEN s.lastOp - low + 1 ELSE 0
    BY <1>2, <2>1, OpnumsAre
  <2>. HIDE DEF ops
  <2>. QED BY <2>1, <2>2
<1>. HIDE DEF y, ops
<1>4. ASSUME NEW k \in low .. s.lastOp PROVE requests[k - low + 1] = s.log[k].request
  <2>1. k - low + 1 \in 1 .. Len(ops) /\ s.lastBatchEnd + (k - low + 1) = k
    <3>. DEFINE batchEnd == s.lastBatchEnd
                lastOp == s.lastOp
    <3>1. batchEnd \in Nat /\ lastOp \in Nat /\ low = batchEnd + 1
      BY <1>2
    <3>. HIDE DEF batchEnd, lastOp, low, requests, m, t
    <3>2. k \in low .. lastOp /\ Len(ops) = IF low <= lastOp THEN lastOp - low + 1 ELSE 0
      BY <1>3 DEF lastOp
    <3>3. k - low + 1 \in 1 .. Len(ops) /\ batchEnd + (k - low + 1) = k
      BY <3>1, <3>2
    <3>. QED BY <3>3 DEF batchEnd
  <2>2. requests[k - low + 1] = s.log[s.lastBatchEnd + (k - low + 1)].request
    BY <1>3, <2>1
  <2>. HIDE DEF requests
  <2>. QED BY <2>1, <2>2
<1>. HIDE DEF requests
<1>5. Prepares(s, m)
  <2>. HIDE DEF low
  <2>. QED BY <1>3, <1>4 DEF Prepares, RequestAt
<1>. HIDE DEF m
<1>6. /\ t \in AnyReplica /\ t.executed = s.executed /\ t.closeBatch = FALSE
      /\ t.log = s.log /\ t.lastOp = s.lastOp /\ t.status = s.status
      /\ t.view = s.view /\ t.doViewChanges = s.doViewChanges
      /\ t.prepareOKs = s.prepareOKs
      /\ t.recoveryResponses = s.recoveryResponses
  BY <1>2 DEF AnyReplica
<1>. HIDE DEF t
<1>. QED BY <1>1, <1>5, <1>6 DEF y

(* Entering a view, and leaving one.                                         *)
Enters(s, view, log, op, t) ==
  /\ t \in AnyReplica /\ t.log = log /\ t.lastOp = op /\ t.view = view
  /\ t.status = "NORMAL" /\ t.executed = s.executed
  /\ t.closeBatch = FALSE /\ t.doViewChanges = {}
  /\ t.recoveryResponses = {} /\ t.prepareOKs = {}

LEMMA EnterViewTyped ==
  ASSUME NEW s \in AnyReplica, NEW view \in Nat, NEW log \in Seq(LogEntry),
         NEW op \in Nat
  PROVE  Enters(s, view, log, op,
                [EnterView(s, view) EXCEPT !.log = log, !.lastOp = op])
BY DEF EnterView, AnyReplica, Enters

LEMMA EnteredAs ==
  ASSUME NEW s \in AnyReplica, NEW view \in Nat
  PROVE  LET t == EnterView(s, view)
         IN  /\ t \in AnyReplica /\ t.log = s.log /\ t.lastOp = s.lastOp
             /\ t.view = view /\ t.status = "NORMAL" /\ t.executed = s.executed
             /\ t.closeBatch = FALSE /\ t.doViewChanges = {}
             /\ t.recoveryResponses = {} /\ t.prepareOKs = {}
BY DEF EnterView, AnyReplica

LEMMA StartViewChangeTyped ==
  ASSUME NEW s \in AnyReplica, NEW view \in Nat, NEW r \in Indices
  PROVE  LET x == StartViewChange(r, s, view)
         IN  /\ x.s \in AnyReplica /\ x.s.log = s.log /\ x.s.lastOp = s.lastOp
             /\ x.s.view = view /\ x.s.status = "VIEW_CHANGE"
             /\ x.s.executed = s.executed /\ x.s.prepareOKs = s.prepareOKs
             /\ x.s.closeBatch = FALSE /\ x.s.doViewChanges = {}
             /\ x.s.recoveryResponses = s.recoveryResponses
             /\ \A m \in x.out : Quiet(m)
<1>1. Len(s.executed) \in Nat
  BY DEF AnyReplica
<1>2. \A m \in StartViewChange(r, s, view).out : Quiet(m)
  BY <1>1 DEF StartViewChange, Went, Quiet, MessageFine, StartViewChangeMessage,
              lastCommitted
<1>. QED BY <1>2 DEF StartViewChange, Went, AnyReplica

-----------------------------------------------------------------------------
(* Steps in any view                                                         *)

Kept == AllFine(replica, restarts, msgs) /\ OrderHolds

LEMMA StateFineMore ==
  ASSUME NEW r, NEW s, NEW ms, StateFine(r, s, ms), NEW all, ms \subseteq all
  PROVE  StateFine(r, s, all)
BY DEF StateFine, KeepsSent

(* What a step must see to.                                                  *)
Fine(r, x) ==
  /\ StateFine(r, x.s, msgs \cup x.out)
  /\ \A m \in x.out : /\ MessageFine(m)
                      /\ m.type = "STATETRANSFER" => Sent(msgs, "REQUESTSTATETRANSFER")

LEMMA StepFine ==
  ASSUME AllFine(replica, restarts, msgs), NEW r \in Indices, NEW x, Step(r, x),
         Fine(r, x)
  PROVE  AllFine(replica, restarts, msgs)'
<1>. DEFINE all == msgs \cup x.out
            new == [replica EXCEPT ![r] = x.s]
<1>1. replica' = new /\ msgs' = all /\ restarts' = restarts
  BY DEF Step
<1>2. replica \in [Indices -> AnyReplica] /\ restarts \in [Indices -> Nat]
  BY DEF AllFine
<1>3. x.s \in AnyReplica /\ new \in [Indices -> AnyReplica]
  BY <1>2 DEF Fine, StateFine
<1>4. ASSUME NEW p \in Indices PROVE StateFine(p, new[p], all)
  <2>1. CASE p = r
    BY <1>2, <2>1 DEF Fine
  <2>2. CASE p # r
    <3>1. new[p] = replica[p] /\ StateFine(p, replica[p], msgs)
      BY <1>2, <2>2 DEF AllFine
    <3>. QED BY <3>1, StateFineMore
  <2>. QED BY <2>1, <2>2
<1>5. \A m \in all : MessageFine(m)
  BY DEF AllFine, Fine
<1>6. Sent(all, "STATETRANSFER") => Sent(all, "REQUESTSTATETRANSFER")
  BY DEF AllFine, Fine, Sent
<1>. HIDE DEF new, all
<1>7. AllFine(new, restarts, all)
  BY <1>2, <1>3, <1>4, <1>5, <1>6 DEF AllFine
<1>. QED BY <1>1, <1>7

LEMMA ViewsOnlyBefore ==
  ASSUME msgs \subseteq msgs', ViewsOnly' PROVE ViewsOnly
BY DEF ViewsOnly, Sent

(* A replica that stays in its view keeps its log, if it leads; one that     *)
(* goes on to a later view does not lead it yet.                              *)
LEMMA OrderStays ==
  ASSUME NEW M, Order(M, replica, msgs), NEW r \in Indices, NEW x, Step(r, x),
         replica \in [Indices -> AnyReplica], x.s \in AnyReplica,
         x.s.log \in Seq(KnownEntries(M)), \A m \in x.out : OrderMessage(M, m),
         \/ /\ x.s.view = replica[r].view /\ x.s.status = replica[r].status
            /\ x.s.log = replica[r].log \/ ~AmLeader(r, x.s)
         \/ /\ Joins(replica[r], x.s.view)
            /\ x.s.status = "VIEW_CHANGE" \/ ~AmLeader(r, x.s)
  PROVE  Order(M, replica, msgs)'
<1>. DEFINE all == msgs \cup x.out
            new == [replica EXCEPT ![r] = x.s]
            s == replica[r]
<1>1. replica' = new /\ msgs' = all
  BY DEF Step
<1>2. new[r] = x.s /\ \A p \in Indices : p # r => new[p] = replica[p]
  OBVIOUS
<1>3. s \in AnyReplica /\ s.view \in Nat /\ x.s.view \in Nat
  BY DEF AnyReplica
<1>. HIDE DEF new
<1>4. ASSUME NEW v \in Nat, GetLeaderIndex(v) = r PROVE Orders(M, v, x.s)
  <2>1. Orders(M, v, s)
    BY <1>4 DEF Order
  <2>2. CASE /\ x.s.view = s.view /\ x.s.status = s.status
             /\ x.s.log = s.log \/ ~AmLeader(r, x.s)
    BY <1>4, <2>1, <2>2 DEF Orders, AmLeader
  <2>3. CASE /\ Joins(s, x.s.view)
             /\ x.s.status = "VIEW_CHANGE" \/ ~AmLeader(r, x.s)
    <3>1. ~(x.s.view = v /\ x.s.status = "NORMAL")
      BY <1>4, <2>3 DEF AmLeader
    <3>2. x.s.view < v \/ (x.s.view = v /\ x.s.status = "VIEW_CHANGE") =>
            s.view < v \/ (s.view = v /\ s.status = "VIEW_CHANGE")
      BY <1>3, <2>3 DEF Joins
    <3>. QED BY <2>1, <3>1, <3>2 DEF Orders
  <2>. QED BY <2>2, <2>3
<1>5. \A p \in Indices : new[p].log \in Seq(KnownEntries(M))
  BY <1>2 DEF Order
<1>6. \A m \in all : OrderMessage(M, m)
  BY DEF Order
<1>7. \A v \in Nat : \A p \in Indices : GetLeaderIndex(v) = p => Orders(M, v, new[p])
  BY <1>2, <1>4 DEF Order
<1>. HIDE DEF all
<1>8. Order(M, new, all)
  BY <1>5, <1>6, <1>7 DEF Order
<1>. QED BY <1>1, <1>8

LEMMA BoundsApart ==
  ASSUME NEW a \in Nat, NEW b \in Nat, a <= b
  PROVE  /\ \A k \in 1 .. a : k \in 1 .. b
         /\ \A from \in Nat \ {0}, to \in Nat : to <= a =>
              to <= b /\ \A k \in from .. to : k \in 1 .. a
OBVIOUS

LEMMA Inside ==
  ASSUME NEW n \in Nat, NEW from \in Nat \ {0}, NEW to \in Nat, to <= n
  PROVE  \A k \in from .. to : k \in 1 .. n
OBVIOUS

LEMMA SeqLength == ASSUME NEW A, NEW q \in Seq(A) PROVE Len(q) \in Nat
OBVIOUS

(* An order that goes on knows what it knew.                                 *)
LEMMA KnowsMore ==
  ASSUME NEW M \in [Nat -> Seq(Request)], NEW v \in Nat, NEW q \in Seq(Request),
         Len(M[v]) <= Len(q), \A i \in 1 .. Len(M[v]) : q[i] = M[v][i]
  PROVE  LET P == [M EXCEPT ![v] = q]
         IN  /\ P \in [Nat -> Seq(Request)]
             /\ KnownEntries(M) \subseteq KnownEntries(P)
             /\ \A m : MessageFine(m) /\ OrderMessage(M, m) => OrderMessage(P, m)
<1>. DEFINE P == [M EXCEPT ![v] = q]
<1>1. /\ P \in [Nat -> Seq(Request)] /\ P[v] = q
      /\ \A w \in Nat : w # v => P[w] = M[w]
  OBVIOUS
<1>2. Len(M[v]) \in Nat /\ Len(q) \in Nat
  OBVIOUS
<1>. HIDE DEF P
<1>3. ASSUME NEW w \in Nat
      PROVE  /\ Len(M[w]) \in Nat /\ Len(P[w]) \in Nat /\ Len(M[w]) <= Len(P[w])
             /\ \A i \in 1 .. Len(M[w]) : P[w][i] = M[w][i]
  <2>1. Len(M[w]) \in Nat /\ Len(P[w]) \in Nat
    <3>1. M[w] \in Seq(Request) /\ P[w] \in Seq(Request)
      BY <1>1
    <3>. QED BY <3>1, SeqLength, Zenon
  <2>2. CASE w = v
    <3>1. P[w] = q /\ M[w] = M[v]
      BY <1>1, <2>2
    <3>. QED BY <2>1, <3>1, Zenon
  <2>3. CASE w # v
    <3>1. P[w] = M[w]
      BY <1>1, <2>3
    <3>. QED BY <2>1, <3>1
  <2>. QED BY <2>1, <2>2, <2>3
<1>4. ASSUME NEW e \in KnownEntries(M) PROVE e \in KnownEntries(P)
  <2>1. /\ e \in LogEntry /\ e.opnum \in 1 .. Len(M[e.view]) /\ e.view \in Nat
        /\ M[e.view][e.opnum] = e.request
    BY DEF KnownEntries, LogEntry
  <2>2. e.opnum \in 1 .. Len(P[e.view]) /\ P[e.view][e.opnum] = e.request
    <3>1. /\ Len(M[e.view]) \in Nat /\ Len(P[e.view]) \in Nat
          /\ Len(M[e.view]) <= Len(P[e.view])
          /\ P[e.view][e.opnum] = M[e.view][e.opnum]
      BY <1>3, <2>1
    <3>. DEFINE a == Len(M[e.view])
                b == Len(P[e.view])
    <3>2. e.opnum \in 1 .. a /\ a \in Nat /\ b \in Nat /\ a <= b
      BY <2>1, <3>1
    <3>. HIDE DEF a, b
    <3>3. e.opnum \in 1 .. b
      BY <3>2, BoundsApart, Zenon
    <3>. QED BY <2>1, <3>1, <3>3 DEF b
  <2>. QED BY <2>1, <2>2 DEF KnownEntries
<1>5. KnownEntries(M) \subseteq KnownEntries(P)
  BY <1>4
<1>6. ASSUME NEW m, MessageFine(m), OrderMessage(M, m) PROVE OrderMessage(P, m)
  <2>1. m.type \in {"DOVIEWCHANGE", "STARTVIEW"} => m.entries \in Seq(KnownEntries(P))
    BY <1>5, <1>6, SeqOfMore DEF OrderMessage
  <2>2. ASSUME m.type = "PREPARE"
        PROVE  /\ m.opnum <= Len(P[m.view])
               /\ \A k \in m.batchStart .. m.opnum : RequestAt(m, k) = P[m.view][k]
    <3>1. /\ m.view \in Nat /\ m.opnum \in Nat /\ m.batchStart \in Nat \ {0}
          /\ m.opnum <= Len(M[m.view])
          /\ \A k \in m.batchStart .. m.opnum : RequestAt(m, k) = M[m.view][k]
      BY <1>6, <2>2 DEF MessageFine, OrderMessage
    <3>2. /\ Len(M[m.view]) \in Nat /\ Len(P[m.view]) \in Nat
          /\ Len(M[m.view]) <= Len(P[m.view])
          /\ \A i \in 1 .. Len(M[m.view]) : P[m.view][i] = M[m.view][i]
      BY <1>3, <3>1
    <3>. DEFINE a == Len(M[m.view])
                b == Len(P[m.view])
                from == m.batchStart
                to == m.opnum
    <3>3. /\ from \in Nat \ {0} /\ to \in Nat /\ to <= a /\ a \in Nat
          /\ b \in Nat /\ a <= b
      BY <3>1, <3>2, Zenon
    <3>. HIDE DEF a, b, from, to
    <3>4. to <= b /\ \A k \in from .. to : k \in 1 .. a
      BY <3>3, BoundsApart, Zenon
    <3>5. m.opnum <= Len(P[m.view])
      BY <3>4 DEF to, b
    <3>6. ASSUME NEW k \in m.batchStart .. m.opnum
          PROVE  RequestAt(m, k) = P[m.view][k]
      <4>1. k \in 1 .. Len(M[m.view])
        BY <3>4, <3>6 DEF from, to, a
      <4>. QED BY <3>1, <3>2, <3>6, <4>1
    <3>. QED BY <3>5, <3>6
  <2>. QED BY <2>1, <2>2 DEF OrderMessage
<1>. QED BY <1>1, <1>5, <1>6 DEF P

(* The leader of a view adds to its order.                                   *)
GoesOnAs(M, P, v, q, s, x) ==
  /\ x.s \in AnyReplica /\ v \in Nat
  /\ x.s.view = v /\ x.s.status = "NORMAL" /\ s.view <= v
  /\ q \in Seq(Request) /\ Len(M[v]) <= Len(q)
  /\ \A i \in 1 .. Len(M[v]) : q[i] = M[v][i]
  /\ Len(q) = Len(x.s.log) /\ \A i \in 1 .. Len(q) : q[i] = x.s.log[i].request
  /\ P = [M EXCEPT ![v] = q]
  /\ x.s.log \in Seq(KnownEntries(P)) /\ \A m \in x.out : OrderMessage(P, m)

LEMMA OrderGoesOn ==
  ASSUME NEW M, Order(M, replica, msgs), NEW r \in Indices, NEW x, Step(r, x),
         AllFine(replica, restarts, msgs),
         NEW v, GetLeaderIndex(v) = r, NEW P, NEW q,
         GoesOnAs(M, P, v, q, replica[r], x)
  PROVE  Order(P, replica', msgs')
<1>. DEFINE all == msgs \cup x.out
            new == [replica EXCEPT ![r] = x.s]
            s == replica[r]
<1>0. /\ x.s \in AnyReplica /\ v \in Nat
      /\ x.s.view = v /\ x.s.status = "NORMAL" /\ s.view <= v
      /\ q \in Seq(Request) /\ Len(M[v]) <= Len(q)
      /\ \A i \in 1 .. Len(M[v]) : q[i] = M[v][i]
      /\ Len(q) = Len(x.s.log) /\ \A i \in 1 .. Len(q) : q[i] = x.s.log[i].request
      /\ P = [M EXCEPT ![v] = q]
      /\ x.s.log \in Seq(KnownEntries(P)) /\ \A m \in x.out : OrderMessage(P, m)
  BY Zenon DEF GoesOnAs
<1>1. replica' = new /\ msgs' = all
  BY DEF Step
<1>2. replica \in [Indices -> AnyReplica] /\ M \in [Nat -> Seq(Request)]
  BY DEF AllFine, Order
<1>3. new[r] = x.s /\ \A p \in Indices : p # r => new[p] = replica[p]
  BY <1>2
<1>4. s \in AnyReplica /\ s.view \in Nat
  BY <1>2 DEF AnyReplica
<1>5. /\ P \in [Nat -> Seq(Request)]
      /\ KnownEntries(M) \subseteq KnownEntries(P)
      /\ \A m : MessageFine(m) /\ OrderMessage(M, m) => OrderMessage(P, m)
  BY <1>0, <1>2, KnowsMore
<1>6. P[v] = q /\ \A w \in Nat : w # v => P[w] = M[w]
  BY <1>0, <1>2
<1>. HIDE DEF new
<1>7. \A p \in Indices : new[p].log \in Seq(KnownEntries(P))
  <2>. SUFFICES ASSUME NEW p \in Indices, p # r
                PROVE  new[p].log \in Seq(KnownEntries(P))
    BY <1>0, <1>3
  <2>1. new[p].log \in Seq(KnownEntries(M))
    BY <1>3 DEF Order
  <2>. QED BY <1>5, <2>1, SeqOfMore
<1>8. \A m \in all : OrderMessage(P, m)
  BY <1>0, <1>5 DEF Order, AllFine
<1>9. ASSUME NEW w \in Nat, NEW p \in Indices, GetLeaderIndex(w) = p
      PROVE  Orders(P, w, new[p])
  <2>1. CASE w = v
    BY <1>0, <1>3, <1>6, <1>9, <2>1 DEF Orders
  <2>2. CASE w # v
    <3>1. P[w] = M[w] /\ Orders(M, w, replica[p])
      BY <1>6, <1>9, <2>2 DEF Order
    <3>2. CASE p # r
      BY <1>3, <3>1, <3>2 DEF Orders
    <3>3. CASE p = r
      <4>1. new[p] = x.s /\ (x.s.view < w => s.view < w)
        BY <1>0, <1>3, <1>4, <3>3
      <4>. QED BY <1>0, <2>2, <3>1, <3>3, <4>1 DEF Orders
    <3>. QED BY <3>2, <3>3
  <2>. QED BY <2>1, <2>2
<1>. HIDE DEF all
<1>10. Order(P, new, all)
  BY <1>5, <1>7, <1>8, <1>9 DEF Order
<1>. QED BY <1>1, <1>10

-----------------------------------------------------------------------------
(* Steps that leave the log and the view alone                               *)

LEMMA RequestIsQuiet ==
  ASSUME NEW s \in AnyReplica, NEW r \in Indices
  PROVE  \A m \in RequestStateTransfer(r, s) : Quiet(m)
<1>. DEFINE n == [type |-> "REQUESTSTATETRANSFER", view |-> s.view, src |-> r,
                  opnum |-> lastCommitted(s)]
<1>1. \A m \in RequestStateTransfer(r, s) : m = n
  <2>. DEFINE all == Received("REQUESTSTATETRANSFER") \cup {n}
  <2>. HIDE DEF all
  <2>. QED BY DEF RequestStateTransfer, all
<1>2. s.view \in Nat /\ Len(s.executed) \in Nat
  BY DEF AnyReplica
<1>3. Quiet(n)
  BY <1>2 DEF Quiet, MessageFine, lastCommitted
<1>. QED BY <1>1, <1>3

LEMMA CommitIsQuiet ==
  ASSUME NEW s \in AnyReplica PROVE Quiet(Commit(s))
<1>1. s.view \in Nat /\ Len(s.executed) \in Nat
  BY DEF AnyReplica
<1>. QED BY <1>1 DEF Quiet, MessageFine, Commit, lastCommitted

Says(r, s, m) ==
  Quiet(m) \/ (Prepares(s, m) /\ s.status = "NORMAL" /\ AmLeader(r, s))

Calm(r, s, x) ==
  /\ x.s \in AnyReplica /\ x.s.log = s.log /\ x.s.lastOp = s.lastOp
  /\ x.s.view = s.view /\ x.s.status = s.status
  /\ x.s.doViewChanges = s.doViewChanges
  /\ x.s.recoveryResponses = s.recoveryResponses
  /\ x.s.closeBatch => s.closeBatch
  /\ IsFiniteSet(s.prepareOKs) => IsFiniteSet(x.s.prepareOKs)
  /\ \A m \in x.out : Says(r, s, m)

LEMMA CalmOn ==
  ASSUME NEW r, NEW s, NEW x, NEW y, Calm(r, s, x), Executes(x, y)
  PROVE  Calm(r, s, y)
BY DEF Calm, Executes, Untouched, Says

LEMMA CalmBatch ==
  ASSUME NEW r, NEW s, NEW x, Calm(r, s, x), s.lastOp <= Len(s.log),
         s.status = "NORMAL", AmLeader(r, s)
  PROVE  Calm(r, s, CloseBatch(x))
<1>. DEFINE y == CloseBatch(x)
<1>1. x.s \in AnyReplica /\ x.s.lastOp <= Len(x.s.log)
  BY DEF Calm
<1>2. /\ y.s \in AnyReplica /\ y.s.log = x.s.log /\ y.s.lastOp = x.s.lastOp
      /\ y.s.executed = x.s.executed /\ y.s.closeBatch = FALSE
      /\ y.s.view = x.s.view /\ y.s.status = x.s.status
      /\ y.s.doViewChanges = x.s.doViewChanges
      /\ y.s.recoveryResponses = x.s.recoveryResponses
      /\ y.s.prepareOKs = x.s.prepareOKs
      /\ \A m \in y.out : m \in x.out \/ Prepares(x.s, m)
  BY <1>1, CloseBatchTyped
<1>. HIDE DEF y
<1>3. \A m \in y.out : Says(r, s, m)
  BY <1>2 DEF Calm, Says, Prepares
<1>4. Calm(r, s, y)
  BY <1>2, <1>3 DEF Calm
<1>. QED BY <1>4 DEF y

(* What is prepared is what the log has.                                     *)
LEMMA PreparesFine ==
  ASSUME NEW s \in AnyReplica, s.lastOp <= Len(s.log), NEW m, Prepares(s, m)
  PROVE  /\ MessageFine(m)
         /\ \A k \in m.batchStart .. m.opnum : k \in 1 .. Len(s.log)
<1>1. /\ s.log \in Seq(LogEntry) /\ s.lastOp \in Nat /\ s.view \in Nat
      /\ Len(s.log) \in Nat
  BY DEF AnyReplica
<1>2. /\ m.type = "PREPARE" /\ m.view = s.view /\ m.opnum = s.lastOp
      /\ m.batchStart \in Nat \ {0}
  BY DEF Prepares
<1>3. \A k \in m.batchStart .. m.opnum : k \in 1 .. Len(s.log)
  <2>. DEFINE from == m.batchStart
              to == m.opnum
              n == Len(s.log)
  <2>1. from \in Nat \ {0} /\ to \in Nat /\ n \in Nat /\ to <= n
    BY <1>1, <1>2
  <2>. HIDE DEF from, to, n
  <2>2. \A k \in from .. to : k \in 1 .. n
    BY <2>1
  <2>. QED BY <2>2 DEF from, to, n
<1>4. ASSUME NEW k \in m.batchStart .. m.opnum PROVE RequestAt(m, k) \in Request
  <2>1. s.log[k] \in LogEntry /\ RequestAt(m, k) = s.log[k].request
    BY <1>1, <1>3, <1>4, ElementOfSeq DEF Prepares
  <2>. QED BY <2>1 DEF LogEntry
<1>5. MessageFine(m)
  BY <1>1, <1>2, <1>4 DEF MessageFine
<1>. QED BY <1>3, <1>5

LEMMA CalmKept ==
  ASSUME Kept, NEW r \in Indices, NEW x, Step(r, x), Calm(r, replica[r], x)
  PROVE  Kept'
<1>. DEFINE s == replica[r]
<1>1. /\ AllFine(replica, restarts, msgs) /\ s \in AnyReplica
      /\ replica \in [Indices -> AnyReplica] /\ StateFine(r, s, msgs)
  BY DEF Kept, AllFine
<1>2. \A m \in x.out : /\ MessageFine(m)
                       /\ m.type \notin {"STATETRANSFER", "DOVIEWCHANGE", "STARTVIEW"}
  BY <1>1, PreparesFine DEF Calm, Says, Quiet, StateFine, Prepares
<1>3. StateFine(r, x.s, msgs \cup x.out)
  <2>1. StateFine(r, s, msgs \cup x.out)
    BY <1>1, StateFineMore
  <2>. QED BY <2>1 DEF StateFine, KeepsSent, Calm, AmLeader
<1>4. AllFine(replica, restarts, msgs)'
  BY <1>1, <1>2, <1>3, StepFine DEF Fine
<1>5. ASSUME ViewsOnly' PROVE \E M : Order(M, replica', msgs')
  <2>1. ViewsOnly
    BY <1>5, ViewsOnlyBefore DEF Step
  <2>2. PICK M : Order(M, replica, msgs)
    BY <2>1 DEF Kept, OrderHolds
  <2>3. x.s \in AnyReplica /\ x.s.log \in Seq(KnownEntries(M))
    BY <2>2 DEF Calm, Order
  <2>4. ASSUME NEW m \in x.out, Prepares(s, m), s.status = "NORMAL", AmLeader(r, s)
        PROVE  OrderMessage(M, m)
    <3>1. s.view \in Nat /\ Len(s.log) \in Nat /\ s.lastOp <= Len(s.log)
      BY <1>1 DEF StateFine, AnyReplica
    <3>2. Orders(M, s.view, s)
      BY <2>2, <2>4, <3>1 DEF Order, AmLeader
    <3>3. /\ Len(M[s.view]) = Len(s.log)
          /\ \A k \in 1 .. Len(s.log) : M[s.view][k] = s.log[k].request
      BY <2>4, <3>2 DEF Orders
    <3>4. \A k \in m.batchStart .. m.opnum : k \in 1 .. Len(s.log)
      BY <1>1, <2>4, <3>1, PreparesFine
    <3>. QED BY <2>4, <3>1, <3>3, <3>4 DEF Prepares, OrderMessage
  <2>5. \A m \in x.out : OrderMessage(M, m)
    <3>. SUFFICES ASSUME NEW m \in x.out PROVE OrderMessage(M, m)
      OBVIOUS
    <3>1. CASE Quiet(m)
      BY <3>1 DEF Quiet, OrderMessage
    <3>. QED BY <2>4, <3>1 DEF Calm, Says
  <2>6. x.s.view = s.view /\ x.s.status = s.status /\ x.s.log = s.log
    BY DEF Calm
  <2>7. Order(M, replica, msgs)'
    BY <1>1, <2>2, <2>3, <2>5, <2>6, OrderStays
  <2>. QED BY <2>7
<1>. QED BY <1>4, <1>5 DEF Kept, OrderHolds

LEMMA KeptParts ==
  ASSUME Kept, NEW r \in Indices
  PROVE  /\ AllFine(replica, restarts, msgs) /\ replica \in [Indices -> AnyReplica]
         /\ replica[r] \in AnyReplica /\ StateFine(r, replica[r], msgs)
         /\ replica[r].log \in Seq(UpTo(replica[r].view))
         /\ replica[r].lastOp <= Len(replica[r].log)
         /\ replica[r].view \in Nat /\ replica[r].lastOp \in Nat
         /\ Len(replica[r].log) \in Nat /\ Len(replica[r].executed) \in Nat
         /\ IsFiniteSet(replica[r].prepareOKs)
         /\ \A m \in msgs : MessageFine(m)
<1>1. replica[r] \in AnyReplica /\ StateFine(r, replica[r], msgs)
      /\ replica \in [Indices -> AnyReplica]
      /\ AllFine(replica, restarts, msgs) /\ \A m \in msgs : MessageFine(m)
  BY DEF Kept, AllFine
<1>2. /\ replica[r].view \in Nat /\ replica[r].lastOp \in Nat
      /\ replica[r].log \in Seq(LogEntry) /\ replica[r].executed \in Seq(Request)
  BY <1>1 DEF AnyReplica
<1>3. Len(replica[r].log) \in Nat /\ Len(replica[r].executed) \in Nat
  BY <1>2
<1>4. /\ replica[r].log \in Seq(UpTo(replica[r].view))
      /\ replica[r].lastOp <= Len(replica[r].log)
      /\ IsFiniteSet(replica[r].prepareOKs)
  BY <1>1 DEF StateFine
<1>. QED BY <1>1, <1>2, <1>3, <1>4

(* A step that only says something.                                          *)
LEMMA SayingKept ==
  ASSUME Kept, NEW r \in Indices, NEW out, Step(r, Went(replica[r], out)),
         \A m \in out : Quiet(m)
  PROVE  Kept'
<1>1. Calm(r, replica[r], Went(replica[r], out))
  BY KeptParts DEF Calm, Says, Went
<1>. QED BY <1>1, CalmKept

LEMMA CloseBatchTimeoutKept ==
  ASSUME Kept, NEW r \in Indices, CloseBatchTimeout(r) PROVE Kept'
<1>. DEFINE s == replica[r]
<1>1. s.closeBatch /\ Step(r, CloseBatch(Went(s, {})))
  BY DEF CloseBatchTimeout
<1>2. s.status = "NORMAL" /\ AmLeader(r, s) /\ s.lastOp <= Len(s.log)
  BY <1>1, KeptParts DEF StateFine
<1>3. Calm(r, s, Went(s, {}))
  BY KeptParts DEF Calm, Went
<1>4. Calm(r, s, CloseBatch(Went(s, {})))
  BY <1>2, <1>3, CalmBatch
<1>. QED BY <1>1, <1>4, CalmKept

LEMMA SendNullCommitKept ==
  ASSUME Kept, NEW r \in Indices, SendNullCommit(r) PROVE Kept'
<1>1. Step(r, Went(replica[r], {Commit(replica[r])}))
  BY DEF SendNullCommit
<1>2. \A m \in {Commit(replica[r])} : Quiet(m)
  BY KeptParts, CommitIsQuiet
<1>. QED BY <1>1, <1>2, SayingKept

LEMMA HandleCommitKept ==
  ASSUME Kept, NEW r \in Indices, HandleCommit(r) PROVE Kept'
<1>. DEFINE s == replica[r]
<1>1. PICK m \in Received("COMMIT") :
        \/ Step(r, Went(s, RequestStateTransfer(r, s)))
        \/ /\ CanCommit(s.log, m.opnum)
           /\ Step(r, CommitUpTo(Went(s, {}), m.opnum))
  BY DEF HandleCommit
<1>2. CASE Step(r, Went(s, RequestStateTransfer(r, s)))
  BY <1>2, KeptParts, RequestIsQuiet, SayingKept
<1>3. CASE CanCommit(s.log, m.opnum) /\ Step(r, CommitUpTo(Went(s, {}), m.opnum))
  <2>. DEFINE x == Went(s, {})
  <2>1. Calm(r, s, x) /\ x.s = s /\ x.s \in AnyReplica
    BY KeptParts DEF Calm, Went
  <2>2. m.opnum \in Nat /\ m.opnum <= Len(x.s.log)
    BY <1>3, <2>1, KeptParts DEF Received, MessageFine, CanCommit
  <2>. HIDE DEF x
  <2>3. Executes(x, CommitUpTo(x, m.opnum))
    BY <2>1, <2>2, CommitUpToTyped
  <2>4. Calm(r, s, CommitUpTo(x, m.opnum))
    BY <2>1, <2>3, CalmOn
  <2>. QED BY <1>3, <2>4, CalmKept DEF x
<1>. QED BY <1>1, <1>2, <1>3

(* A quorum commits, announces it and lets the next batch go.                *)
LEMMA QuorumCalm ==
  ASSUME NEW r, NEW s, NEW x, Calm(r, s, x), s.lastOp <= Len(s.log),
         IsFiniteSet(s.prepareOKs), s.status = "NORMAL", AmLeader(r, s),
         NEW opnum \in Nat, opnum <= Len(s.log)
  PROVE  Calm(r, s, HandlePrepareOKQuorum(x, opnum))
<1>. DEFINE y == CommitUpTo(x, opnum)
            z == Went(y.s, y.out \cup {Commit(y.s)})
            all == {o \in y.s.prepareOKs : o.opnum = opnum}
            many == Cardinality(all) >= QuorumSize
            few == Cardinality(all) < QuorumSize
            t == [z.s EXCEPT !.batchComplete = TRUE]
<1>1. x.s \in AnyReplica /\ opnum <= Len(x.s.log)
  BY DEF Calm
<1>2. Executes(x, y)
  BY <1>1, CommitUpToTyped
<1>3. HandlePrepareOKQuorum(x, opnum) =
        CASE many -> y
          [] few /\ y.s.lastBatchEnd # opnum -> z
          [] few /\ y.s.lastBatchEnd = opnum ->
               IF y.s.lastOp > opnum THEN CloseBatch(z) ELSE Went(t, z.out)
  BY DEF HandlePrepareOKQuorum
<1>. HIDE DEF y
<1>4. Calm(r, s, y)
  BY <1>2, CalmOn
<1>5. Calm(r, s, z)
  <2>1. Quiet(Commit(y.s))
    BY <1>4, CommitIsQuiet DEF Calm
  <2>. QED BY <1>4, <2>1 DEF Calm, Says, Went
<1>6. Calm(r, s, CloseBatch(z))
  <2>. HIDE DEF z
  <2>. QED BY <1>5, CalmBatch
<1>7. Calm(r, s, Went(t, z.out))
  <2>1. t \in AnyReplica /\ t.log = z.s.log /\ t.lastOp = z.s.lastOp
        /\ t.view = z.s.view /\ t.status = z.s.status
        /\ t.doViewChanges = z.s.doViewChanges
        /\ t.recoveryResponses = z.s.recoveryResponses
        /\ t.closeBatch = z.s.closeBatch /\ t.prepareOKs = z.s.prepareOKs
    <3>1. z.s \in AnyReplica
      BY <1>5 DEF Calm
    <3>. HIDE DEF z
    <3>. QED BY <3>1 DEF AnyReplica
  <2>. HIDE DEF t, z
  <2>. QED BY <1>5, <2>1 DEF Calm, Went
<1>. HIDE DEF z, t, all
<1>8. \/ HandlePrepareOKQuorum(x, opnum) = y
      \/ HandlePrepareOKQuorum(x, opnum) = z
      \/ HandlePrepareOKQuorum(x, opnum) = CloseBatch(z)
      \/ HandlePrepareOKQuorum(x, opnum) = Went(t, z.out)
  <2>1. few \/ many
    <3>1. IsFiniteSet(all)
      <4>1. IsFiniteSet(y.s.prepareOKs)
        BY <1>4 DEF Calm
      <4>. QED BY <4>1, FS_Subset DEF all
    <3>2. Cardinality(all) \in Nat /\ QuorumSize \in Nat
      BY <3>1, FS_CardinalityType, ConfigurationAssumption DEF QuorumSize
    <3>. QED BY <3>2
  <2>. HIDE DEF few, many
  <2>. QED BY <1>3, <2>1
<1>. QED BY <1>4, <1>5, <1>6, <1>7, <1>8

LEMMA HandlePrepareOKKept ==
  ASSUME Kept, NEW r \in Indices, HandlePrepareOK(r) PROVE Kept'
<1>. DEFINE s == replica[r]
            counted(m) == [s EXCEPT !.prepareOKs =
                             @ \cup {[opnum |-> m.opnum, src |-> m.src]}]
<1>1. PICK m \in Received("PREPAREOK") :
        /\ GetLeaderIndex(m.view) = r /\ s.status = "NORMAL"
        /\ \/ Step(r, Went(s, RequestStateTransfer(r, s)))
           \/ /\ m.view = s.view
              /\ Step(r, Went(counted(m), {}))
           \/ /\ m.view = s.view
              /\ CanCommit(counted(m).log, m.opnum)
              /\ Step(r, HandlePrepareOKQuorum(Went(counted(m), {}), m.opnum))
  BY DEF HandlePrepareOK
<1>. DEFINE ok == [opnum |-> m.opnum, src |-> m.src]
            all == s.prepareOKs \cup {ok}
            t == [s EXCEPT !.prepareOKs = all]
            x == Went(t, {})
<1>2. m.opnum \in Nat /\ m.src \in Indices /\ s \in AnyReplica
      /\ s.lastOp <= Len(s.log) /\ IsFiniteSet(s.prepareOKs)
  BY KeptParts DEF Received, MessageFine
<1>3. counted(m) = t
  OBVIOUS
<1>4. all \in SUBSET [opnum : Nat, src : Indices] /\ IsFiniteSet(all)
  <2>1. ok \in [opnum : Nat, src : Indices]
    BY <1>2
  <2>. HIDE DEF ok
  <2>2. IsFiniteSet(s.prepareOKs \cup {ok})
    BY <1>2, FS_AddElement
  <2>. QED BY <1>2, <2>1, <2>2 DEF AnyReplica
<1>. HIDE DEF all
<1>5. Calm(r, s, x) /\ t.log = s.log
  BY <1>2, <1>4 DEF Calm, Went, AnyReplica
<1>. HIDE DEF t, counted
<1>6. CASE Step(r, Went(s, RequestStateTransfer(r, s)))
  BY <1>2, <1>6, RequestIsQuiet, SayingKept
<1>7. CASE Step(r, x)
  BY <1>5, <1>7, CalmKept
<1>8. CASE /\ m.view = s.view /\ CanCommit(t.log, m.opnum)
           /\ Step(r, HandlePrepareOKQuorum(x, m.opnum))
  <2>1. AmLeader(r, s) /\ m.opnum <= Len(s.log)
    BY <1>1, <1>5, <1>8 DEF AmLeader, CanCommit
  <2>. HIDE DEF x
  <2>2. Calm(r, s, HandlePrepareOKQuorum(x, m.opnum))
    BY <1>1, <1>2, <1>5, <2>1, QuorumCalm
  <2>. QED BY <1>8, <2>2, CalmKept
<1>. QED BY <1>1, <1>3, <1>6, <1>7, <1>8

-----------------------------------------------------------------------------
(* Requests and PREPAREs in any view                                         *)

(* A request more in the order of a view, and in its leader's log.           *)
OrdersUpTo(M, v, q, op, log) ==
  LET P == [M EXCEPT ![v] = q]
  IN  /\ q \in Seq(Request) /\ P[v] = q
      /\ Len(M[v]) <= Len(q) /\ Len(q) = op
      /\ \A i \in 1 .. Len(M[v]) : q[i] = M[v][i]
      /\ log \in Seq(KnownEntries(P)) /\ Len(log) = op
      /\ \A i \in 1 .. Len(q) : q[i] = log[i].request

LEMMA OrderedNext ==
  ASSUME NEW M \in [Nat -> Seq(Request)], NEW v \in Nat, NEW request \in Request,
         NEW log \in Seq(KnownEntries(M)), Len(M[v]) = Len(log),
         \A i \in 1 .. Len(log) : M[v][i] = log[i].request,
         NEW op, op = Len(log) + 1,
         NEW e, e = Entry(v, op, request)
  PROVE  OrdersUpTo(M, v, Append(M[v], request), op, Append(log, e))
<1>. DEFINE old == M[v]
            q == Append(old, request)
            P == [M EXCEPT ![v] = q]
            longer == Append(log, e)
            n == Len(log)
<1>1. old \in Seq(Request) /\ Len(old) = n /\ n \in Nat /\ op = n + 1
  BY SeqLength
<1>. HIDE DEF old, n
<1>2. /\ q \in Seq(Request) /\ Len(q) = Len(old) + 1
      /\ \A i \in 1 .. Len(old) : q[i] = old[i]
      /\ q[Len(old) + 1] = request
  <2>1. q \in Seq(Request)
    BY <1>1, Appending
  <2>2. Len(q) = Len(old) + 1 /\ q[Len(old) + 1] = request
    BY <1>1, Appending
  <2>3. \A i \in 1 .. Len(old) : q[i] = old[i]
    BY <1>1, Appending
  <2>. QED BY <2>1, <2>2, <2>3, Zenon
<1>3. P[v] = q
  BY DEF old
<1>. HIDE DEF q
<1>4. Len(old) <= Len(q) /\ Len(q) = op
  BY <1>1, <1>2
<1>5. log \in Seq(KnownEntries(P))
  <2>1. KnownEntries(M) \subseteq KnownEntries(P)
    BY <1>2, <1>4, KnowsMore DEF old
  <2>. HIDE DEF P
  <2>. QED BY <2>1, SeqOfMore
<1>. HIDE DEF P
<1>6. e \in KnownEntries(P)
  <2>1. e.view = v /\ e.opnum = op /\ e.request = request /\ e \in LogEntry
    BY <1>1 DEF Entry, LogEntry
  <2>2. op \in 1 .. Len(P[v]) /\ P[v][op] = request
    BY <1>1, <1>2, <1>3, <1>4
  <2>. QED BY <2>1, <2>2 DEF KnownEntries
<1>7. /\ longer \in Seq(KnownEntries(P)) /\ Len(longer) = n + 1
      /\ \A i \in 1 .. n : longer[i] = log[i]
      /\ longer[n + 1] = e
  BY <1>5, <1>6, Appending DEF n
<1>. HIDE DEF longer
<1>8. ASSUME NEW i \in 1 .. Len(q) PROVE q[i] = longer[i].request
  <2>1. CASE i \in 1 .. n
    <3>1. q[i] = old[i] /\ longer[i] = log[i]
      BY <1>1, <1>2, <1>7, <2>1
    <3>2. old[i] = log[i].request
      BY <2>1 DEF old, n
    <3>. QED BY <3>1, <3>2
  <2>2. CASE i = n + 1
    BY <1>1, <1>2, <1>7, <2>2 DEF Entry
  <2>3. i \in 1 .. n \/ i = n + 1
    BY <1>1, <1>4
  <2>. QED BY <2>1, <2>2, <2>3
<1>9. OrdersUpTo(M, v, q, op, longer)
  BY <1>1, <1>2, <1>3, <1>4, <1>7, <1>8, Zenon DEF OrdersUpTo, P, old
<1>. QED BY <1>9 DEF q, longer, old

LEMMA AppendRequestKept ==
  ASSUME Kept, NEW r \in Indices, LogInOrder',
         NEW s, Calm(r, replica[r], Went(s, {})), s.status = "NORMAL", AmLeader(r, s),
         NEW request \in Request, AppendRequest(r, s, request)
  PROVE  Kept'
<1>. DEFINE old == replica[r]
            known == UpdateClientTable(s, request)
            op == s.lastOp + 1
            e == Entry(s.view, op, request)
            t == [known EXCEPT !.lastOp = op, !.log = Append(@, e)]
            waits == [t EXCEPT !.closeBatch = TRUE]
            x == IF BatchFull(t) THEN CloseBatch(Went(t, {})) ELSE Went(waits, {})
<1>1. Step(r, x)
  BY DEF AppendRequest
<1>2. /\ s \in AnyReplica /\ s.log = old.log /\ s.lastOp = old.lastOp
      /\ s.view = old.view /\ s.status = old.status
      /\ s.doViewChanges = old.doViewChanges
      /\ s.recoveryResponses = old.recoveryResponses
      /\ IsFiniteSet(s.prepareOKs)
  BY KeptParts DEF Calm, Went
<1>3. /\ AllFine(replica, restarts, msgs) /\ StateFine(r, old, msgs)
      /\ s.log \in Seq(UpTo(s.view)) /\ s.lastOp <= Len(s.log)
      /\ s.view \in Nat /\ s.lastOp \in Nat /\ Len(s.log) \in Nat
      /\ s.log \in Seq(LogEntry)
  BY <1>2, KeptParts DEF AnyReplica
<1>4. /\ known \in AnyReplica /\ Untouched(s, known) /\ known.log = s.log
      /\ known.lastOp = s.lastOp
  BY <1>2, UpdateTyped
<1>5. e \in UpTo(s.view) /\ e \in LogEntry /\ UpTo(s.view) \subseteq LogEntry
  BY <1>3 DEF UpTo, LogEntry, Entry
<1>. HIDE DEF known, e
<1>6. LongerBy(UpTo(s.view), known, e, t)
  <2>1. t = [known EXCEPT !.log = Append(known.log, e), !.lastOp = known.lastOp + 1]
    BY <1>4 DEF AnyReplica
  <2>2. known.log \in Seq(UpTo(s.view))
    BY <1>3, <1>4
  <2>. HIDE DEF t
  <2>. QED BY <1>4, <1>5, <2>1, <2>2, AppendTyped, Zenon
<1>. HIDE DEF t
<1>7. /\ t \in AnyReplica /\ Untouched(s, t) /\ t.log = Append(s.log, e)
      /\ t.log \in Seq(UpTo(s.view)) /\ Len(t.log) = Len(s.log) + 1
      /\ t.lastOp = op /\ t.lastOp <= Len(t.log)
  <2>1. /\ t \in AnyReplica /\ t.log = Append(s.log, e)
        /\ t.log \in Seq(UpTo(s.view)) /\ Len(t.log) = Len(s.log) + 1
        /\ t.lastOp = op
    BY <1>4, <1>6 DEF LongerBy
  <2>2. Untouched(s, t)
    BY <1>4, <1>6 DEF LongerBy, Untouched
  <2>3. op <= Len(t.log)
    BY <1>3, <2>1
  <2>. QED BY <2>1, <2>2, <2>3
<1>8. /\ x.s \in AnyReplica /\ x.s.log = t.log /\ x.s.lastOp = op
      /\ x.s.view = s.view /\ x.s.status = "NORMAL"
      /\ x.s.doViewChanges = s.doViewChanges
      /\ x.s.recoveryResponses = s.recoveryResponses
      /\ x.s.prepareOKs = s.prepareOKs
      /\ \A m \in x.out : Prepares(t, m)
  <2>1. CASE BatchFull(t)
    <3>. DEFINE y == Went(t, {})
                z == CloseBatch(y)
    <3>1. y.s = t /\ y.out = {}
      BY DEF Went
    <3>. HIDE DEF y
    <3>2. /\ z.s \in AnyReplica /\ z.s.log = t.log /\ z.s.lastOp = t.lastOp
          /\ z.s.view = t.view /\ z.s.status = t.status
          /\ z.s.doViewChanges = t.doViewChanges
          /\ z.s.recoveryResponses = t.recoveryResponses
          /\ z.s.prepareOKs = t.prepareOKs
          /\ \A m \in z.out : Prepares(t, m)
      BY <1>7, <3>1, CloseBatchTyped
    <3>3. x = z
      BY <2>1 DEF y
    <3>. HIDE DEF x, z
    <3>. QED BY <1>7, <3>2, <3>3 DEF Untouched
  <2>2. CASE ~BatchFull(t)
    <3>1. x = Went(waits, {})
      BY <2>2
    <3>2. /\ waits \in AnyReplica /\ waits.log = t.log /\ waits.lastOp = t.lastOp
          /\ waits.view = t.view /\ waits.status = t.status
          /\ waits.doViewChanges = t.doViewChanges
          /\ waits.recoveryResponses = t.recoveryResponses
          /\ waits.prepareOKs = t.prepareOKs
      BY <1>7 DEF AnyReplica
    <3>. HIDE DEF x, waits
    <3>. QED BY <1>7, <3>1, <3>2 DEF Untouched, Went
  <2>. QED BY <2>1, <2>2
<1>. HIDE DEF x, op
<1>9. \A m \in x.out : /\ MessageFine(m) /\ m.type = "PREPARE"
                       /\ \A k \in m.batchStart .. m.opnum : k \in 1 .. Len(t.log)
  BY <1>7, <1>8, PreparesFine DEF Prepares
<1>10. AllFine(replica, restarts, msgs)'
  <2>1. KeepsSent(s, msgs \cup x.out)
    BY <1>2, <1>3 DEF StateFine, KeepsSent
  <2>2. KeepsSent(x.s, msgs \cup x.out)
    BY <1>8, <2>1 DEF KeepsSent
  <2>3. StateFine(r, x.s, msgs \cup x.out)
    BY <1>2, <1>7, <1>8, <2>2 DEF StateFine, AmLeader
  <2>. QED BY <1>1, <1>3, <1>9, <2>3, StepFine DEF Fine
<1>11. ASSUME ViewsOnly' PROVE \E M : Order(M, replica', msgs')
  <2>1. ViewsOnly
    BY <1>1, <1>11, ViewsOnlyBefore DEF Step
  <2>2. PICK M : Order(M, replica, msgs)
    BY <2>1 DEF Kept, OrderHolds
  <2>. DEFINE v == s.view
              q == Append(M[v], request)
              P == [M EXCEPT ![v] = q]
  <2>3. op = Len(s.log) + 1
    <3>1. replica'[r] = x.s
      <4>1. replica \in [Indices -> AnyReplica]
        BY <1>3 DEF AllFine
      <4>. QED BY <1>1, <4>1 DEF Step
    <3>2. \A i \in DOMAIN t.log : t.log[i].opnum = i
      BY <1>8, <3>1 DEF LogInOrder
    <3>. DEFINE n == Len(s.log) + 1
    <3>3. t.log[n] = e /\ n \in 1 .. Len(t.log)
      <4>1. Append(s.log, e)[Len(s.log) + 1] = e
        BY <1>3, <1>5, Appending
      <4>2. n \in 1 .. n
        BY <1>3
      <4>. QED BY <1>7, <4>1, <4>2
    <3>4. DOMAIN t.log = 1 .. Len(t.log)
      BY <1>7
    <3>5. e.opnum = n
      BY <3>2, <3>3, <3>4
    <3>. QED BY <3>5 DEF e, Entry
  <2>4. /\ M \in [Nat -> Seq(Request)] /\ v \in Nat /\ GetLeaderIndex(v) = r
        /\ s.log \in Seq(KnownEntries(M))
        /\ Len(M[v]) = Len(s.log)
        /\ \A i \in 1 .. Len(s.log) : M[v][i] = s.log[i].request
    <3>1. Orders(M, v, old)
      BY <1>3, <2>2 DEF Order, AmLeader
    <3>2. /\ Len(M[v]) = Len(s.log)
          /\ \A i \in 1 .. Len(s.log) : M[v][i] = s.log[i].request
      BY <1>2, <3>1 DEF Orders
    <3>. QED BY <1>2, <1>3, <2>2, <3>2 DEF Order, AmLeader
  <2>5. /\ q \in Seq(Request) /\ P[v] = q
        /\ Len(M[v]) <= Len(q) /\ Len(q) = op
        /\ \A i \in 1 .. Len(M[v]) : q[i] = M[v][i]
        /\ t.log \in Seq(KnownEntries(P)) /\ Len(t.log) = op
        /\ \A i \in 1 .. Len(q) : q[i] = t.log[i].request
    <3>1. e = Entry(v, op, request)
      BY DEF e, op
    <3>. HIDE DEF v
    <3>2. OrdersUpTo(M, v, q, op, Append(s.log, e))
      BY <2>3, <2>4, <3>1, OrderedNext, Zenon
    <3>. HIDE DEF q
    <3>. QED BY <1>7, <3>2, Zenon DEF OrdersUpTo
  <2>6. P = [M EXCEPT ![v] = q]
    OBVIOUS
  <2>. HIDE DEF v, q, P
  <2>7. ASSUME NEW m \in x.out PROVE OrderMessage(P, m)
    <3>1. /\ m.type = "PREPARE" /\ m.view = v /\ m.opnum = op
          /\ \A k \in m.batchStart .. m.opnum : RequestAt(m, k) = t.log[k].request
      BY <1>7, <1>8 DEF Prepares, v, Untouched
    <3>2. \A k \in m.batchStart .. m.opnum : k \in 1 .. Len(q)
      BY <1>9, <2>5
    <3>3. op <= Len(q)
      <4>1. op \in Nat
        BY <1>3, <2>3
      <4>. QED BY <2>5, <4>1
    <3>4. \A k \in m.batchStart .. m.opnum : RequestAt(m, k) = P[m.view][k]
      BY <2>5, <3>1, <3>2
    <3>5. m.opnum <= Len(P[m.view])
      BY <2>5, <3>1, <3>3
    <3>. QED BY <3>1, <3>4, <3>5 DEF OrderMessage
  <2>8. old.view <= v /\ x.s.view = v /\ x.s.status = "NORMAL" /\ Len(q) = Len(x.s.log)
    BY <1>2, <1>3, <1>8, <2>5 DEF v
  <2>9. /\ x.s.log \in Seq(KnownEntries(P))
        /\ \A i \in 1 .. Len(q) : q[i] = x.s.log[i].request
    BY <1>8, <2>5
  <2>10. GoesOnAs(M, P, v, q, old, x)
    BY <1>8, <2>4, <2>5, <2>6, <2>7, <2>8, <2>9, Zenon DEF GoesOnAs
  <2>11. Order(P, replica', msgs')
    BY <1>1, <1>3, <2>2, <2>4, <2>10, OrderGoesOn
  <2>. QED BY <2>11
<1>. QED BY <1>10, <1>11 DEF Kept, OrderHolds

LEMMA HandleRequestKept ==
  ASSUME Kept, NEW r \in Indices, LogInOrder',
         invoked \in [Clients -> 0 .. MaxReqId], HandleRequest(r)
  PROVE  Kept'
<1>0. PICK c \in Clients : \E id \in 1 .. invoked[c] :
        LET s       == [replica[r] EXCEPT !.clientAddresses = @ \cup {c}]
            request == [client |-> c, id |-> id]
        IN  /\ s.status = "NORMAL" /\ AmLeader(r, s)
            /\ IF id <= s.clientTable[c].id THEN HandleDuplicateRequest(r, s, request)
               ELSE AnswerRequest(r, s, request) \/ AppendRequest(r, s, request)
  BY DEF HandleRequest
<1>1. PICK id \in 1 .. invoked[c] :
        LET s       == [replica[r] EXCEPT !.clientAddresses = @ \cup {c}]
            request == [client |-> c, id |-> id]
        IN  /\ s.status = "NORMAL" /\ AmLeader(r, s)
            /\ IF id <= s.clientTable[c].id THEN HandleDuplicateRequest(r, s, request)
               ELSE AnswerRequest(r, s, request) \/ AppendRequest(r, s, request)
  BY <1>0
<1>. DEFINE old == replica[r]
            all == old.clientAddresses \cup {c}
            s == [old EXCEPT !.clientAddresses = all]
            request == [client |-> c, id |-> id]
<1>2. old \in AnyReplica /\ IsFiniteSet(old.prepareOKs)
  BY KeptParts
<1>3. request \in Request
  <2>1. invoked[c] \in 0 .. MaxReqId
    OBVIOUS
  <2>. QED BY <2>1, ViewstampedReplicationAssumption DEF Request
<1>4. Calm(r, old, Went(s, {})) /\ s \in AnyReplica
  BY <1>2 DEF Calm, Went, AnyReplica
<1>5. /\ s.status = "NORMAL" /\ AmLeader(r, s)
      /\ \/ HandleDuplicateRequest(r, s, request)
         \/ AnswerRequest(r, s, request)
         \/ AppendRequest(r, s, request)
  BY <1>1
<1>. HIDE DEF s, request
<1>6. \A n : Quiet(Reply(request, n))
  BY DEF Quiet, MessageFine, Reply
<1>7. CASE HandleDuplicateRequest(r, s, request)
  <2>. DEFINE out == IF request.id = s.clientTable[request.client].id
                        /\ s.clientTable[request.client].replied
                     THEN {Reply(request, s.clientTable[request.client].opnum)}
                     ELSE {}
  <2>1. Step(r, Went(s, out))
    BY <1>7 DEF HandleDuplicateRequest
  <2>2. \A m \in out : Quiet(m)
    BY <1>6
  <2>. HIDE DEF out
  <2>3. Calm(r, old, Went(s, out))
    BY <1>4, <2>2 DEF Calm, Went, Says
  <2>. QED BY <2>1, <2>3, CalmKept
<1>8. CASE AnswerRequest(r, s, request)
  <2>. DEFINE e == [id |-> request.id, replied |-> TRUE, opnum |-> 0]
              table == [s.clientTable EXCEPT ![request.client] = e]
              t == [s EXCEPT !.clientTable = table]
  <2>1. Step(r, Went(t, {Reply(request, 0)}))
    <3>1. [s EXCEPT !.clientTable[request.client] = e] = t
      BY <1>4 DEF AnyReplica
    <3>. QED BY <1>8, <3>1 DEF AnswerRequest
  <2>2. e \in ClientEntry
    BY <1>3, ViewstampedReplicationAssumption DEF Request, ClientEntry
  <2>. HIDE DEF e
  <2>3. table \in [Clients -> ClientEntry]
    BY <1>4, <2>2 DEF AnyReplica
  <2>. HIDE DEF table
  <2>4. /\ t \in AnyReplica /\ t.log = s.log /\ t.lastOp = s.lastOp
        /\ t.view = s.view /\ t.status = s.status
        /\ t.doViewChanges = s.doViewChanges
        /\ t.recoveryResponses = s.recoveryResponses
        /\ t.closeBatch = s.closeBatch /\ t.prepareOKs = s.prepareOKs
    BY <1>4, <2>3 DEF AnyReplica
  <2>. HIDE DEF t
  <2>5. Calm(r, old, Went(t, {Reply(request, 0)}))
    BY <1>4, <1>6, <2>4 DEF Calm, Went, Says
  <2>. QED BY <2>1, <2>5, CalmKept
<1>9. CASE AppendRequest(r, s, request)
  BY <1>3, <1>4, <1>5, <1>9, AppendRequestKept
<1>. QED BY <1>5, <1>7, <1>8, <1>9

LEMMA HandlePrepareKept ==
  ASSUME Kept, NEW r \in Indices, HandlePrepare(r) PROVE Kept'
<1>. DEFINE s == replica[r]
<1>1. PICK m \in Received("PREPARE") :
        /\ GetLeaderIndex(m.view) # r
        /\ \/ Step(r, Went(s, RequestStateTransfer(r, s)))
           \/ Step(r, Went(s, {PrepareOK(r, m.view, m.opnum)}))
           \/ /\ m.view = s.view /\ m.opnum > s.lastOp
              /\ m.batchStart <= s.lastOp + 1
              /\ Step(r, Went(Appended(s, m), {PrepareOK(r, m.view, m.opnum)}))
  BY DEF HandlePrepare
<1>. DEFINE ok == PrepareOK(r, m.view, m.opnum)
            t == Appended(s, m)
            x == Went(t, {ok})
<1>2. /\ s \in AnyReplica /\ AllFine(replica, restarts, msgs)
      /\ StateFine(r, s, msgs) /\ s.log \in Seq(UpTo(s.view))
      /\ s.lastOp <= Len(s.log) /\ s.lastOp \in Nat /\ Len(s.log) \in Nat
      /\ s.view \in Nat /\ replica \in [Indices -> AnyReplica]
  BY KeptParts
<1>3. /\ m \in msgs /\ m.type = "PREPARE" /\ m.view \in Nat /\ m.opnum \in Nat
      /\ m.batchStart \in Nat \ {0}
      /\ \A k \in m.batchStart .. m.opnum : RequestAt(m, k) \in Request
  BY KeptParts DEF Received, MessageFine
<1>4. Quiet(ok)
  BY <1>3 DEF Quiet, MessageFine, PrepareOK
<1>5. CASE Step(r, Went(s, RequestStateTransfer(r, s)))
  BY <1>2, <1>5, RequestIsQuiet, SayingKept
<1>6. CASE Step(r, Went(s, {ok}))
  BY <1>4, <1>6, SayingKept
<1>7. CASE /\ m.view = s.view /\ m.opnum > s.lastOp
           /\ m.batchStart <= s.lastOp + 1 /\ Step(r, x)
  <2>. HIDE DEF ok
  <2>1. \A k \in m.batchStart .. m.opnum :
          k \in Nat /\ Entry(m.view, k, RequestAt(m, k)) \in LogEntry
    BY <1>3 DEF Entry, LogEntry
  <2>2. \A k \in m.batchStart .. m.opnum :
          Entry(m.view, k, RequestAt(m, k)) \in UpTo(s.view)
    BY <1>7, <1>2, <2>1 DEF Entry, UpTo
  <2>3. UpTo(s.view) \subseteq LogEntry
    BY DEF UpTo
  <2>4. /\ t \in AnyReplica /\ Untouched(s, t) /\ t.log \in Seq(UpTo(s.view))
        /\ t.lastOp = m.opnum /\ t.executed = s.executed
        /\ Len(t.log) - t.lastOp = Len(s.log) - s.lastOp
    BY <1>2, <1>3, <1>7, <2>2, <2>3, AppendedTyped
  <2>5. x.s = t /\ x.out = {ok}
    BY DEF Went
  <2>. DEFINE all == msgs \cup x.out
  <2>6. StateFine(r, s, all)
    BY <1>2, StateFineMore
  <2>7. t.lastOp <= Len(t.log)
    <3>. DEFINE n == Len(t.log)
    <3>1. n \in Nat
      BY <2>4, SeqLength
    <3>. HIDE DEF n, t
    <3>2. n - m.opnum = Len(s.log) - s.lastOp /\ t.lastOp = m.opnum
      BY <2>4 DEF n
    <3>3. m.opnum <= n
      BY <1>2, <1>3, <3>1, <3>2
    <3>. QED BY <3>2, <3>3 DEF n
  <2>. HIDE DEF t, all
  <2>8. StateFine(r, x.s, all)
    BY <2>4, <2>5, <2>6, <2>7 DEF StateFine, Untouched, AmLeader, KeepsSent
  <2>9. AllFine(replica, restarts, msgs)'
    <3>1. \A n \in x.out : MessageFine(n) /\ n.type # "STATETRANSFER"
      BY <1>4, <2>5 DEF Quiet
    <3>2. Fine(r, x)
      BY <2>8, <3>1 DEF Fine, all
    <3>. HIDE DEF x
    <3>. QED BY <1>2, <1>7, <3>2, StepFine
  <2>10. ASSUME ViewsOnly' PROVE \E M : Order(M, replica', msgs')
    <3>1. ViewsOnly
      BY <1>7, <2>10, ViewsOnlyBefore DEF Step
    <3>2. PICK M : Order(M, replica, msgs)
      BY <3>1 DEF Kept, OrderHolds
    <3>3. /\ m.opnum <= Len(M[m.view])
          /\ \A k \in m.batchStart .. m.opnum : RequestAt(m, k) = M[m.view][k]
      BY <1>3, <3>2 DEF Order, OrderMessage
    <3>4. s.log \in Seq(KnownEntries(M)) /\ KnownEntries(M) \subseteq LogEntry
      BY <3>2 DEF Order, KnownEntries
    <3>5. ASSUME NEW k \in m.batchStart .. m.opnum
          PROVE  Entry(m.view, k, RequestAt(m, k)) \in KnownEntries(M)
      <4>1. k \in 1 .. Len(M[m.view])
        <5>1. M[m.view] \in Seq(Request)
          BY <1>3, <3>2 DEF Order
        <5>. DEFINE n == Len(M[m.view])
        <5>2. n \in Nat
          BY <5>1, SeqLength, Zenon
        <5>3. m.opnum <= n
          BY <3>3
        <5>. HIDE DEF n
        <5>4. k \in 1 .. n
          BY <1>3, <5>2, <5>3, Inside, Zenon
        <5>. QED BY <5>4 DEF n
      <4>2. Entry(m.view, k, RequestAt(m, k)) \in LogEntry
        BY <2>1
      <4>. QED BY <3>3, <4>1, <4>2 DEF KnownEntries, Entry
    <3>6. x.s.log \in Seq(KnownEntries(M))
      <4>1. t.log \in Seq(KnownEntries(M))
        BY <1>2, <1>3, <1>7, <3>4, <3>5, AppendedTyped DEF t
      <4>. QED BY <2>5, <4>1
    <3>7. \A n \in x.out : OrderMessage(M, n)
      BY <1>4, <2>5 DEF Quiet, OrderMessage
    <3>8. /\ x.s \in AnyReplica /\ x.s.view = s.view /\ x.s.status = s.status
          /\ ~AmLeader(r, x.s)
      BY <1>1, <1>7, <2>4, <2>5 DEF Untouched, AmLeader
    <3>. HIDE DEF x
    <3>9. Order(M, replica, msgs)'
      BY <1>2, <1>7, <3>2, <3>6, <3>7, <3>8, OrderStays
    <3>. QED BY <3>9
  <2>. QED BY <2>9, <2>10 DEF Kept, OrderHolds
<1>. QED BY <1>1, <1>5, <1>6, <1>7

-----------------------------------------------------------------------------
(* State transfer, restarts and recovery                                     *)

LEMMA FineKept ==
  ASSUME Kept, NEW r \in Indices, NEW x, Step(r, x), Fine(r, x), ~ViewsOnly
  PROVE  Kept'
<1>1. AllFine(replica, restarts, msgs)'
  BY StepFine DEF Kept
<1>2. ~ViewsOnly'
  BY ViewsOnlyBefore DEF Step
<1>. QED BY <1>1, <1>2 DEF Kept, OrderHolds

LEMMA HandleRequestStateTransferKept ==
  ASSUME Kept, NEW r \in Indices, LogInOrder, HandleRequestStateTransfer(r)
  PROVE  Kept'
<1>. DEFINE s == replica[r]
<1>1. PICK m \in Received("REQUESTSTATETRANSFER") :
        \/ Step(r, Went(s, RequestStateTransfer(r, s)))
        \/ Step(r, Went(s, {StateTransfer(s, m.opnum, m.src)}))
  BY DEF HandleRequestStateTransfer
<1>2. /\ s \in AnyReplica /\ StateFine(r, s, msgs)
      /\ s.log \in Seq(UpTo(s.view)) /\ s.view \in Nat /\ Len(s.executed) \in Nat
  BY KeptParts
<1>3. m \in msgs /\ m.opnum \in Nat /\ m.src \in Indices
      /\ Sent(msgs, "REQUESTSTATETRANSFER")
  BY KeptParts DEF Received, MessageFine, Sent
<1>4. CASE Step(r, Went(s, RequestStateTransfer(r, s)))
  BY <1>2, <1>4, RequestIsQuiet, SayingKept
<1>5. CASE Step(r, Went(s, {StateTransfer(s, m.opnum, m.src)}))
  <2>. DEFINE n == StateTransfer(s, m.opnum, m.src)
              from == m.opnum + 1
  <2>1. Dump(s.log, from) \in Seq(UpTo(s.view))
    <3>1. InOrder(s.log) /\ from \in Int /\ UpTo(s.view) \subseteq LogEntry
      BY <1>3 DEF LogInOrder, InOrder, UpTo
    <3>. HIDE DEF from
    <3>. QED BY <1>2, <3>1, DumpTyped
  <2>2. /\ n.type = "STATETRANSFER" /\ n.view = s.view
        /\ n.opnum = Len(s.executed) /\ n.to = m.src
        /\ n.entries = Dump(s.log, from)
    BY DEF StateTransfer, lastCommitted
  <2>. HIDE DEF n, from
  <2>3. MessageFine(n)
    BY <1>2, <1>3, <2>1, <2>2 DEF MessageFine
  <2>4. Fine(r, Went(s, {n}))
    BY <1>2, <1>3, <2>3, StateFineMore DEF Fine, Went
  <2>. QED BY <1>3, <1>5, <2>4, FineKept DEF n, ViewsOnly
<1>. QED BY <1>1, <1>4, <1>5

(* Whoever brings entries, up to its view.                                   *)
LEMMA HandleStateTransferKept ==
  ASSUME Kept, NEW r \in Indices, HandleStateTransfer(r) PROVE Kept'
<1>1. PICK m \in Received("STATETRANSFER") :
        LET s == replica[r]
            y == FoldLeft(Transferred, [s |-> s, old |-> s.lastOp], m.entries)
            t == IF m.view > s.view THEN EnterView(y.s, m.view) ELSE y.s
        IN  /\ m.to = r /\ m.view >= s.view
            /\ CanCommit(t.log, m.opnum)
            /\ Step(r, SendPrepareOKs(r, CommitUpTo(Went(t, {}), m.opnum), y.old))
  BY DEF HandleStateTransfer
<1>. DEFINE s == replica[r]
            y == FoldLeft(Transferred, [s |-> s, old |-> s.lastOp], m.entries)
            t == IF m.view > s.view THEN EnterView(y.s, m.view) ELSE y.s
            x == Went(t, {})
            z == CommitUpTo(x, m.opnum)
            w == SendPrepareOKs(r, z, y.old)
<1>2. /\ s \in AnyReplica /\ StateFine(r, s, msgs)
      /\ AllFine(replica, restarts, msgs)
      /\ s.log \in Seq(UpTo(s.view)) /\ s.lastOp <= Len(s.log)
      /\ s.view \in Nat
  BY KeptParts
<1>3. /\ m \in msgs /\ m.view \in Nat /\ m.opnum \in Nat
      /\ m.entries \in Seq(UpTo(m.view)) /\ m.type = "STATETRANSFER"
  BY KeptParts DEF Received, MessageFine
<1>4. ~ViewsOnly
  BY <1>2, <1>3 DEF AllFine, Sent, ViewsOnly
<1>5. m.view >= s.view /\ CanCommit(t.log, m.opnum) /\ Step(r, w)
  BY <1>1
<1>6. /\ s.log \in Seq(UpTo(m.view)) /\ UpTo(m.view) \subseteq LogEntry
  BY <1>2, <1>3, <1>5, UpToMore DEF UpTo
<1>7. TransfersOn(UpTo(m.view), s, y)
  BY <1>2, <1>3, <1>6, TransferredTyped
<1>. HIDE DEF y
<1>8. /\ t \in AnyReplica /\ t.log = y.s.log /\ t.lastOp = y.s.lastOp
      /\ t.view = m.view
      /\ \/ Untouched(s, t) /\ t.view = s.view
         \/ /\ t.status = "NORMAL" /\ t.closeBatch = FALSE /\ t.doViewChanges = {}
            /\ t.recoveryResponses = {} /\ t.prepareOKs = {}
  <2>1. CASE m.view > s.view
    <3>1. t = EnterView(y.s, m.view)
      BY <2>1
    <3>2. y.s \in AnyReplica
      BY <1>7 DEF TransfersOn
    <3>. HIDE DEF t
    <3>. QED BY <1>3, <3>1, <3>2, EnteredAs
  <2>2. CASE ~(m.view > s.view)
    <3>1. t = y.s
      BY <2>2
    <3>2. m.view = s.view
      BY <1>2, <1>3, <1>5, <2>2
    <3>. HIDE DEF t
    <3>. QED BY <1>7, <3>1, <3>2 DEF TransfersOn, Untouched
  <2>. QED BY <2>1, <2>2
<1>9. x.s = t /\ x.out = {}
  BY DEF Went
<1>. HIDE DEF t, x
<1>10. y.old \in Nat /\ t.log \in Seq(UpTo(m.view)) /\ t.lastOp <= Len(t.log)
  BY <1>7, <1>8 DEF TransfersOn
<1>11. Executes(x, z)
  <2>1. x.s \in AnyReplica /\ m.opnum <= Len(x.s.log)
    BY <1>5, <1>8, <1>9 DEF CanCommit
  <2>. QED BY <1>3, <2>1, CommitUpToTyped
<1>. HIDE DEF z
<1>12. Executes(z, w)
  <2>1. z.s \in AnyReplica /\ z.s.lastOp <= Len(z.s.log)
    BY <1>9, <1>10, <1>11 DEF Executes
  <2>. QED BY <1>10, <2>1, SendPrepareOKsTyped
<1>. HIDE DEF w
<1>13. Executes(x, w)
  BY <1>8, <1>9, <1>11, <1>12, ExecutesOn
<1>14. StateFine(r, t, msgs)
  <2>1. KeepsSent(t, msgs)
    BY <1>2, <1>8 DEF StateFine, KeepsSent, Untouched
  <2>2. IsFiniteSet(t.prepareOKs)
    BY <1>2, <1>8, FS_EmptySet DEF StateFine, Untouched
  <2>3. t.closeBatch => t.status = "NORMAL" /\ AmLeader(r, t)
    BY <1>2, <1>8 DEF StateFine, Untouched, AmLeader
  <2>4. t.status = "RECOVERING" => t.view = 0 /\ \E n \in msgs : n.type = "RECOVERY"
    BY <1>2, <1>8 DEF StateFine, Untouched
  <2>. QED BY <1>8, <1>10, <2>1, <2>2, <2>3, <2>4 DEF StateFine
<1>15. Fine(r, w)
  <2>1. StateFine(r, t, msgs \cup w.out)
    BY <1>14, StateFineMore
  <2>2. StateFine(r, w.s, msgs \cup w.out)
    BY <1>9, <1>13, <2>1 DEF StateFine, Executes, Untouched, AmLeader, KeepsSent
  <2>3. \A n \in w.out : Quiet(n)
    BY <1>9, <1>13 DEF Executes
  <2>. QED BY <2>2, <2>3 DEF Fine, Quiet
<1>. QED BY <1>4, <1>5, <1>15, FineKept

LEMMA RecoveringFine ==
  ASSUME NEW r \in Indices, NEW s, s = [InitialReplica EXCEPT !.status = "RECOVERING"],
         NEW ms, Sent(ms, "RECOVERY")
  PROVE  StateFine(r, s, ms)
<1>. DEFINE table == [c \in Clients |-> NoEntry]
<1>1. table \in [Clients -> ClientEntry]
  BY ViewstampedReplicationAssumption DEF NoEntry, ClientEntry
<1>2. s = [status |-> "RECOVERING", view |-> 0, log |-> << >>, lastOp |-> 0,
           executed |-> << >>, clientTable |-> table,
           clientAddresses |-> {}, lastBatchEnd |-> 0, batchComplete |-> TRUE,
           closeBatch |-> FALSE, prepareOKs |-> {}, startViewChanges |-> {},
           doViewChanges |-> {}, recoveryResponses |-> {}]
  BY DEF InitialReplica
<1>. HIDE DEF table
<1>3. s \in AnyReplica
  <2>1. [status |-> "RECOVERING", view |-> 0, log |-> << >>, lastOp |-> 0,
         executed |-> << >>, clientTable |-> table,
         clientAddresses |-> {}, lastBatchEnd |-> 0, batchComplete |-> TRUE,
         closeBatch |-> FALSE, prepareOKs |-> {}, startViewChanges |-> {},
         doViewChanges |-> {}, recoveryResponses |-> {}] \in AnyReplica
    BY <1>1 DEF AnyReplica
  <2>. QED BY <1>2, <2>1, Zenon
<1>4. /\ s.log \in Seq(UpTo(s.view)) /\ s.lastOp <= Len(s.log)
      /\ IsFiniteSet(s.prepareOKs) /\ s.view = 0 /\ s.closeBatch = FALSE
      /\ KeepsSent(s, ms)
  <2>1. /\ s.log = << >> /\ s.lastOp = 0 /\ s.prepareOKs = {} /\ s.view = 0
        /\ s.closeBatch = FALSE /\ s.doViewChanges = {} /\ s.recoveryResponses = {}
    BY <1>2
  <2>2. << >> \in Seq(UpTo(s.view)) /\ 0 <= Len(<< >>)
    OBVIOUS
  <2>. QED BY <2>1, <2>2, FS_EmptySet DEF KeepsSent
<1>. QED BY <1>3, <1>4 DEF StateFine, Sent

LEMMA RestartKept ==
  ASSUME Kept, NEW r \in Indices, Restart(r) PROVE Kept'
<1>. DEFINE t == [InitialReplica EXCEPT !.status = "RECOVERING"]
            new == [replica EXCEPT ![r] = t]
            now == [restarts EXCEPT ![r] = @ + 1]
            n == [type |-> "RECOVERY", src |-> r, nonce |-> <<r, now[r]>>]
            all == msgs \cup {n}
<1>1. replica' = new /\ restarts' = now /\ msgs' = all
  <2>1. restarts' = now
    BY DEF Restart
  <2>2. Nonce(r)' = <<r, now[r]>>
    BY <2>1 DEF Nonce
  <2>. HIDE DEF now
  <2>. QED BY <2>1, <2>2 DEF Restart
<1>2. /\ replica \in [Indices -> AnyReplica] /\ restarts \in [Indices -> Nat]
      /\ AllFine(replica, restarts, msgs)
  BY DEF Kept, AllFine
<1>3. now \in [Indices -> Nat] /\ now[r] \in Nat
  BY <1>2
<1>. HIDE DEF now
<1>4. n.type = "RECOVERY" /\ MessageFine(n)
  BY <1>3 DEF MessageFine
<1>. HIDE DEF n
<1>5. Sent(all, "RECOVERY") /\ \A m \in all : MessageFine(m)
  BY <1>2, <1>4 DEF Sent, AllFine
<1>6. StateFine(r, t, all)
  BY <1>5, RecoveringFine
<1>7. t \in AnyReplica
  BY <1>6 DEF StateFine
<1>. HIDE DEF t
<1>8. ASSUME NEW p \in Indices PROVE StateFine(p, new[p], all)
  <2>1. CASE p = r
    BY <1>2, <1>6, <2>1
  <2>2. CASE p # r
    <3>1. new[p] = replica[p] /\ StateFine(p, replica[p], msgs)
      BY <1>2, <2>2 DEF AllFine
    <3>. QED BY <3>1, StateFineMore
  <2>. QED BY <2>1, <2>2
<1>9. new \in [Indices -> AnyReplica]
  BY <1>2, <1>7
<1>10. Sent(all, "STATETRANSFER") => Sent(all, "REQUESTSTATETRANSFER")
  BY <1>2, <1>4 DEF AllFine, Sent
<1>. HIDE DEF new, all
<1>11. AllFine(new, now, all)
  BY <1>3, <1>5, <1>8, <1>9, <1>10 DEF AllFine
<1>12. ~ViewsOnly'
  BY <1>1, <1>5 DEF ViewsOnly
<1>. QED BY <1>1, <1>11, <1>12 DEF Kept, OrderHolds

LEMMA HandleRecoveryKept ==
  ASSUME Kept, NEW r \in Indices, LogInOrder, HandleRecovery(r) PROVE Kept'
<1>. DEFINE s == replica[r]
<1>1. PICK m \in Received("RECOVERY") : Step(r, Went(s, {RecoveryResponse(r, s, m)}))
  BY DEF HandleRecovery
<1>. DEFINE n == RecoveryResponse(r, s, m)
            leads == AmLeader(r, s)
            d == Dump(s.log, 0)
<1>2. /\ s \in AnyReplica /\ StateFine(r, s, msgs)
      /\ s.log \in Seq(UpTo(s.view)) /\ s.view \in Nat /\ Len(s.executed) \in Nat
      /\ s.lastOp \in Nat /\ s.lastOp <= Len(s.log) /\ Len(s.log) \in Nat
  BY KeptParts
<1>3. m \in msgs /\ m.src \in Indices /\ m.nonce \in Indices \X Nat /\ ~ViewsOnly
  BY KeptParts DEF Received, MessageFine, Sent, ViewsOnly
<1>4. /\ d \in Seq(UpTo(s.view))
      /\ d = << >> => s.lastOp = 0
      /\ d # << >> => d[Len(d)].opnum = Len(s.log)
  <2>1. InOrder(s.log) /\ UpTo(s.view) \subseteq LogEntry /\ 0 \in Int
    BY DEF LogInOrder, InOrder, UpTo
  <2>2. /\ d \in Seq(UpTo(s.view))
        /\ d = << >> => Len(s.log) = 0 \/ 0 > Len(s.log)
        /\ d # << >> => d[Len(d)].opnum = Len(s.log)
    BY <1>2, <2>1, DumpTyped
  <2>. HIDE DEF d
  <2>. QED BY <1>2, <2>2
<1>5. /\ n.type = "RECOVERYRESPONSE" /\ n.view = s.view /\ n.src = r /\ n.to = m.src
      /\ n.nonce = m.nonce /\ n.lastOp = (IF leads THEN s.lastOp ELSE 0)
      /\ n.lastCommitted = (IF leads THEN Len(s.executed) ELSE 0)
      /\ n.entries = (IF leads THEN d ELSE << >>)
      /\ n = [type |-> "RECOVERYRESPONSE", view |-> n.view, src |-> n.src,
              to |-> n.to, nonce |-> n.nonce, lastOp |-> n.lastOp,
              lastCommitted |-> n.lastCommitted, entries |-> n.entries]
  BY DEF RecoveryResponse, lastCommitted
<1>. HIDE DEF n, d, leads
<1>6. /\ n.lastOp \in Nat /\ n.lastCommitted \in Nat
      /\ n.entries \in Seq(UpTo(s.view)) /\ n.entries \in Seq(LogEntry)
  <2>1. n.entries \in Seq(UpTo(s.view))
    <3>1. << >> \in Seq(UpTo(s.view))
      OBVIOUS
    <3>. QED BY <1>4, <1>5, <3>1, Zenon
  <2>2. n.entries \in Seq(LogEntry)
    BY <1>2, <2>1, UpToMore
  <2>. QED BY <1>2, <1>5, <2>1, <2>2
<1>7. IF n.entries = << >> THEN n.lastOp <= n.lastCommitted
      ELSE n.lastOp <= n.entries[Len(n.entries)].opnum
  <2>1. CASE leads /\ d = << >>
    BY <1>2, <1>4, <1>5, <2>1
  <2>2. CASE leads /\ d # << >>
    BY <1>2, <1>4, <1>5, <2>2
  <2>3. CASE ~leads
    BY <1>5, <2>3
  <2>. QED BY <2>1, <2>2, <2>3
<1>8. n \in Response
  BY <1>2, <1>3, <1>5, <1>6 DEF Response
<1>9. MessageFine(n)
  BY <1>2, <1>5, <1>6, <1>7, <1>8 DEF MessageFine, Brings
<1>10. Fine(r, Went(s, {n}))
  BY <1>2, <1>5, <1>9, StateFineMore DEF Fine, Went
<1>. QED BY <1>1, <1>3, <1>10, FineKept DEF n

LEMMA HandleRecoveryResponseKept ==
  ASSUME Kept, NEW r \in Indices, LogInOrder', HandleRecoveryResponse(r) PROVE Kept'
<1>1. PICK m \in Received("RECOVERYRESPONSE") :
        LET s == [replica[r] EXCEPT !.recoveryResponses = With(@, m)]
            leader == FromLeader(s.recoveryResponses)
        IN  /\ s.status = "RECOVERING"
            /\ \/ Step(r, Went(s, {}))
               \/ \E d \in leader :
                    LET entered == [EnterView(s, d.view) EXCEPT
                                      !.log = Install(s.log, d.entries),
                                      !.lastOp = d.lastOp]
                    IN  /\ CanCommit(entered.log, d.lastCommitted)
                        /\ Step(r, CommitUpTo(Went(entered, {}), d.lastCommitted))
  BY DEF HandleRecoveryResponse
<1>. DEFINE old == replica[r]
            kept == With(old.recoveryResponses, m)
            s == [old EXCEPT !.recoveryResponses = kept]
<1>2. /\ old \in AnyReplica /\ StateFine(r, old, msgs)
      /\ AllFine(replica, restarts, msgs) /\ replica \in [Indices -> AnyReplica]
      /\ old.log \in Seq(UpTo(old.view)) /\ old.view \in Nat
  BY KeptParts
<1>3. /\ m \in msgs /\ m.type = "RECOVERYRESPONSE" /\ m \in Response
  BY KeptParts DEF Received, MessageFine
<1>4. /\ kept \in SUBSET Response
      /\ \A d \in kept : d \in msgs /\ d.type = "RECOVERYRESPONSE"
  <2>1. old.recoveryResponses \in SUBSET Response
    BY <1>2 DEF AnyReplica
  <2>2. \A d \in old.recoveryResponses : d \in msgs /\ d.type = "RECOVERYRESPONSE"
    BY <1>2 DEF StateFine, KeepsSent
  <2>. QED BY <1>3, <2>1, <2>2 DEF With
<1>. HIDE DEF kept
<1>5. /\ s \in AnyReplica /\ s.log = old.log /\ s.lastOp = old.lastOp
      /\ s.view = old.view /\ s.status = old.status
      /\ s.closeBatch = old.closeBatch /\ s.prepareOKs = old.prepareOKs
      /\ s.doViewChanges = old.doViewChanges /\ s.recoveryResponses = kept
  BY <1>2, <1>4 DEF AnyReplica
<1>6. /\ s.status = "RECOVERING"
      /\ \/ Step(r, Went(s, {}))
         \/ \E d \in FromLeader(s.recoveryResponses) :
              LET entered == [EnterView(s, d.view) EXCEPT
                                !.log = Install(s.log, d.entries),
                                !.lastOp = d.lastOp]
              IN  /\ CanCommit(entered.log, d.lastCommitted)
                  /\ Step(r, CommitUpTo(Went(entered, {}), d.lastCommitted))
  BY <1>1 DEF kept
<1>. HIDE DEF s
<1>7. s.view = 0 /\ ~ViewsOnly
  BY <1>2, <1>5, <1>6 DEF StateFine, ViewsOnly, Sent
<1>8. CASE Step(r, Went(s, {}))
  <2>. DEFINE x == Went(s, {})
  <2>1. x.s = s /\ x.out = {} /\ msgs \cup x.out = msgs
    BY DEF Went
  <2>2. StateFine(r, s, msgs)
    BY <1>2, <1>4, <1>5 DEF StateFine, KeepsSent, AmLeader
  <2>. HIDE DEF x
  <2>3. Fine(r, x)
    BY <2>1, <2>2 DEF Fine
  <2>. QED BY <1>7, <1>8, <2>3, FineKept DEF x
<1>9. ASSUME NEW d \in FromLeader(s.recoveryResponses),
             LET entered == [EnterView(s, d.view) EXCEPT
                               !.log = Install(s.log, d.entries), !.lastOp = d.lastOp]
             IN  /\ CanCommit(entered.log, d.lastCommitted)
                 /\ Step(r, CommitUpTo(Went(entered, {}), d.lastCommitted))
      PROVE  Kept'
  <2>. DEFINE log == Install(s.log, d.entries)
              t == [EnterView(s, d.view) EXCEPT !.log = log, !.lastOp = d.lastOp]
              x == Went(t, {})
              w == CommitUpTo(x, d.lastCommitted)
  <2>1. d \in msgs /\ d.type = "RECOVERYRESPONSE"
    BY <1>4, <1>5 DEF FromLeader
  <2>2. /\ Brings(d) /\ d.view \in Nat /\ d.lastOp \in Nat /\ d.lastCommitted \in Nat
        /\ d.entries \in Seq(UpTo(d.view))
        /\ IF d.entries = << >> THEN d.lastOp <= d.lastCommitted
           ELSE d.lastOp <= d.entries[Len(d.entries)].opnum
    BY <1>2, <2>1 DEF AllFine, MessageFine, Brings
  <2>3. s.log \in Seq(UpTo(d.view)) /\ UpTo(d.view) \subseteq LogEntry
    BY <1>2, <1>5, <1>7, <2>2, UpToMore DEF UpTo
  <2>4. /\ log \in Seq(UpTo(d.view))
        /\ d.entries # << >> /\ InOrder(log) =>
             d.entries[Len(d.entries)].opnum <= Len(log)
    BY <2>2, <2>3, InstallTyped
  <2>. HIDE DEF log
  <2>5. log \in Seq(LogEntry) /\ Len(log) \in Nat
    BY <2>2, <2>4, UpToMore, SeqLength
  <2>6. /\ t \in AnyReplica /\ t.log = log /\ t.lastOp = d.lastOp
        /\ t.view = d.view /\ t.status = "NORMAL" /\ t.executed = s.executed
        /\ t.closeBatch = FALSE /\ t.doViewChanges = {}
        /\ t.recoveryResponses = {} /\ t.prepareOKs = {}
    <3>1. Enters(s, d.view, log, d.lastOp, t)
      BY <1>5, <2>2, <2>5, EnterViewTyped, Zenon
    <3>. HIDE DEF t
    <3>. QED BY <3>1 DEF Enters
  <2>7. d.lastCommitted <= Len(log) /\ Step(r, w)
    BY <1>9, <2>6 DEF CanCommit, log
  <2>. HIDE DEF t
  <2>8. x.s = t /\ x.out = {}
    BY DEF Went
  <2>. HIDE DEF x
  <2>9. Executes(x, w)
    BY <2>2, <2>6, <2>7, <2>8, CommitUpToTyped
  <2>. HIDE DEF w
  <2>10. /\ w.s \in AnyReplica /\ w.s.log = log /\ w.s.lastOp = d.lastOp
         /\ w.s.view = d.view /\ w.s.status = "NORMAL" /\ w.s.closeBatch = FALSE
         /\ w.s.doViewChanges = {} /\ w.s.recoveryResponses = {}
         /\ w.s.prepareOKs = {} /\ \A n \in w.out : Quiet(n)
    BY <2>6, <2>8, <2>9 DEF Executes, Untouched
  <2>11. InOrder(log)
    <3>1. replica'[r] = w.s
      BY <1>2, <2>7 DEF Step
    <3>. QED BY <2>10, <3>1 DEF LogInOrder, InOrder
  <2>12. d.lastOp <= Len(log)
    <3>1. CASE d.entries = << >>
      BY <2>2, <2>5, <2>7, <3>1
    <3>2. CASE d.entries # << >>
      <4>1. Len(d.entries) \in 1 .. Len(d.entries)
        BY <2>2, <3>2
      <4>2. d.entries[Len(d.entries)] \in LogEntry
        BY <2>2, <2>3, <4>1, ElementOfSeq
      <4>3. d.entries[Len(d.entries)].opnum \in Nat
        BY <4>2 DEF LogEntry
      <4>. QED BY <2>2, <2>4, <2>5, <2>11, <3>2, <4>3
    <3>. QED BY <3>1, <3>2
  <2>13. StateFine(r, w.s, msgs \cup w.out)
    BY <2>4, <2>10, <2>12, FS_EmptySet DEF StateFine, KeepsSent
  <2>14. Fine(r, w)
    BY <2>10, <2>13 DEF Fine, Quiet
  <2>. QED BY <1>7, <2>7, <2>14, FineKept
<1>. QED BY <1>6, <1>8, <1>9

-----------------------------------------------------------------------------
(* View changes                                                              *)

(* What is said during a view change: entries come from the log.             *)
Tells(s, m) ==
  Quiet(m) \/ /\ MessageFine(m) /\ m.type = "DOVIEWCHANGE"
              /\ \A X : X \subseteq LogEntry /\ s.log \in Seq(X) =>
                          m.entries \in Seq(X)

InChange(s, view, ms, x) ==
  /\ x.s \in AnyReplica /\ x.s.log = s.log /\ x.s.lastOp = s.lastOp
  /\ x.s.view = view /\ x.s.status = "VIEW_CHANGE"
  /\ x.s.executed = s.executed /\ x.s.prepareOKs = s.prepareOKs
  /\ x.s.closeBatch = FALSE /\ KeepsSent(x.s, ms)
  /\ \A m \in x.out : Tells(s, m)

LEMMA JoinedTyped ==
  ASSUME NEW r \in Indices, NEW s, NEW view \in Nat, NEW ms, StateFine(r, s, ms),
         Joins(s, view)
  PROVE  InChange(s, view, ms, Joined(r, s, view))
<1>1. s \in AnyReplica /\ s.view \in Nat /\ KeepsSent(s, ms)
  BY DEF StateFine, AnyReplica
<1>2. CASE view > s.view
  <2>. DEFINE x == StartViewChange(r, s, view)
  <2>1. Joined(r, s, view) = x
    BY <1>2 DEF Joined
  <2>2. /\ x.s \in AnyReplica /\ x.s.log = s.log /\ x.s.lastOp = s.lastOp
        /\ x.s.view = view /\ x.s.status = "VIEW_CHANGE"
        /\ x.s.executed = s.executed /\ x.s.prepareOKs = s.prepareOKs
        /\ x.s.closeBatch = FALSE /\ x.s.doViewChanges = {}
        /\ x.s.recoveryResponses = s.recoveryResponses
        /\ \A m \in x.out : Quiet(m)
    BY <1>1, StartViewChangeTyped
  <2>. HIDE DEF x
  <2>3. KeepsSent(x.s, ms)
    BY <1>1, <2>2 DEF KeepsSent
  <2>4. InChange(s, view, ms, x)
    BY <2>2, <2>3 DEF InChange, Tells
  <2>. QED BY <2>1, <2>4
<1>3. CASE ~(view > s.view)
  <2>. DEFINE x == Went(s, {})
  <2>1. Joined(r, s, view) = x /\ view = s.view /\ s.status = "VIEW_CHANGE"
    BY <1>3 DEF Joined, Joins
  <2>2. x.s = s /\ x.out = {}
    BY DEF Went
  <2>3. s.closeBatch = FALSE
    <3>1. s.closeBatch \in BOOLEAN /\ (s.closeBatch => s.status = "NORMAL")
      BY <1>1 DEF StateFine, AnyReplica
    <3>. QED BY <2>1, <3>1
  <2>. HIDE DEF x
  <2>4. InChange(s, view, ms, x)
    BY <1>1, <2>1, <2>2, <2>3 DEF InChange
  <2>. QED BY <2>1, <2>4
<1>. QED BY <1>2, <1>3

LEMMA InChangeKept ==
  ASSUME Kept, NEW r \in Indices, NEW x, Step(r, x), NEW view \in Nat,
         Joins(replica[r], view), InChange(replica[r], view, msgs, x)
  PROVE  Kept'
<1>. DEFINE s == replica[r]
            all == msgs \cup x.out
<1>1. /\ AllFine(replica, restarts, msgs) /\ s \in AnyReplica
      /\ replica \in [Indices -> AnyReplica] /\ StateFine(r, s, msgs)
      /\ s.log \in Seq(UpTo(s.view)) /\ s.lastOp <= Len(s.log) /\ s.view \in Nat
      /\ IsFiniteSet(s.prepareOKs)
  BY KeptParts
<1>2. s.log \in Seq(UpTo(view))
  <2>1. s.view <= view
    BY <1>1 DEF Joins
  <2>. QED BY <1>1, <2>1, UpToMore
<1>3. \A m \in x.out : MessageFine(m) /\ m.type # "STATETRANSFER"
  BY DEF InChange, Tells, Quiet
<1>4. StateFine(r, x.s, all)
  <2>1. KeepsSent(x.s, all)
    BY DEF InChange, KeepsSent
  <2>. HIDE DEF all
  <2>. QED BY <1>1, <1>2, <2>1 DEF InChange, StateFine
<1>5. AllFine(replica, restarts, msgs)'
  BY <1>1, <1>3, <1>4, StepFine DEF Fine
<1>6. ASSUME ViewsOnly' PROVE \E M : Order(M, replica', msgs')
  <2>1. ViewsOnly
    BY <1>6, ViewsOnlyBefore DEF Step
  <2>2. PICK M : Order(M, replica, msgs)
    BY <2>1 DEF Kept, OrderHolds
  <2>3. KnownEntries(M) \subseteq LogEntry /\ s.log \in Seq(KnownEntries(M))
    BY <2>2 DEF Order, KnownEntries
  <2>4. \A m \in x.out : OrderMessage(M, m)
    BY <2>3 DEF InChange, Tells, Quiet, OrderMessage
  <2>5. /\ x.s \in AnyReplica /\ x.s.log = s.log /\ x.s.view = view
        /\ x.s.status = "VIEW_CHANGE"
    BY DEF InChange
  <2>6. Order(M, replica, msgs)'
    BY <1>1, <2>2, <2>3, <2>4, <2>5, OrderStays
  <2>. QED BY <2>6
<1>. QED BY <1>5, <1>6 DEF Kept, OrderHolds

LEMMA ViewChangeTimeoutKept ==
  ASSUME Kept, NEW r \in Indices, ViewChangeTimeout(r) PROVE Kept'
<1>. DEFINE s == replica[r]
            view == s.view + 1
<1>1. Step(r, StartViewChange(r, s, s.view + 1))
  BY DEF ViewChangeTimeout
<1>2. StateFine(r, s, msgs) /\ s.view \in Nat
  BY KeptParts
<1>3. view \in Nat /\ view > s.view
  BY <1>2
<1>4. Step(r, StartViewChange(r, s, view))
  BY <1>1
<1>. HIDE DEF view
<1>5. Joins(s, view) /\ Joined(r, s, view) = StartViewChange(r, s, view)
  BY <1>3 DEF Joins, Joined
<1>6. InChange(s, view, msgs, StartViewChange(r, s, view))
  BY <1>2, <1>3, <1>5, JoinedTyped
<1>. QED BY <1>3, <1>4, <1>5, <1>6, InChangeKept

(* A DOVIEWCHANGE brings the log from what all have committed on.             *)
LEMMA DoViewChangeTold ==
  ASSUME NEW r \in Indices, NEW s \in AnyReplica, s.log \in Seq(UpTo(s.view)),
         InOrder(s.log), s.lastOp <= Len(s.log),
         NEW from \in Nat, from <= Len(s.executed)
  PROVE  Tells(s, DoViewChange(r, s, from))
<1>. DEFINE n == DoViewChange(r, s, from)
            d == Dump(s.log, from)
<1>1. /\ s.view \in Nat /\ s.log \in Seq(LogEntry) /\ Len(s.log) \in Nat
      /\ Len(s.executed) \in Nat /\ s.lastOp \in Nat
  <2>1. /\ s.view \in Nat /\ s.log \in Seq(LogEntry)
        /\ s.executed \in Seq(Request) /\ s.lastOp \in Nat
    BY DEF AnyReplica
  <2>. QED BY <2>1, SeqLength
<1>2. ASSUME NEW X, X \subseteq LogEntry, s.log \in Seq(X)
      PROVE  /\ d \in Seq(X)
             /\ d = << >> => Len(s.log) = 0 \/ from > Len(s.log)
             /\ d # << >> => d[Len(d)].opnum = Len(s.log)
  <2>1. from \in Int
    OBVIOUS
  <2>. QED BY <1>2, <2>1, DumpTyped
<1>3. UpTo(s.view) \subseteq LogEntry
  BY DEF UpTo
<1>4. LastViewstamp(s.log).view \in Nat
  BY <1>1, LastInOrder
<1>5. /\ n.type = "DOVIEWCHANGE" /\ n.view = s.view /\ n.src = r
      /\ n.lastNormalView = LastViewstamp(s.log).view /\ n.lastOp = s.lastOp
      /\ n.lastCommitted = Len(s.executed) /\ n.entries = d
      /\ n = [type |-> "DOVIEWCHANGE", view |-> n.view, src |-> n.src,
              lastNormalView |-> n.lastNormalView, lastOp |-> n.lastOp,
              lastCommitted |-> n.lastCommitted, entries |-> n.entries]
  BY DEF DoViewChange, lastCommitted
<1>. HIDE DEF n, d
<1>6. /\ d \in Seq(UpTo(s.view))
      /\ d = << >> => Len(s.log) = 0 \/ from > Len(s.log)
      /\ d # << >> => d[Len(d)].opnum = Len(s.log)
  BY <1>2, <1>3
<1>7. d \in Seq(LogEntry)
  BY <1>1, <1>6, UpToMore
<1>8. n \in DoViewChangeMessage
  BY <1>1, <1>4, <1>5, <1>7 DEF DoViewChangeMessage
<1>9. IF n.entries = << >> THEN n.lastOp <= n.lastCommitted
      ELSE n.lastOp <= n.entries[Len(n.entries)].opnum
  <2>1. CASE d = << >>
    BY <1>1, <1>5, <1>6, <2>1
  <2>2. CASE d # << >>
    BY <1>1, <1>5, <1>6, <2>2
  <2>. QED BY <2>1, <2>2
<1>10. Brings(n)
  BY <1>1, <1>5, <1>6, <1>9 DEF Brings
<1>11. MessageFine(n)
  BY <1>5, <1>8, <1>10 DEF MessageFine
<1>12. Tells(s, n)
  BY <1>2, <1>5, <1>11 DEF Tells
<1>. QED BY <1>12 DEF n

LEMMA HandleStartViewChangeKept ==
  ASSUME Kept, NEW r \in Indices, LogInOrder, HandleStartViewChange(r) PROVE Kept'
<1>1. PICK m \in Received("STARTVIEWCHANGE") :
        LET x      == Joined(r, replica[r], m.view)
            s      == [x.s EXCEPT !.startViewChanges = With(@, m)]
            lowest == Min({q.lastCommitted : q \in s.startViewChanges}
                            \cup {lastCommitted(s)})
        IN  /\ Joins(replica[r], m.view)
            /\ Step(r, IF /\ Cardinality(s.startViewChanges) >= QuorumSize - 1
                          /\ GetLeaderIndex(m.view) # r
                       THEN Went(s, x.out \cup {DoViewChange(r, s, lowest)})
                       ELSE Went(s, x.out))
  BY DEF HandleStartViewChange
<1>. DEFINE old == replica[r]
            x == Joined(r, old, m.view)
            kept == With(x.s.startViewChanges, m)
            s == [x.s EXCEPT !.startViewChanges = kept]
            all == {q.lastCommitted : q \in s.startViewChanges} \cup {lastCommitted(s)}
            n == DoViewChange(r, s, Min(all))
<1>2. /\ old \in AnyReplica /\ StateFine(r, old, msgs)
      /\ old.log \in Seq(UpTo(old.view)) /\ old.lastOp <= Len(old.log)
      /\ old.view \in Nat
  BY KeptParts
<1>3. m \in StartViewChangeMessage /\ m.view \in Nat /\ Joins(old, m.view)
  <2>1. m \in StartViewChangeMessage
    BY KeptParts DEF Received, MessageFine
  <2>. QED BY <1>1, <2>1 DEF StartViewChangeMessage
<1>4. InChange(old, m.view, msgs, x)
  BY <1>2, <1>3, JoinedTyped
<1>5. Step(r, Went(s, x.out \cup {n})) \/ Step(r, Went(s, x.out))
  BY <1>1
<1>. HIDE DEF x
<1>6. kept \in SUBSET StartViewChangeMessage
  BY <1>3, <1>4 DEF With, InChange, AnyReplica
<1>. HIDE DEF kept
<1>7. /\ s \in AnyReplica /\ s.log = old.log /\ s.lastOp = old.lastOp
      /\ s.view = m.view /\ s.status = "VIEW_CHANGE" /\ s.executed = old.executed
      /\ s.prepareOKs = old.prepareOKs /\ s.closeBatch = FALSE
      /\ s.doViewChanges = x.s.doViewChanges
      /\ s.recoveryResponses = x.s.recoveryResponses
      /\ s.startViewChanges = kept
  BY <1>4, <1>6 DEF InChange, AnyReplica
<1>. HIDE DEF s
<1>8. KeepsSent(s, msgs)
  BY <1>4, <1>7 DEF InChange, KeepsSent
<1>9. InChange(old, m.view, msgs, Went(s, x.out))
  BY <1>4, <1>7, <1>8 DEF InChange, Went
<1>10. CASE Step(r, Went(s, x.out))
  BY <1>3, <1>9, <1>10, InChangeKept
<1>11. CASE Step(r, Went(s, x.out \cup {n}))
  <2>1. Min(all) \in Nat /\ Min(all) <= Len(s.executed)
    <3>1. Len(s.executed) \in Nat
      BY <1>7, SeqLength DEF AnyReplica
    <3>2. all \subseteq Nat /\ Len(s.executed) \in all
      BY <1>6, <1>7, <3>1 DEF StartViewChangeMessage, lastCommitted
    <3>. HIDE DEF all
    <3>. QED BY <3>2, MinOfNaturals
  <2>. HIDE DEF all
  <2>2. InOrder(s.log) /\ s.log \in Seq(UpTo(s.view))
    <3>1. old.view <= m.view
      BY <1>2, <1>3 DEF Joins
    <3>2. old.log \in Seq(UpTo(m.view))
      BY <1>2, <1>3, <3>1, UpToMore
    <3>. QED BY <1>7, <3>2 DEF LogInOrder, InOrder
  <2>3. Tells(s, n)
    BY <1>2, <1>7, <2>1, <2>2, DoViewChangeTold
  <2>4. Tells(old, n)
    BY <1>7, <2>3 DEF Tells
  <2>. HIDE DEF n
  <2>5. InChange(old, m.view, msgs, Went(s, x.out \cup {n}))
    BY <1>9, <2>4 DEF InChange, Went
  <2>. QED BY <1>3, <1>11, <2>5, InChangeKept
<1>. QED BY <1>5, <1>10, <1>11

(* A STARTVIEW brings the log from what the view's members have committed on. *)
LEMMA StartViewTold ==
  ASSUME NEW s \in AnyReplica, s.log \in Seq(UpTo(s.view)),
         InOrder(s.log), s.lastOp <= Len(s.log),
         NEW from \in Nat, from <= Len(s.executed)
  PROVE  /\ MessageFine(StartView(s, from)) /\ StartView(s, from).type = "STARTVIEW"
         /\ \A X : X \subseteq LogEntry /\ s.log \in Seq(X) =>
                     StartView(s, from).entries \in Seq(X)
<1>. DEFINE n == StartView(s, from)
            d == Dump(s.log, from)
<1>1. /\ s.view \in Nat /\ Len(s.log) \in Nat
      /\ Len(s.executed) \in Nat /\ s.lastOp \in Nat
  <2>1. /\ s.view \in Nat /\ s.log \in Seq(LogEntry)
        /\ s.executed \in Seq(Request) /\ s.lastOp \in Nat
    BY DEF AnyReplica
  <2>. QED BY <2>1, SeqLength
<1>2. ASSUME NEW X, X \subseteq LogEntry, s.log \in Seq(X)
      PROVE  /\ d \in Seq(X)
             /\ d = << >> => Len(s.log) = 0 \/ from > Len(s.log)
             /\ d # << >> => d[Len(d)].opnum = Len(s.log)
  <2>1. from \in Int
    OBVIOUS
  <2>. QED BY <1>2, <2>1, DumpTyped
<1>3. UpTo(s.view) \subseteq LogEntry
  BY DEF UpTo
<1>4. /\ n.type = "STARTVIEW" /\ n.view = s.view /\ n.lastOp = s.lastOp
      /\ n.lastCommitted = Len(s.executed) /\ n.entries = d
  BY DEF StartView, lastCommitted
<1>. HIDE DEF n, d
<1>5. /\ d \in Seq(UpTo(s.view))
      /\ d = << >> => Len(s.log) = 0 \/ from > Len(s.log)
      /\ d # << >> => d[Len(d)].opnum = Len(s.log)
  BY <1>2, <1>3
<1>6. IF n.entries = << >> THEN n.lastOp <= n.lastCommitted
      ELSE n.lastOp <= n.entries[Len(n.entries)].opnum
  <2>1. CASE d = << >>
    BY <1>1, <1>4, <1>5, <2>1
  <2>2. CASE d # << >>
    BY <1>1, <1>4, <1>5, <2>2
  <2>. QED BY <2>1, <2>2
<1>7. MessageFine(n)
  BY <1>1, <1>4, <1>5, <1>6 DEF MessageFine, Brings
<1>8. /\ MessageFine(n) /\ n.type = "STARTVIEW"
      /\ \A X : X \subseteq LogEntry /\ s.log \in Seq(X) => n.entries \in Seq(X)
  BY <1>2, <1>4, <1>7
<1>. QED BY <1>8 DEF n

(* The log a message brings reaches up to its lastOp.                        *)
LEMMA ReachesLastOp ==
  ASSUME NEW log \in Seq(LogEntry), InOrder(log), NEW m, Brings(m),
         InOrder(Replaced(log, m)), m.lastCommitted <= Len(Replaced(log, m))
  PROVE  m.lastOp <= Len(Replaced(log, m))
<1>. DEFINE new == Replaced(log, m)
            end == m.entries[Len(m.entries)].opnum
<1>1. /\ m.view \in Nat /\ m.lastOp \in Nat /\ m.lastCommitted \in Nat
      /\ m.entries \in Seq(LogEntry)
      /\ IF m.entries = << >> THEN m.lastOp <= m.lastCommitted ELSE m.lastOp <= end
  BY UpToMore DEF Brings
<1>2. /\ new \in Seq(LogEntry)
      /\ m.entries # << >> /\ InOrder(new) => end <= Len(new)
  BY <1>1, ReplacedTyped
<1>. HIDE DEF new
<1>3. Len(new) \in Nat
  BY <1>2, SeqLength
<1>4. m.entries # << >> => end \in Nat
  <2>. SUFFICES ASSUME m.entries # << >> PROVE end \in Nat
    OBVIOUS
  <2>1. Len(m.entries) \in 1 .. Len(m.entries)
    BY <1>1
  <2>2. m.entries[Len(m.entries)] \in LogEntry
    BY <1>1, <2>1, ElementOfSeq
  <2>. QED BY <2>2 DEF LogEntry
<1>. HIDE DEF end
<1>5. InOrder(new) /\ m.lastCommitted <= Len(new)
  BY DEF new
<1>6. m.lastOp <= Len(new)
  BY <1>1, <1>2, <1>3, <1>4, <1>5
<1>. QED BY <1>6 DEF new

(* What all have committed of those a leader has heard from.                 *)
LEMMA LowestTyped ==
  ASSUME NEW s \in AnyReplica, NEW low \in LowestCommitted(s)
  PROVE  low \in Nat /\ low <= Len(s.executed)
<1>. DEFINE n == Len(s.executed)
            ds == {d.lastCommitted : d \in s.doViewChanges} \cup {lastCommitted(s)}
            qs == {q.lastCommitted : q \in s.startViewChanges} \cup {Min(ds)}
<1>1. /\ n \in Nat /\ s.doViewChanges \subseteq DoViewChangeMessage
      /\ s.startViewChanges \subseteq StartViewChangeMessage
  BY SeqLength DEF AnyReplica
<1>2. ds \subseteq Nat /\ n \in ds
  BY <1>1 DEF DoViewChangeMessage, lastCommitted
<1>3. low \in (IF s.startViewChanges = {} THEN 0 .. Min(ds) ELSE {Min(qs)})
  BY DEF LowestCommitted
<1>. DEFINE a == Min(ds)
            b == Min(qs)
<1>4. a \in Nat /\ a <= n
  <2>. HIDE DEF ds
  <2>. QED BY <1>2, MinOfNaturals
<1>5. qs \subseteq Nat /\ a \in qs
  <2>1. Min(ds) \in Nat
    BY <1>4 DEF a
  <2>. HIDE DEF ds
  <2>. QED BY <1>1, <2>1 DEF StartViewChangeMessage
<1>6. b \in Nat /\ b <= a
  <2>. HIDE DEF qs, a
  <2>. QED BY <1>5, MinOfNaturals
<1>7. low \in 0 .. a \/ low = b
  <2>. HIDE DEF qs
  <2>. QED BY <1>3
<1>. HIDE DEF a, b, n
<1>8. low \in Nat /\ low <= n
  BY <1>1, <1>4, <1>6, <1>7
<1>. QED BY <1>8 DEF n

(* The log of a new leader is of those it has heard from.                    *)
NewLog(s, ms, log, op, committed) ==
  /\ \A X : /\ X \subseteq LogEntry /\ s.log \in Seq(X)
            /\ \A m \in ms : m.type = "DOVIEWCHANGE" /\ m.view = s.view =>
                               m.entries \in Seq(X)
            => log \in Seq(X)
  /\ op \in Nat /\ committed \in Nat
  /\ committed <= Len(log) \/ committed <= Len(s.executed)
  /\ InOrder(log) => op <= Len(log)

LEMMA NewLogIs ==
  ASSUME NEW s \in AnyReplica, InOrder(s.log), NEW ms, KeepsSent(s, ms),
         \A m \in ms : MessageFine(m),
         \A d \in LatestMessages(s) : CanCommit(Replaced(s.log, d), d.lastCommitted)
  PROVE  LET latest    == LatestMessages(s)
             d         == CHOOSE e \in latest : TRUE
             log       == IF latest = {} THEN s.log ELSE Replaced(s.log, d)
             op        == IF latest = {} THEN LastViewstamp(s.log).opnum ELSE d.lastOp
             committed == IF latest = {} THEN lastCommitted(s) ELSE d.lastCommitted
         IN  NewLog(s, ms, log, op, committed)
<1>. DEFINE latest    == LatestMessages(s)
            d         == CHOOSE e \in latest : TRUE
            log       == IF latest = {} THEN s.log ELSE Replaced(s.log, d)
            op        == IF latest = {} THEN LastViewstamp(s.log).opnum ELSE d.lastOp
            committed == IF latest = {} THEN lastCommitted(s) ELSE d.lastCommitted
<1>1. /\ s.log \in Seq(LogEntry) /\ Len(s.log) \in Nat /\ Len(s.executed) \in Nat
  <2>1. s.log \in Seq(LogEntry) /\ s.executed \in Seq(Request)
    BY DEF AnyReplica
  <2>. QED BY <2>1, SeqLength
<1>2. ASSUME latest = {} PROVE NewLog(s, ms, log, op, committed)
  <2>1. op = LastViewstamp(s.log).opnum /\ log = s.log /\ committed = Len(s.executed)
    BY <1>2 DEF lastCommitted
  <2>2. op = Len(s.log)
    BY <1>1, <2>1, LastInOrder
  <2>. HIDE DEF log, op, committed
  <2>. QED BY <1>1, <2>1, <2>2 DEF NewLog
<1>3. ASSUME latest # {} PROVE NewLog(s, ms, log, op, committed)
  <2>. HIDE DEF latest
  <2>1. d \in latest
    BY <1>3
  <2>2. log = Replaced(s.log, d) /\ op = d.lastOp /\ committed = d.lastCommitted
    BY <1>3
  <2>. HIDE DEF d, log, op, committed
  <2>3. /\ d \in s.doViewChanges /\ committed <= Len(log)
    BY <2>1, <2>2 DEF latest, LatestMessages, CanCommit
  <2>4. d \in ms /\ d.type = "DOVIEWCHANGE" /\ d.view = s.view
    BY <2>3 DEF KeepsSent
  <2>5. Brings(d) /\ d.lastOp \in Nat /\ d.lastCommitted \in Nat
    BY <2>4 DEF MessageFine, Brings
  <2>6. ASSUME NEW X, X \subseteq LogEntry, s.log \in Seq(X), d.entries \in Seq(X)
        PROVE  log \in Seq(X)
    <3>1. Replaced(s.log, d) \in Seq(X)
      BY <2>5, <2>6, ReplacedTyped
    <3>. QED BY <2>2, <3>1
  <2>7. InOrder(log) => op <= Len(log)
    BY <1>1, <2>2, <2>3, <2>5, ReachesLastOp
  <2>. QED BY <2>2, <2>3, <2>4, <2>5, <2>6, <2>7 DEF NewLog
<1>. HIDE DEF latest, d, log, op, committed
<1>4. NewLog(s, ms, log, op, committed)
  BY <1>2, <1>3, Zenon
<1>. QED BY <1>4 DEF latest, d, log, op, committed

(* The requests of a log.                                                    *)
LEMMA RequestsOf ==
  ASSUME NEW log \in Seq(LogEntry)
  PROVE  LET q == [i \in 1 .. Len(log) |-> log[i].request]
         IN  /\ q \in Seq(Request) /\ Len(q) = Len(log)
             /\ \A i \in 1 .. Len(q) : q[i] = log[i].request
<1>. DEFINE n == Len(log)
            q == [i \in 1 .. n |-> log[i].request]
<1>1. n \in Nat
  BY SeqLength
<1>2. ASSUME NEW i \in 1 .. n PROVE log[i].request \in Request
  <2>1. log[i] \in LogEntry
    BY <1>2, ElementOfSeq
  <2>. QED BY <2>1 DEF LogEntry
<1>. HIDE DEF n
<1>3. q \in Seq(Request) /\ Len(q) = n /\ \A i \in 1 .. n : q[i] = log[i].request
  BY <1>1, <1>2
<1>. QED BY <1>3 DEF n

(* A leader that enters its view has no order yet, and gives it its log's.    *)
LEMMA LeaderEnters ==
  ASSUME NEW M, Order(M, replica, msgs), NEW r \in Indices, NEW x, Step(r, x),
         AllFine(replica, restarts, msgs),
         NEW view \in Nat, GetLeaderIndex(view) = r, Joins(replica[r], view),
         x.s \in AnyReplica, x.s.view = view, x.s.status = "NORMAL",
         x.s.log \in Seq(KnownEntries(M)),
         \A m \in x.out : \A X :
            X \subseteq LogEntry /\ replica[r].log \in Seq(X) /\ x.s.log \in Seq(X) =>
              (m.type \in {"DOVIEWCHANGE", "STARTVIEW"} => m.entries \in Seq(X)),
         \A m \in x.out : m.type # "PREPARE"
  PROVE  \E P : Order(P, replica', msgs')
<1>. DEFINE s == replica[r]
            log == x.s.log
            q == [i \in 1 .. Len(log) |-> log[i].request]
            P == [M EXCEPT ![view] = q]
<1>1. s \in AnyReplica /\ s.view \in Nat /\ s.view <= view /\ log \in Seq(LogEntry)
  <2>1. s \in AnyReplica
    BY DEF AllFine
  <2>2. s.view \in Nat /\ log \in Seq(LogEntry)
    BY <2>1 DEF AnyReplica
  <2>. QED BY <2>1, <2>2 DEF Joins
<1>2. M \in [Nat -> Seq(Request)] /\ M[view] = << >>
  <2>1. M \in [Nat -> Seq(Request)] /\ Orders(M, view, s)
    BY DEF Order
  <2>2. s.view < view \/ (s.view = view /\ s.status = "VIEW_CHANGE")
    BY <1>1 DEF Joins
  <2>. QED BY <2>1, <2>2 DEF Orders
<1>3. /\ q \in Seq(Request) /\ Len(q) = Len(log)
      /\ \A i \in 1 .. Len(q) : q[i] = log[i].request
  BY <1>1, RequestsOf
<1>. HIDE DEF q
<1>4. Len(M[view]) <= Len(q) /\ \A i \in 1 .. Len(M[view]) : q[i] = M[view][i]
  <2>1. Len(q) \in Nat
    BY <1>3, SeqLength
  <2>2. Len(M[view]) = 0
    BY <1>2
  <2>. DEFINE a == Len(M[view])
              b == Len(q)
  <2>3. a = 0 /\ b \in Nat
    BY <2>1, <2>2
  <2>. HIDE DEF a, b
  <2>4. a <= b /\ \A i \in 1 .. a : FALSE
    BY <2>3
  <2>. QED BY <2>4 DEF a, b
<1>5. KnownEntries(M) \subseteq KnownEntries(P)
  BY <1>2, <1>3, <1>4, KnowsMore
<1>. HIDE DEF P
<1>6. /\ log \in Seq(KnownEntries(P)) /\ s.log \in Seq(KnownEntries(P))
      /\ KnownEntries(P) \subseteq LogEntry
  <2>1. s.log \in Seq(KnownEntries(M))
    BY DEF Order
  <2>. QED BY <1>5, <2>1, SeqOfMore DEF KnownEntries
<1>7. \A m \in x.out : OrderMessage(P, m)
  BY <1>6 DEF OrderMessage
<1>8. GoesOnAs(M, P, view, q, s, x)
  BY <1>1, <1>3, <1>4, <1>6, <1>7, Zenon DEF GoesOnAs, P
<1>9. Order(P, replica', msgs')
  BY <1>8, OrderGoesOn
<1>. QED BY <1>9

(* The leader enters its view with the log it has made out, executes what is *)
(* committed of it, and tells the others.                                     *)
TakesOver(x, view, low, log, op, committed) ==
  LET entered == [EnterView(x.s, view) EXCEPT !.log = log, !.lastOp = op]
      y       == CommitUpTo(Went(entered, x.out), committed)
  IN  Went(y.s, y.out \cup {StartView(y.s, low)})

LEMMA TakesOverKept ==
  ASSUME Kept, LogInOrder', NEW r \in Indices, NEW view \in Nat,
         GetLeaderIndex(view) = r, Joins(replica[r], view),
         NEW x, InChange(replica[r], view, msgs, x),
         NEW low \in Nat, low <= Len(x.s.executed),
         NEW log, NEW op, NEW committed, NewLog(x.s, msgs, log, op, committed),
         Step(r, TakesOver(x, view, low, log, op, committed))
  PROVE  Kept'
<1>. DEFINE old == replica[r]
            t == [EnterView(x.s, view) EXCEPT !.log = log, !.lastOp = op]
            z == Went(t, x.out)
            y == CommitUpTo(z, committed)
            n == StartView(y.s, low)
            w == Went(y.s, y.out \cup {n})
<1>1. Step(r, w) /\ w.s = y.s /\ w.out = y.out \cup {n}
  BY DEF TakesOver, Went
<1>2. /\ AllFine(replica, restarts, msgs) /\ old \in AnyReplica
      /\ replica \in [Indices -> AnyReplica]
      /\ old.log \in Seq(UpTo(old.view)) /\ old.view \in Nat
      /\ \A m \in msgs : MessageFine(m)
  BY KeptParts
<1>3. /\ x.s \in AnyReplica /\ x.s.log = old.log /\ x.s.view = view
      /\ \A m \in x.out : Tells(old, m)
  BY DEF InChange
<1>4. /\ op \in Nat /\ committed \in Nat
      /\ committed <= Len(log) \/ committed <= Len(x.s.executed)
      /\ InOrder(log) => op <= Len(log)
      /\ \A X : /\ X \subseteq LogEntry /\ old.log \in Seq(X)
                /\ \A m \in msgs : m.type = "DOVIEWCHANGE" /\ m.view = view =>
                                     m.entries \in Seq(X)
                => log \in Seq(X)
  BY <1>3 DEF NewLog
<1>5. log \in Seq(UpTo(view)) /\ log \in Seq(LogEntry) /\ UpTo(view) \subseteq LogEntry
  <2>1. UpTo(view) \subseteq LogEntry
    BY DEF UpTo
  <2>2. old.log \in Seq(UpTo(view))
    <3>1. old.view <= view
      BY <1>2 DEF Joins
    <3>. QED BY <1>2, <3>1, UpToMore
  <2>3. \A m \in msgs : m.type = "DOVIEWCHANGE" /\ m.view = view =>
                          m.entries \in Seq(UpTo(view))
    BY <1>2 DEF MessageFine, Brings
  <2>4. log \in Seq(UpTo(view))
    BY <1>4, <2>1, <2>2, <2>3, Zenon
  <2>. QED BY <2>1, <2>4, UpToMore
<1>6. /\ t \in AnyReplica /\ t.log = log /\ t.lastOp = op
      /\ t.view = view /\ t.status = "NORMAL" /\ t.executed = x.s.executed
      /\ t.closeBatch = FALSE /\ t.doViewChanges = {}
      /\ t.recoveryResponses = {} /\ t.prepareOKs = {}
  <2>1. Enters(x.s, view, log, op, t)
    BY <1>3, <1>4, <1>5, EnterViewTyped, Zenon
  <2>. HIDE DEF t
  <2>. QED BY <2>1 DEF Enters
<1>. HIDE DEF t
<1>7. z.s = t /\ z.out = x.out
  BY DEF Went
<1>. HIDE DEF z
<1>8. Executes(z, y)
  BY <1>4, <1>6, <1>7, CommitUpToTyped
<1>. HIDE DEF y
<1>9. /\ y.s \in AnyReplica /\ y.s.log = log /\ y.s.lastOp = op
      /\ y.s.view = view /\ y.s.status = "NORMAL" /\ y.s.closeBatch = FALSE
      /\ y.s.doViewChanges = {} /\ y.s.recoveryResponses = {}
      /\ y.s.prepareOKs = {} /\ Len(x.s.executed) <= Len(y.s.executed)
      /\ \A m \in y.out : m \in x.out \/ Quiet(m)
  BY <1>6, <1>7, <1>8 DEF Executes, Untouched
<1>10. low <= Len(y.s.executed)
  <2>1. Len(x.s.executed) \in Nat /\ Len(y.s.executed) \in Nat
    BY <1>3, <1>9, SeqLength DEF AnyReplica
  <2>. QED BY <1>9, <2>1
<1>11. InOrder(log) /\ op <= Len(log)
  <2>. HIDE DEF w
  <2>1. replica'[r] = y.s
    BY <1>1, <1>2 DEF Step
  <2>2. InOrder(log)
    BY <1>9, <2>1 DEF LogInOrder, InOrder
  <2>. QED BY <1>4, <2>2
<1>12. /\ MessageFine(n) /\ n.type = "STARTVIEW"
       /\ \A X : X \subseteq LogEntry /\ log \in Seq(X) => n.entries \in Seq(X)
  <2>1. /\ y.s.log \in Seq(UpTo(y.s.view)) /\ InOrder(y.s.log)
        /\ y.s.lastOp <= Len(y.s.log)
    BY <1>5, <1>9, <1>11
  <2>2. /\ MessageFine(n) /\ n.type = "STARTVIEW"
        /\ \A X : X \subseteq LogEntry /\ y.s.log \in Seq(X) => n.entries \in Seq(X)
    BY <1>9, <1>10, <2>1, StartViewTold
  <2>. HIDE DEF n
  <2>. QED BY <1>9, <2>2
<1>. HIDE DEF n
<1>13. \A m \in w.out : /\ MessageFine(m)
                        /\ m.type \notin {"STATETRANSFER", "PREPARE"}
                        /\ \A X : X \subseteq LogEntry /\ old.log \in Seq(X)
                                    /\ log \in Seq(X) =>
                             (m.type \in {"DOVIEWCHANGE", "STARTVIEW"} =>
                                m.entries \in Seq(X))
  <2>. HIDE DEF w
  <2>. SUFFICES ASSUME NEW m \in w.out
                PROVE  /\ MessageFine(m)
                       /\ m.type \notin {"STATETRANSFER", "PREPARE"}
                       /\ \A X : X \subseteq LogEntry /\ old.log \in Seq(X)
                                   /\ log \in Seq(X) =>
                            (m.type \in {"DOVIEWCHANGE", "STARTVIEW"} =>
                               m.entries \in Seq(X))
    OBVIOUS
  <2>1. CASE m = n
    BY <1>12, <2>1
  <2>2. CASE Quiet(m)
    BY <2>2 DEF Quiet
  <2>3. CASE Tells(old, m)
    BY <2>3 DEF Tells, Quiet
  <2>. QED BY <1>1, <1>3, <1>9, <2>1, <2>2, <2>3
<1>14. StateFine(r, w.s, msgs \cup w.out)
  <2>. HIDE DEF w
  <2>. QED BY <1>1, <1>5, <1>9, <1>11, FS_EmptySet DEF StateFine, KeepsSent
<1>. HIDE DEF w
<1>15. AllFine(replica, restarts, msgs)'
  BY <1>1, <1>2, <1>13, <1>14, StepFine DEF Fine
<1>16. ASSUME ViewsOnly' PROVE \E M : Order(M, replica', msgs')
  <2>1. ViewsOnly
    BY <1>1, <1>16, ViewsOnlyBefore DEF Step
  <2>2. PICK M : Order(M, replica, msgs)
    BY <2>1 DEF Kept, OrderHolds
  <2>3. log \in Seq(KnownEntries(M))
    <3>1. KnownEntries(M) \subseteq LogEntry
      BY DEF KnownEntries
    <3>2. old.log \in Seq(KnownEntries(M))
      BY <2>2 DEF Order
    <3>3. \A m \in msgs : m.type = "DOVIEWCHANGE" => m.entries \in Seq(KnownEntries(M))
      BY <2>2 DEF Order, OrderMessage
    <3>. QED BY <1>4, <3>1, <3>2, <3>3, Zenon
  <2>4. /\ w.s \in AnyReplica /\ w.s.view = view /\ w.s.status = "NORMAL"
        /\ w.s.log = log
    BY <1>1, <1>9
  <2>5. \A m \in w.out : m.type # "PREPARE"
    BY <1>13
  <2>6. w.s.log \in Seq(KnownEntries(M))
    BY <2>3, <2>4
  <2>7. \A m \in w.out : \A X :
          X \subseteq LogEntry /\ replica[r].log \in Seq(X) /\ w.s.log \in Seq(X) =>
            (m.type \in {"DOVIEWCHANGE", "STARTVIEW"} => m.entries \in Seq(X))
    BY <1>13, <2>4
  <2>. QED BY <1>1, <1>2, <2>2, <2>4, <2>5, <2>6, <2>7, LeaderEnters
<1>. QED BY <1>15, <1>16 DEF Kept, OrderHolds

LEMMA HandleDoViewChangeKept ==
  ASSUME Kept, NEW r \in Indices, LogInOrder, LogInOrder', HandleDoViewChange(r)
  PROVE  Kept'
<1>1. PICK m \in Received("DOVIEWCHANGE") :
        LET x == Joined(r, replica[r], m.view)
            s == [x.s EXCEPT !.doViewChanges = With(@, m)]
        IN  /\ GetLeaderIndex(m.view) = r /\ Joins(replica[r], m.view)
            /\ \/ Step(r, Went(s, x.out))
               \/ /\ \A d \in LatestMessages(s) :
                       CanCommit(Replaced(s.log, d), d.lastCommitted)
                  /\ \E low \in LowestCommitted(s) :
                       Step(r, TakeOver(Went(s, x.out), m.view, low))
  BY DEF HandleDoViewChange
<1>. DEFINE old == replica[r]
            x == Joined(r, old, m.view)
            kept == With(x.s.doViewChanges, m)
            s == [x.s EXCEPT !.doViewChanges = kept]
            z == Went(s, x.out)
<1>2. /\ old \in AnyReplica /\ StateFine(r, old, msgs)
      /\ \A n \in msgs : MessageFine(n)
  BY KeptParts
<1>3. /\ m \in msgs /\ m.type = "DOVIEWCHANGE" /\ m \in DoViewChangeMessage
      /\ m.view \in Nat /\ Joins(old, m.view) /\ GetLeaderIndex(m.view) = r
  <2>1. m \in msgs /\ m.type = "DOVIEWCHANGE" /\ m \in DoViewChangeMessage
    BY <1>2 DEF Received, MessageFine
  <2>. QED BY <1>1, <2>1 DEF DoViewChangeMessage
<1>4. InChange(old, m.view, msgs, x)
  BY <1>2, <1>3, JoinedTyped
<1>5. \/ Step(r, z)
      \/ /\ \A d \in LatestMessages(s) : CanCommit(Replaced(s.log, d), d.lastCommitted)
         /\ \E low \in LowestCommitted(s) : Step(r, TakeOver(z, m.view, low))
  BY <1>1
<1>. HIDE DEF x
<1>6. /\ kept \in SUBSET DoViewChangeMessage
      /\ \A d \in kept : d \in msgs /\ d.type = "DOVIEWCHANGE" /\ d.view = m.view
  <2>1. /\ x.s.doViewChanges \subseteq DoViewChangeMessage /\ x.s.view = m.view
        /\ \A d \in x.s.doViewChanges :
             d \in msgs /\ d.type = "DOVIEWCHANGE" /\ d.view = x.s.view
    BY <1>4 DEF InChange, AnyReplica, KeepsSent
  <2>. QED BY <1>3, <2>1 DEF With
<1>. HIDE DEF kept
<1>7. /\ s \in AnyReplica /\ s.log = old.log /\ s.lastOp = old.lastOp
      /\ s.view = m.view /\ s.status = "VIEW_CHANGE" /\ s.executed = old.executed
      /\ s.prepareOKs = old.prepareOKs /\ s.closeBatch = FALSE
      /\ s.doViewChanges = kept /\ s.recoveryResponses = x.s.recoveryResponses
  BY <1>4, <1>6 DEF InChange, AnyReplica
<1>. HIDE DEF s
<1>8. KeepsSent(s, msgs)
  BY <1>4, <1>6, <1>7 DEF InChange, KeepsSent
<1>9. z.s = s /\ z.out = x.out
  BY DEF Went
<1>. HIDE DEF z
<1>10. InChange(old, m.view, msgs, z)
  BY <1>4, <1>7, <1>8, <1>9 DEF InChange
<1>11. CASE Step(r, z)
  BY <1>3, <1>10, <1>11, InChangeKept
<1>12. CASE /\ \A d \in LatestMessages(s) :
                 CanCommit(Replaced(s.log, d), d.lastCommitted)
            /\ \E low \in LowestCommitted(s) : Step(r, TakeOver(z, m.view, low))
  <2>1. PICK low \in LowestCommitted(s) : Step(r, TakeOver(z, m.view, low))
    BY <1>12
  <2>2. low \in Nat /\ low <= Len(z.s.executed)
    BY <1>7, <1>9, LowestTyped
  <2>. DEFINE latest    == LatestMessages(z.s)
              d         == CHOOSE e \in latest : TRUE
              log       == IF latest = {} THEN z.s.log ELSE Replaced(z.s.log, d)
              op        == IF latest = {} THEN LastViewstamp(z.s.log).opnum ELSE d.lastOp
              committed == IF latest = {} THEN lastCommitted(z.s) ELSE d.lastCommitted
  <2>3. InOrder(s.log)
    BY <1>7 DEF LogInOrder, InOrder
  <2>4. NewLog(z.s, msgs, log, op, committed)
    BY <1>2, <1>7, <1>8, <1>9, <1>12, <2>3, NewLogIs
  <2>5. TakeOver(z, m.view, low) = TakesOver(z, m.view, low, log, op, committed)
    BY DEF TakeOver, TakesOver
  <2>. HIDE DEF latest, d, log, op, committed
  <2>6. Step(r, TakesOver(z, m.view, low, log, op, committed))
    BY <2>1, <2>5
  <2>. QED BY <1>3, <1>10, <2>2, <2>4, <2>6, TakesOverKept
<1>. QED BY <1>5, <1>11, <1>12

(* To acknowledge leaves the log alone, whatever is in it.                    *)
LEMMA LogAcknowledged ==
  ASSUME NEW x, x.s \in AnyReplica, NEW old \in Nat, NEW r \in Indices
  PROVE  SendPrepareOKs(r, x, old).s.log = x.s.log
<1>. DEFINE low == Larger(old, lastCommitted(x.s) + 1)
            high == x.s.lastOp
            ops == Opnums(low, high)
            n == Len(ops)
            Same(s) == "log" \in DOMAIN s /\ s.log = x.s.log
<1>1. SendPrepareOKs(r, x, old) = Acknowledging!Fold(r, x, ops)
  BY DEF SendPrepareOKs, Acknowledging!Fold, FoldLeft, MapThenFoldSet, Acknowledge,
         Acknowledging!FoldLeft, Acknowledging!MapThenFoldSet, Max, Acknowledging!Max
<1>2. low \in Nat /\ high \in Nat
  <2>1. Len(x.s.executed) \in Nat /\ high \in Nat
    BY SeqLength DEF AnyReplica
  <2>. HIDE DEF high
  <2>. QED BY <2>1 DEF Larger, lastCommitted
<1>3. ops \in Seq(Nat) /\ n \in Nat
  <2>. HIDE DEF low, high
  <2>1. ops \in Seq(Nat)
    BY <1>2, OpnumsAre
  <2>. HIDE DEF ops
  <2>. QED BY <2>1
<1>4. PICK run : Acknowledging!IsRun(run, r, x, ops)
  <2>. HIDE DEF ops
  <2>. QED BY <1>3, Acknowledging!FoldSteps, Zenon
<1>5. /\ run[0] = x
      /\ Acknowledging!Fold(r, x, ops) = run[n]
      /\ \A i \in 1 .. n : run[i] = Acknowledge(r, run[i - 1], ops[i])
  BY <1>4 DEF Acknowledging!IsRun
<1>. DEFINE T == {i \in 0 .. n : Same(run[i].s)}
<1>. HIDE DEF ops, n
<1>6. 0 \in T
  <2>1. "log" \in DOMAIN x.s
    BY DEF AnyReplica
  <2>. QED BY <1>3, <1>5, <2>1
<1>7. ASSUME NEW i \in 1 .. n, i - 1 \in T PROVE i \in T
  <2>. DEFINE s == run[i - 1].s
              request == s.log[ops[i]].request
  <2>1. Same(s)
    BY <1>7
  <2>2. run[i].s = UpdateClientTable(s, request)
    <3>. DEFINE y == run[i - 1]
                t == UpdateClientTable(y.s, y.s.log[ops[i]].request)
                out == y.out \cup {PrepareOK(r, y.s.view, ops[i])}
    <3>1. run[i] = Went(t, out)
      BY <1>5 DEF Acknowledge
    <3>2. t = UpdateClientTable(s, request)
      OBVIOUS
    <3>. HIDE DEF t, out, s, request
    <3>3. run[i].s = t
      BY <3>1 DEF Went
    <3>. QED BY <3>2, <3>3
  <2>. HIDE DEF s, request
  <2>3. Same(UpdateClientTable(s, request))
    <3>1. \A t : Same([s EXCEPT !.clientTable = t])
      BY <2>1
    <3>2. \E t : UpdateClientTable(s, request) = [s EXCEPT !.clientTable = t]
      BY Zenon DEF UpdateClientTable
    <3>. HIDE DEF Same
    <3>. QED BY <3>1, <3>2, Zenon
  <2>. HIDE DEF Same
  <2>. QED BY <1>3, <2>2, <2>3
<1>8. n \in T
  <2>. HIDE DEF T
  <2>1. \A i \in 0 .. n : i \in T
    BY <1>3, <1>6, <1>7, RangeInduction
  <2>. QED BY <1>3, <2>1
<1>. QED BY <1>1, <1>5, <1>8

LEMMA HandleStartViewKept ==
  ASSUME Kept, NEW r \in Indices, LogInOrder, LogInOrder', HandleStartView(r)
  PROVE  Kept'
<1>1. PICK m \in Received("STARTVIEW") :
        LET s == replica[r]
            entered == [EnterView(s, m.view) EXCEPT !.log = Replaced(s.log, m),
                                                    !.lastOp = m.lastOp]
        IN  /\ GetLeaderIndex(m.view) # r /\ Joins(s, m.view)
            /\ CanCommit(entered.log, m.lastCommitted)
            /\ Step(r, SendPrepareOKs(r, CommitUpTo(Went(entered, {}),
                                                    m.lastCommitted), s.lastOp))
  BY DEF HandleStartView
<1>. DEFINE s == replica[r]
            log == Replaced(s.log, m)
            t == [EnterView(s, m.view) EXCEPT !.log = log, !.lastOp = m.lastOp]
            x == Went(t, {})
            y == CommitUpTo(x, m.lastCommitted)
            w == SendPrepareOKs(r, y, s.lastOp)
<1>2. /\ AllFine(replica, restarts, msgs) /\ s \in AnyReplica
      /\ replica \in [Indices -> AnyReplica]
      /\ s.log \in Seq(UpTo(s.view)) /\ s.view \in Nat /\ s.lastOp \in Nat
      /\ \A n \in msgs : MessageFine(n)
  BY KeptParts
<1>3. m \in msgs /\ m.type = "STARTVIEW" /\ Brings(m)
  BY <1>2 DEF Received, MessageFine
<1>4. /\ m.view \in Nat /\ m.lastOp \in Nat /\ m.lastCommitted \in Nat
      /\ m.entries \in Seq(UpTo(m.view))
  BY <1>3 DEF Brings
<1>5. /\ GetLeaderIndex(m.view) # r /\ Joins(s, m.view) /\ Step(r, w)
      /\ CanCommit(t.log, m.lastCommitted)
  BY <1>1
<1>6. InOrder(s.log)
  BY DEF LogInOrder, InOrder
<1>7. ASSUME NEW X, X \subseteq LogEntry, s.log \in Seq(X), m.entries \in Seq(X)
      PROVE  log \in Seq(X)
  BY <1>4, <1>6, <1>7, ReplacedTyped
<1>8. s.log \in Seq(UpTo(m.view)) /\ UpTo(m.view) \subseteq LogEntry
      /\ s.log \in Seq(LogEntry)
  <2>1. s.view <= m.view
    BY <1>2, <1>4, <1>5 DEF Joins
  <2>. QED BY <1>2, <1>4, <2>1, UpToMore DEF UpTo
<1>9. log \in Seq(UpTo(m.view)) /\ log \in Seq(LogEntry) /\ Len(log) \in Nat
  <2>1. log \in Seq(UpTo(m.view))
    BY <1>4, <1>7, <1>8
  <2>. HIDE DEF log
  <2>2. log \in Seq(LogEntry)
    BY <1>4, <2>1, UpToMore
  <2>. QED BY <2>1, <2>2, SeqLength
<1>10. InOrder(log) /\ m.lastCommitted <= Len(log) => m.lastOp <= Len(log)
  BY <1>3, <1>6, <1>8, ReachesLastOp
<1>. HIDE DEF log
<1>11. /\ t \in AnyReplica /\ t.log = log /\ t.lastOp = m.lastOp
       /\ t.view = m.view /\ t.status = "NORMAL" /\ t.executed = s.executed
       /\ t.closeBatch = FALSE /\ t.doViewChanges = {}
       /\ t.recoveryResponses = {} /\ t.prepareOKs = {}
  <2>1. Enters(s, m.view, log, m.lastOp, t)
    BY <1>2, <1>4, <1>9, EnterViewTyped, Zenon
  <2>. HIDE DEF t
  <2>. QED BY <2>1 DEF Enters
<1>. HIDE DEF t
<1>12. m.lastCommitted <= Len(log)
  BY <1>5, <1>11 DEF CanCommit
<1>13. x.s = t /\ x.out = {}
  BY DEF Went
<1>. HIDE DEF x
<1>14. Executes(x, y)
  BY <1>4, <1>11, <1>12, <1>13, CommitUpToTyped
<1>. HIDE DEF y
<1>15. /\ y.s \in AnyReplica /\ y.s.log = log /\ y.s.lastOp = m.lastOp
       /\ y.s.view = m.view /\ y.s.status = "NORMAL" /\ y.s.closeBatch = FALSE
       /\ y.s.doViewChanges = {} /\ y.s.recoveryResponses = {}
       /\ y.s.prepareOKs = {} /\ \A n \in y.out : Quiet(n)
  BY <1>11, <1>13, <1>14 DEF Executes, Untouched
<1>16. InOrder(log)
  <2>1. replica'[r] = w.s
    <3>. HIDE DEF w
    <3>. QED BY <1>2, <1>5 DEF Step
  <2>2. w.s.log = y.s.log
    BY <1>2, <1>15, LogAcknowledged
  <2>. HIDE DEF w
  <2>. QED BY <1>15, <2>1, <2>2 DEF LogInOrder, InOrder
<1>17. m.lastOp <= Len(log)
  BY <1>10, <1>12, <1>16
<1>18. Executes(y, w)
  BY <1>2, <1>15, <1>17, SendPrepareOKsTyped
<1>. HIDE DEF w
<1>19. /\ w.s \in AnyReplica /\ w.s.log = log /\ w.s.lastOp = m.lastOp
       /\ w.s.view = m.view /\ w.s.status = "NORMAL" /\ w.s.closeBatch = FALSE
       /\ w.s.doViewChanges = {} /\ w.s.recoveryResponses = {}
       /\ w.s.prepareOKs = {} /\ \A n \in w.out : Quiet(n)
  BY <1>15, <1>18 DEF Executes, Untouched
<1>20. StateFine(r, w.s, msgs \cup w.out)
  BY <1>9, <1>17, <1>19, FS_EmptySet DEF StateFine, KeepsSent
<1>21. AllFine(replica, restarts, msgs)'
  BY <1>2, <1>5, <1>19, <1>20, StepFine DEF Fine, Quiet
<1>22. ASSUME ViewsOnly' PROVE \E M : Order(M, replica', msgs')
  <2>1. ViewsOnly
    BY <1>5, <1>22, ViewsOnlyBefore DEF Step
  <2>2. PICK M : Order(M, replica, msgs)
    BY <2>1 DEF Kept, OrderHolds
  <2>3. log \in Seq(KnownEntries(M))
    <3>1. KnownEntries(M) \subseteq LogEntry
      BY DEF KnownEntries
    <3>2. s.log \in Seq(KnownEntries(M)) /\ m.entries \in Seq(KnownEntries(M))
      BY <1>3, <2>2 DEF Order, OrderMessage
    <3>. QED BY <1>7, <3>1, <3>2, Zenon
  <2>4. \A n \in w.out : OrderMessage(M, n)
    BY <1>19 DEF Quiet, OrderMessage
  <2>5. Joins(s, w.s.view) /\ ~AmLeader(r, w.s)
    BY <1>5, <1>19 DEF AmLeader
  <2>6. Order(M, replica, msgs)'
    BY <1>2, <1>5, <1>19, <2>2, <2>3, <2>4, <2>5, OrderStays
  <2>. QED BY <2>6
<1>. QED BY <1>21, <1>22 DEF Kept, OrderHolds

-----------------------------------------------------------------------------
(* How often the replicas restart                                            *)

SumOf(f, S) == FoldSet(LAMBDA q, sum : sum + f[q], 0, S)

Small(S, k) == {s \in SUBSET S : Cardinality(s) <= k}

Pick(s) == CHOOSE x \in s : TRUE

(* The table of the sums of the subsets of up to k elements.                 *)
IsSumTable(g, f, D) ==
  g = [s \in D |-> IF s = {} THEN 0 ELSE g[s \ {Pick(s)}] + f[Pick(s)]]

LEMMA PickOut ==
  ASSUME NEW S, IsFiniteSet(S), NEW k \in Nat, NEW s \in Small(S, k + 1), s # {}
  PROVE  Pick(s) \in s /\ s \ {Pick(s)} \in Small(S, k)
<1>1. Pick(s) \in s
  BY DEF Pick
<1>2. s \in SUBSET S /\ Cardinality(s) <= k + 1
  BY DEF Small
<1>3. IsFiniteSet(s)
  BY <1>2, FS_Subset
<1>. DEFINE t == s \ {Pick(s)}
            n == Cardinality(t)
<1>4. n = Cardinality(s) - 1
  BY <1>1, <1>3, FS_RemoveElement
<1>5. Cardinality(s) \in Nat
  BY <1>3, FS_CardinalityType
<1>. HIDE DEF n
<1>6. n <= k
  BY <1>2, <1>4, <1>5
<1>. QED BY <1>1, <1>2, <1>6 DEF n, Small

LEMMA SumTableExists ==
  ASSUME NEW S, IsFiniteSet(S), NEW f, NEW n \in Nat
  PROVE  \E g : IsSumTable(g, f, Small(S, n))
<1>. DEFINE T == {k \in Nat : \E g : IsSumTable(g, f, Small(S, k))}
<1>1. 0 \in T
  <2>. DEFINE D == Small(S, 0)
              g == [s \in D |-> 0]
  <2>1. \A s \in D : s = {}
    <3>. SUFFICES ASSUME NEW s \in D PROVE s = {}
      OBVIOUS
    <3>1. s \in SUBSET S /\ Cardinality(s) <= 0
      BY DEF Small
    <3>2. IsFiniteSet(s)
      BY <3>1, FS_Subset
    <3>3. Cardinality(s) = 0
      BY <3>1, <3>2, FS_CardinalityType
    <3>. QED BY <3>2, <3>3, FS_EmptySet
  <2>. HIDE DEF D
  <2>2. g = [s \in D |-> IF s = {} THEN 0 ELSE g[s \ {Pick(s)}] + f[Pick(s)]]
    BY <2>1, Zenon
  <2>3. IsSumTable(g, f, D)
    BY <2>2 DEF IsSumTable
  <2>. QED BY <2>3 DEF D
<1>2. ASSUME NEW k \in T PROVE k + 1 \in T
  <2>0. k \in Nat /\ k + 1 \in Nat
    OBVIOUS
  <2>1. PICK g : IsSumTable(g, f, Small(S, k))
    OBVIOUS
  <2>. HIDE DEF T
  <2>. DEFINE D == Small(S, k + 1)
              h == [s \in D |-> IF s = {} THEN 0 ELSE g[s \ {Pick(s)}] + f[Pick(s)]]
              next(s) == IF s = {} THEN 0 ELSE h[s \ {Pick(s)}] + f[Pick(s)]
  <2>2. ASSUME NEW s \in Small(S, k) PROVE s \in D /\ h[s] = g[s]
    <3>1. s \in D
      <4>1. s \in SUBSET S /\ Cardinality(s) <= k
        BY <2>2 DEF Small
      <4>2. Cardinality(s) \in Nat
        BY <4>1, FS_Subset, FS_CardinalityType
      <4>3. Cardinality(s) <= k + 1
        BY <2>0, <4>1, <4>2
      <4>. QED BY <4>1, <4>3 DEF Small
    <3>. HIDE DEF D
    <3>2. g[s] = IF s = {} THEN 0 ELSE g[s \ {Pick(s)}] + f[Pick(s)]
      BY <2>1, <2>2, Zenon DEF IsSumTable
    <3>. QED BY <3>1, <3>2
  <2>3. ASSUME NEW s \in D PROVE h[s] = next(s)
    <3>1. CASE s = {}
      BY <2>3, <3>1
    <3>2. CASE s # {}
      <4>1. s \ {Pick(s)} \in Small(S, k)
        BY <2>0, <2>3, <3>2, PickOut
      <4>2. h[s \ {Pick(s)}] = g[s \ {Pick(s)}]
        BY <2>2, <4>1
      <4>3. h[s] = g[s \ {Pick(s)}] + f[Pick(s)]
        BY <2>3, <3>2, Zenon
      <4>. HIDE DEF h
      <4>. QED BY <3>2, <4>2, <4>3
    <3>. QED BY <3>1, <3>2
  <2>. HIDE DEF D
  <2>4. h = [s \in D |-> next(s)]
    BY <2>3, Zenon
  <2>5. IsSumTable(h, f, D)
    <3>. HIDE DEF h
    <3>. QED BY <2>4 DEF IsSumTable
  <2>. QED BY <2>0, <2>5 DEF T, D
<1>3. T = Nat
  <2>1. T \subseteq Nat
    OBVIOUS
  <2>. HIDE DEF T
  <2>. QED BY <1>1, <1>2, <2>1, SetInduction
<1>. QED BY <1>3

(* No term of a sum of naturals is more than the sum.                        *)
LEMMA SumBounds ==
  ASSUME NEW S, IsFiniteSet(S), NEW f \in [S -> Nat]
  PROVE  SumOf(f, S) \in Nat /\ \A q \in S : f[q] <= SumOf(f, S)
<1>. DEFINE D == SUBSET S
            g == CHOOSE g : IsSumTable(g, f, D)
            n == Cardinality(S)
<1>1. n \in Nat /\ Small(S, n) = D /\ S \in D
  <2>1. n \in Nat
    BY FS_CardinalityType
  <2>2. \A s \in D : Cardinality(s) <= n
    BY FS_Subset
  <2>. QED BY <2>1, <2>2 DEF Small
<1>2. IsSumTable(g, f, D)
  <2>. HIDE DEF n
  <2>1. \E h : IsSumTable(h, f, Small(S, n))
    <3>1. n \in Nat
      BY <1>1
    <3>. QED BY <3>1, SumTableExists, Zenon
  <2>2. \E h : IsSumTable(h, f, D)
    BY <1>1, <2>1, Zenon
  <2>. QED BY <2>2, Zenon
<1>3. SumOf(f, S) = g[S]
  BY DEF SumOf, FoldSet, MapThenFoldSet, IsSumTable, Pick
<1>. HIDE DEF g
<1>. DEFINE Bounds(s) == g[s] \in Nat /\ \A q \in s : f[q] <= g[s]
            T == {k \in Nat : \A s \in Small(S, k) : Bounds(s)}
<1>4. 0 \in T
  <2>. SUFFICES ASSUME NEW s \in Small(S, 0) PROVE Bounds(s)
    OBVIOUS
  <2>1. s \in SUBSET S /\ Cardinality(s) <= 0
    BY DEF Small
  <2>2. IsFiniteSet(s)
    BY <2>1, FS_Subset
  <2>3. Cardinality(s) = 0
    BY <2>1, <2>2, FS_CardinalityType
  <2>4. s = {}
    BY <2>2, <2>3, FS_EmptySet
  <2>5. g[s] = 0
    BY <1>2, <2>1, <2>4 DEF IsSumTable
  <2>. QED BY <2>4, <2>5
<1>5. ASSUME NEW k \in T PROVE k + 1 \in T
  <2>1. k \in Nat /\ k + 1 \in Nat /\ \A s \in Small(S, k) : Bounds(s)
    OBVIOUS
  <2>. HIDE DEF T
  <2>2. ASSUME NEW s \in Small(S, k + 1) PROVE Bounds(s)
    <3>1. s \in D
      BY DEF Small
    <3>2. CASE s = {}
      <4>1. g[s] = 0
        BY <1>2, <3>1, <3>2 DEF IsSumTable
      <4>. QED BY <3>2, <4>1
    <3>3. CASE s # {}
      <4>. DEFINE x == Pick(s)
                  t == s \ {x}
      <4>1. x \in s /\ t \in Small(S, k)
        BY <2>1, <3>3, PickOut
      <4>2. g[s] = g[t] + f[x]
        BY <1>2, <3>1, <3>3, Zenon DEF IsSumTable
      <4>3. Bounds(t)
        BY <2>1, <4>1
      <4>4. g[t] \in Nat /\ \A q \in t : f[q] <= g[t]
        BY <4>3
      <4>5. f[x] \in Nat /\ \A q \in s : q = x \/ q \in t
        BY <3>1, <4>1
      <4>6. g[s] \in Nat
        BY <4>2, <4>4, <4>5
      <4>7. ASSUME NEW q \in s PROVE f[q] <= g[s]
        <5>1. f[q] \in Nat /\ (q = x \/ f[q] <= g[t])
          BY <3>1, <4>4, <4>5
        <5>. HIDE DEF x, t
        <5>. QED BY <4>2, <4>4, <4>5, <5>1
      <4>. QED BY <4>6, <4>7
    <3>. QED BY <3>2, <3>3
  <2>. QED BY <2>1, <2>2 DEF T
<1>6. T = Nat
  <2>1. T \subseteq Nat
    OBVIOUS
  <2>. HIDE DEF T
  <2>. QED BY <1>4, <1>5, <2>1, SetInduction
<1>7. Bounds(S)
  BY <1>1, <1>6
<1>. QED BY <1>3, <1>7

LEMMA RestartsStayBounded ==
  ASSUME restarts \in [Indices -> Nat], NEW r \in Indices, Restart(r)
  PROVE  restarts[r] + 1 \in 0 .. MaxRestarts
<1>1. SumOf(restarts, Indices) < MaxRestarts
  BY Zenon DEF Restart, SumOf
<1>2. IsFiniteSet(Indices)
  BY FS_Interval, ConfigurationAssumption DEF Indices
<1>3. SumOf(restarts, Indices) \in Nat /\ restarts[r] <= SumOf(restarts, Indices)
  BY <1>2, SumBounds
<1>4. restarts[r] \in Nat /\ MaxRestarts \in Nat
  BY ViewstampedReplicationAssumption
<1>. HIDE DEF SumOf
<1>. QED BY <1>1, <1>3, <1>4

-----------------------------------------------------------------------------
(* The invariant of all views                                                *)

AllViews == TypesInv /\ OrderHolds

LEMMA InitAllViews == Init => AllViews
<1>. SUFFICES ASSUME Init PROVE AllViews
  OBVIOUS
<1>. DEFINE s == InitialReplica
            table == [c \in Clients |-> NoEntry]
            M == [v \in Nat |-> << >>]
<1>1. /\ replica = [r \in Indices |-> s] /\ restarts = [r \in Indices |-> 0]
      /\ invoked = [c \in Clients |-> 0] /\ msgs = {}
  BY DEF Init
<1>2. table \in [Clients -> ClientEntry]
  BY ViewstampedReplicationAssumption DEF NoEntry, ClientEntry
<1>3. s = [status |-> "NORMAL", view |-> 0, log |-> << >>, lastOp |-> 0,
           executed |-> << >>, clientTable |-> table, clientAddresses |-> {},
           lastBatchEnd |-> 0, batchComplete |-> TRUE, closeBatch |-> FALSE,
           prepareOKs |-> {}, startViewChanges |-> {}, doViewChanges |-> {},
           recoveryResponses |-> {}]
  BY DEF InitialReplica
<1>. HIDE DEF s, table
<1>4. s \in AnyReplica
  <2>1. [status |-> "NORMAL", view |-> 0, log |-> << >>, lastOp |-> 0,
         executed |-> << >>, clientTable |-> table, clientAddresses |-> {},
         lastBatchEnd |-> 0, batchComplete |-> TRUE, closeBatch |-> FALSE,
         prepareOKs |-> {}, startViewChanges |-> {}, doViewChanges |-> {},
         recoveryResponses |-> {}] \in AnyReplica
    BY <1>2 DEF AnyReplica
  <2>. QED BY <1>3, <2>1, Zenon
<1>5. /\ s.log = << >> /\ s.lastOp = 0 /\ s.prepareOKs = {} /\ s.view = 0
      /\ s.status = "NORMAL" /\ s.closeBatch = FALSE
      /\ s.doViewChanges = {} /\ s.recoveryResponses = {}
  BY <1>3
<1>6. \A r \in Indices : StateFine(r, s, msgs)
  <2>1. << >> \in Seq(UpTo(s.view)) /\ 0 <= Len(<< >>)
    OBVIOUS
  <2>. QED BY <1>4, <1>5, <2>1, FS_EmptySet DEF StateFine, KeepsSent
<1>7. AllFine(replica, restarts, msgs)
  BY <1>1, <1>4, <1>6 DEF AllFine, Sent
<1>8. TypesInv
  <2>1. /\ invoked \in [Clients -> 0 .. MaxReqId]
        /\ restarts \in [Indices -> 0 .. MaxRestarts]
        /\ \A r \in Indices : replica[r].view <= MaxView
    BY <1>1, <1>5, ViewstampedReplicationAssumption
  <2>. QED BY <1>7, <2>1 DEF TypesInv
<1>9. M \in [Nat -> Seq(Request)] /\ \A v \in Nat : M[v] = << >>
  OBVIOUS
<1>. HIDE DEF M
<1>10. \A v \in Nat : Orders(M, v, s)
  <2>1. Len(<< >>) = 0 /\ 1 .. 0 = {}
    OBVIOUS
  <2>. QED BY <1>5, <1>9, <2>1 DEF Orders
<1>11. s.log \in Seq(KnownEntries(M))
  BY <1>5
<1>12. Order(M, replica, msgs)
  BY <1>1, <1>9, <1>10, <1>11 DEF Order
<1>. QED BY <1>8, <1>12 DEF AllViews, OrderHolds

(* What one replica does.                                                    *)
LEMMA ReplicaStepKept ==
  ASSUME AllViews, LogInOrder, LogInOrder', NEW r \in Indices,
         \/ HandleRequest(r) \/ CloseBatchTimeout(r) \/ SendNullCommit(r)
         \/ HandlePrepare(r) \/ HandlePrepareOK(r) \/ HandleCommit(r)
         \/ HandleRequestStateTransfer(r) \/ HandleStateTransfer(r)
         \/ ViewChangeTimeout(r) \/ HandleStartViewChange(r)
         \/ HandleDoViewChange(r) \/ HandleStartView(r)
         \/ Restart(r) \/ HandleRecovery(r) \/ HandleRecoveryResponse(r)
  PROVE  Kept'
<1>1. Kept /\ invoked \in [Clients -> 0 .. MaxReqId]
  BY DEF AllViews, TypesInv, Kept
<1>2. CASE HandleRequest(r)
  BY <1>1, <1>2, HandleRequestKept
<1>3. CASE CloseBatchTimeout(r)
  BY <1>1, <1>3, CloseBatchTimeoutKept
<1>4. CASE SendNullCommit(r)
  BY <1>1, <1>4, SendNullCommitKept
<1>5. CASE HandlePrepare(r)
  BY <1>1, <1>5, HandlePrepareKept
<1>6. CASE HandlePrepareOK(r)
  BY <1>1, <1>6, HandlePrepareOKKept
<1>7. CASE HandleCommit(r)
  BY <1>1, <1>7, HandleCommitKept
<1>8. CASE HandleRequestStateTransfer(r)
  BY <1>1, <1>8, HandleRequestStateTransferKept
<1>9. CASE HandleStateTransfer(r)
  BY <1>1, <1>9, HandleStateTransferKept
<1>10. CASE ViewChangeTimeout(r)
  BY <1>1, <1>10, ViewChangeTimeoutKept
<1>11. CASE HandleStartViewChange(r)
  BY <1>1, <1>11, HandleStartViewChangeKept
<1>12. CASE HandleDoViewChange(r)
  BY <1>1, <1>12, HandleDoViewChangeKept
<1>13. CASE HandleStartView(r)
  BY <1>1, <1>13, HandleStartViewKept
<1>14. CASE Restart(r)
  BY <1>1, <1>14, RestartKept
<1>15. CASE HandleRecovery(r)
  BY <1>1, <1>15, HandleRecoveryKept
<1>16. CASE HandleRecoveryResponse(r)
  BY <1>1, <1>16, HandleRecoveryResponseKept
<1>. QED BY <1>2, <1>3, <1>4, <1>5, <1>6, <1>7, <1>8, <1>9, <1>10, <1>11, <1>12,
            <1>13, <1>14, <1>15, <1>16

(* A step of a replica is Step, or its restart.                              *)
LEMMA IsStep ==
  ASSUME NEW r \in Indices,
         \/ HandleRequest(r) \/ CloseBatchTimeout(r) \/ SendNullCommit(r)
         \/ HandlePrepare(r) \/ HandlePrepareOK(r) \/ HandleCommit(r)
         \/ HandleRequestStateTransfer(r) \/ HandleStateTransfer(r)
         \/ ViewChangeTimeout(r) \/ HandleStartViewChange(r)
         \/ HandleDoViewChange(r) \/ HandleStartView(r)
         \/ Restart(r) \/ HandleRecovery(r) \/ HandleRecoveryResponse(r)
  PROVE  Restart(r) \/ \E x : Step(r, x)
<1>. DEFINE request(c, id) == [client |-> c, id |-> id]
            known(c) == [replica[r] EXCEPT !.clientAddresses = @ \cup {c}]
<1>1. CASE HandleRequest(r)
  <2>1. PICK c \in Clients : \E id \in 1 .. invoked[c] :
          \/ HandleDuplicateRequest(r, known(c), request(c, id))
          \/ AnswerRequest(r, known(c), request(c, id))
          \/ AppendRequest(r, known(c), request(c, id))
    BY <1>1 DEF HandleRequest
  <2>. HIDE DEF known, request
  <2>. QED BY <2>1 DEF HandleDuplicateRequest, AnswerRequest, AppendRequest
<1>2. CASE CloseBatchTimeout(r) \/ SendNullCommit(r) \/ ViewChangeTimeout(r)
  BY <1>2 DEF CloseBatchTimeout, SendNullCommit, ViewChangeTimeout
<1>3. CASE HandlePrepare(r) \/ HandleCommit(r) \/ HandleRequestStateTransfer(r)
  BY <1>3 DEF HandlePrepare, HandleCommit, HandleRequestStateTransfer
<1>4. CASE HandlePrepareOK(r)
  BY <1>4 DEF HandlePrepareOK
<1>5. CASE HandleStateTransfer(r)
  BY <1>5 DEF HandleStateTransfer
<1>6. CASE HandleStartViewChange(r)
  BY <1>6 DEF HandleStartViewChange
<1>7. CASE HandleDoViewChange(r)
  BY <1>7 DEF HandleDoViewChange
<1>8. CASE HandleStartView(r)
  BY <1>8 DEF HandleStartView
<1>9. CASE HandleRecovery(r)
  BY <1>9 DEF HandleRecovery
<1>10. CASE HandleRecoveryResponse(r)
  BY <1>10 DEF HandleRecoveryResponse
<1>. QED BY <1>1, <1>2, <1>3, <1>4, <1>5, <1>6, <1>7, <1>8, <1>9, <1>10

LEMMA NextAllViews ==
  AllViews /\ LogInOrder /\ LogInOrder' /\ [Next]_vars => AllViews'
<1>. SUFFICES ASSUME AllViews, LogInOrder, LogInOrder', [Next]_vars PROVE AllViews'
  OBVIOUS
<1>0. /\ invoked \in [Clients -> 0 .. MaxReqId]
      /\ restarts \in [Indices -> 0 .. MaxRestarts]
      /\ \A r \in Indices : replica[r].view <= MaxView
      /\ AllFine(replica, restarts, msgs)
  BY DEF AllViews, TypesInv
<1>1. CASE vars' = vars
  <2>1. /\ replica' = replica /\ restarts' = restarts /\ msgs' = msgs
        /\ invoked' = invoked
    BY <1>1 DEF vars
  <2>. QED BY <2>1 DEF AllViews, TypesInv, OrderHolds, ViewsOnly
<1>2. CASE \E c \in Clients : Invoke(c)
  <2>1. PICK c \in Clients : Invoke(c)
    BY <1>2
  <2>2. invoked' \in [Clients -> 0 .. MaxReqId]
    <3>1. invoked' = [invoked EXCEPT ![c] = @ + 1] /\ invoked[c] < MaxReqId
      BY <2>1 DEF Invoke
    <3>. QED BY <1>0, <3>1, ViewstampedReplicationAssumption
  <2>3. replica' = replica /\ restarts' = restarts /\ msgs' = msgs
    BY <2>1 DEF Invoke
  <2>. QED BY <2>2, <2>3 DEF AllViews, TypesInv, OrderHolds, ViewsOnly
<1>3. ASSUME NEW r \in Indices,
             \/ HandleRequest(r) \/ CloseBatchTimeout(r) \/ SendNullCommit(r)
             \/ HandlePrepare(r) \/ HandlePrepareOK(r) \/ HandleCommit(r)
             \/ HandleRequestStateTransfer(r) \/ HandleStateTransfer(r)
             \/ ViewChangeTimeout(r) \/ HandleStartViewChange(r)
             \/ HandleDoViewChange(r) \/ HandleStartView(r)
             \/ Restart(r) \/ HandleRecovery(r) \/ HandleRecoveryResponse(r)
      PROVE  AllViews'
  <2>1. AllFine(replica, restarts, msgs)' /\ OrderHolds'
    BY <1>3, ReplicaStepKept DEF Kept
  <2>2. replica \in [Indices -> AnyReplica] /\ restarts \in [Indices -> Nat]
    BY <1>0 DEF AllFine
  <2>3. /\ invoked' = invoked /\ restarts' \in [Indices -> 0 .. MaxRestarts]
        /\ \A p \in Indices : replica'[p].view <= MaxView
    <3>1. CASE Restart(r)
      <4>. DEFINE t == [InitialReplica EXCEPT !.status = "RECOVERING"]
                  k == restarts[r] + 1
      <4>1. k \in 0 .. MaxRestarts
        BY <2>2, <3>1, RestartsStayBounded
      <4>2. /\ invoked' = invoked /\ restarts' = [restarts EXCEPT ![r] = k]
            /\ replica' = [replica EXCEPT ![r] = t]
        BY <3>1 DEF Restart
      <4>. HIDE DEF k
      <4>3. t.view = 0 /\ MaxView \in Nat
        BY ViewstampedReplicationAssumption DEF InitialReplica
      <4>. HIDE DEF t
      <4>. QED BY <1>0, <2>2, <4>1, <4>2, <4>3
    <3>2. CASE \E x : Step(r, x)
      <4>1. PICK x : Step(r, x)
        BY <3>2
      <4>. QED BY <1>0, <2>2, <4>1 DEF Step
    <3>. QED BY <1>3, <3>1, <3>2, IsStep
  <2>. QED BY <1>0, <2>1, <2>3 DEF AllViews, TypesInv
<1>. QED BY <1>1, <1>2, <1>3 DEF Next

(* As long as no entry is out of its place in a log, which Log::Find asserts *)
(* (common/log.cc:94), whatever views the replicas go through, whatever they  *)
(* transfer and however often they restart: what they keep and send has its   *)
(* types, and in each view there is one order of the requests, if there are   *)
(* only view changes.                                                          *)
THEOREM AllViewsInvariance == Spec /\ []LogInOrder => []AllViews
<1>. QED BY InitAllViews, NextAllViews, PTL DEF Spec

LEMMA AllViewsTyped == AllViews => TypeOK
<1>. SUFFICES ASSUME AllViews PROVE TypeOK
  OBVIOUS
<1>1. /\ invoked \in [Clients -> 0 .. MaxReqId]
      /\ restarts \in [Indices -> 0 .. MaxRestarts]
      /\ \A r \in Indices : replica[r].view <= MaxView
      /\ AllFine(replica, restarts, msgs)
  BY DEF AllViews, TypesInv
<1>. DEFINE Typed(s) ==
       /\ DOMAIN s = DOMAIN InitialReplica
       /\ s.status \in {"NORMAL", "VIEW_CHANGE", "RECOVERING"}
       /\ s.view \in 0 .. MaxView
       /\ \A i \in DOMAIN s.log : /\ s.log[i].view \in 0 .. s.view
                                  /\ s.log[i].opnum \in Nat
                                  /\ s.log[i].request \in Request
       /\ s.lastOp \in 0 .. Len(s.log)
       /\ s.lastBatchEnd \in Nat
       /\ ToSet(s.executed) \subseteq Request
       /\ s.clientAddresses \subseteq Clients
       /\ \A c \in Clients : s.clientTable[c].id \in 0 .. MaxReqId
<1>2. ASSUME NEW r \in Indices PROVE Typed(replica[r])
  <2>. DEFINE s == replica[r]
  <2>1. /\ s \in AnyReplica /\ s.view <= MaxView /\ s.log \in Seq(UpTo(s.view))
        /\ s.lastOp <= Len(s.log)
    BY <1>1 DEF AllFine, StateFine
  <2>. HIDE DEF s
  <2>2. DOMAIN s = DOMAIN InitialReplica
    BY <2>1 DEF AnyReplica, InitialReplica
  <2>3. /\ s.status \in {"NORMAL", "VIEW_CHANGE", "RECOVERING"}
        /\ s.view \in Nat /\ s.lastBatchEnd \in Nat /\ s.lastOp \in Nat
        /\ s.clientAddresses \subseteq Clients
        /\ s.clientTable \in [Clients -> ClientEntry] /\ s.executed \in Seq(Request)
    BY <2>1 DEF AnyReplica
  <2>4. s.view \in 0 .. MaxView /\ s.lastOp \in 0 .. Len(s.log)
    <3>1. Len(s.log) \in Nat
      BY <2>1, SeqLength
    <3>. QED BY <2>1, <2>3, <3>1, ViewstampedReplicationAssumption
  <2>5. ASSUME NEW i \in DOMAIN s.log
        PROVE  /\ s.log[i].view \in 0 .. s.view /\ s.log[i].opnum \in Nat
               /\ s.log[i].request \in Request
    <3>1. s.log[i] \in UpTo(s.view)
      BY <2>1, <2>5
    <3>2. s.log[i] \in LogEntry /\ s.log[i].view <= s.view
      BY <3>1 DEF UpTo
    <3>. QED BY <2>3, <3>2 DEF LogEntry
  <2>6. ToSet(s.executed) \subseteq Request
    BY <2>3 DEF ToSet
  <2>7. \A c \in Clients : s.clientTable[c].id \in 0 .. MaxReqId
    BY <2>3 DEF ClientEntry
  <2>8. Typed(s)
    BY <2>2, <2>3, <2>4, <2>5, <2>6, <2>7
  <2>. HIDE DEF Typed
  <2>. QED BY <2>8 DEF s
<1>. QED BY <1>1, <1>2 DEF TypeOK

(* The state of a replica has its types in every view, with its log never     *)
(* shorter than lastOp says and never of a later view than its own, through   *)
(* any transfers and restarts, as long as the assertion of Log::Find          *)
(* (common/log.cc:94) holds; where it fails the log is not what lastOp says.  *)
THEOREM TypesHold == Spec /\ []LogInOrder => []TypeOK
<1>. QED BY AllViewsInvariance, AllViewsTyped, PTL

LEMMA AllViewsUnique == AllViews => (ViewsOnly => ViewstampsUnique)
<1>. SUFFICES ASSUME AllViews, ViewsOnly, NEW e \in Entries, NEW f \in Entries,
                     e.view = f.view, e.opnum = f.opnum
              PROVE  e.request = f.request
  BY DEF ViewstampsUnique
<1>1. PICK M : Order(M, replica, msgs)
  BY DEF AllViews, OrderHolds
<1>2. \A d \in Entries : d \in KnownEntries(M)
  <2>. SUFFICES ASSUME NEW r \in Indices, NEW d \in ToSet(replica[r].log)
                PROVE  d \in KnownEntries(M)
    BY DEF Entries
  <2>1. replica[r].log \in Seq(KnownEntries(M))
    BY <1>1 DEF Order
  <2>. QED BY <2>1 DEF ToSet
<1>. QED BY <1>2 DEF KnownEntries

(* Through any number of view changes a viewstamp names one request, in       *)
(* whichever replica's log, until a replica transfers its state or restarts   *)
(* (HandleDoViewChange, HandleStartView, Log::Install), as long as the        *)
(* assertion of Log::Find (common/log.cc:94) holds.                            *)
THEOREM ViewstampsAreUniqueInAllViews ==
  Spec /\ []LogInOrder => [](ViewsOnly => ViewstampsUnique)
<1>. QED BY AllViewsInvariance, AllViewsUnique, PTL
=============================================================================
