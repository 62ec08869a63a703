------------------------------ MODULE NiStore ------------------------------
(***************************************************************************)
(* The transactional key-value store (nistore/): clients that run           *)
(* transactions over shards (client.cc), each shard a replicated server     *)
(* (server.cc) with one of the stores, and the timestamp server              *)
(* (timeserver/timeserver.cc).                                                *)
(*                                                                           *)
(* A shard is the server of one of its replicas: the replication protocol   *)
(* calls it with the clients' requests, once each, in some order.  Under     *)
(* Speculative Paxos it may roll back what it has executed until the client  *)
(* has accepted the answer or the operation is committed, and execute it      *)
(* again, in another order.                                                   *)
(***************************************************************************)
EXTENDS TxnStore, FiniteSetsExt

CONSTANTS
  Clients,       \* a client is also the id of its transactions
  Keys,          \* a key is its hash
  NShards,
  Modes,         \* what the servers may be started as
  Loaded,        \* the value each key has at first
  MaxTxns,       \* bound: transactions of a client
  MaxOps,        \* bound: operations of a transaction
  MaxRollbacks   \* bound: rollbacks of all shards

ASSUME NiStoreAssumption ==
  /\ NShards \in Nat \ {0} /\ Keys \subseteq Nat
  /\ NoValue \notin Clients \X Nat
  /\ Modes \subseteq {"as-built", "vr-l", "vr-occ", "spec-l", "spec-occ"}

ASSUME BoundsAssumption ==
  IsFiniteSet(Clients) /\ MaxTxns \in Nat /\ MaxRollbacks \in Nat

Lock == INSTANCE LockStore
OCC  == INSTANCE OCCStore

Shards == 0 .. NShards - 1

key_to_shard(key) == key % NShards

VARIABLES
  mode,       \* option -m of the servers
  client,     \* client[c]: the application thread of a client
  calls,      \* requests not answered yet
  replies,    \* answers on their way
  shard,      \* shard[i]: a server's database and what it has executed
  ts,         \* the last timestamp given
  rollbacks,  \* how often a shard has rolled back
  history     \* what each transaction that is to commit has read and written

vars == <<mode, client, calls, replies, shard, ts, rollbacks, history>>

(* The store of a server is declared by value as a TxnStore: as it is built *)
(* ("as-built"), every operation reaches the base class, which does nothing. *)
AsBuilt == mode = "as-built"

Locking == mode \in {"vr-l", "spec-l"}

Speculative == mode \in {"spec-l", "spec-occ"}

KeysOf(i) == {key \in Keys : key_to_shard(key) = i}

InitDb(m, i) ==
  LET value == [key \in KeysOf(i) |-> <<Loaded>>]
      version == [key \in KeysOf(i) |-> <<[ts |-> 0, value |-> Loaded]>>]
  IN  CASE m \in {"vr-l", "spec-l"} -> Lock!InitDb(value)
        [] m \in {"vr-occ", "spec-occ"} -> OCC!InitDb(version)
        [] m = "as-built" -> OCC!InitDb(<< >>)

(* Between transactions.  reads and puts are what the application has been  *)
(* told and has had written; next is the operation that waits for BEGIN.      *)
NoOp == [op |-> "NONE", arg0 |-> 0, arg1 |-> NoValue]

IdleClient ==
  [pc |-> "idle", txns |-> 0, ops |-> 0, sent |-> 0, next |-> NoOp,
   all_participants |-> {}, yes_participants |-> {}, nreplies |-> 0,
   status |-> TRUE, reads |-> {}, puts |-> << >>]

Init ==
  /\ mode \in Modes
  /\ client = [c \in Clients |-> IdleClient]
  /\ calls = {} /\ replies = {}
  /\ shard = [i \in Shards |-> [db |-> InitDb(mode, i), log |-> << >>,
                                opnum |-> 0]]
  /\ ts = 0 /\ rollbacks = 0 /\ history = {}
-----------------------------------------------------------------------------
(* The server *)

LockUpcall(db, opnum, r) ==
  CASE r.op = "BEGIN" -> {Result(begin(db, r.txnid), 0, NoValue)}
    [] r.op = "GET" -> Lock!get(db, r.txnid, r.arg0)
    [] r.op = "PUT" -> Lock!put(db, r.txnid, r.arg0, r.arg1)
    [] r.op = "PREPARE" -> Lock!prepare(db, r.txnid)
    [] r.op = "COMMIT" ->
         {Result(Lock!commit(db, id, opnum), 0, NoValue) :
            id \in {j \in {r.txnid} : Lock!Committable(db.prepared[j])}}
    [] r.op = "ABORT" ->
         {Result(Lock!aborted(db, opnum, id), 0, NoValue) :
            id \in {j \in {r.txnid} : Abortable(db, j)}}

OCCUpcall(db, opnum, r) ==
  CASE r.op = "BEGIN" -> {Result(begin(db, r.txnid), 0, NoValue)}
    [] r.op = "GET" -> {OCC!get(db, r.txnid, r.arg0)}
    [] r.op = "PUT" -> {OCC!put(db, r.txnid, r.arg0, r.arg1)}
    [] r.op = "PREPARE" -> {OCC!prepare(db, opnum, r.txnid)}
    [] r.op = "COMMIT" ->
         {Result(OCC!commit(db, r.txnid, r.arg0, opnum), 0, NoValue)}
    [] r.op = "ABORT" -> {Result(abortTxn(db, opnum, id), 0, NoValue) :
                            id \in {j \in {r.txnid} : Abortable(db, j)}}

(* The status of a BEGIN is never assigned; nobody looks at it.              *)
ReplicaUpcall(db, opnum, r) ==
  CASE AsBuilt -> {Result(db, 0, NoValue)}
    [] ~AsBuilt /\ Locking -> LockUpcall(db, opnum, r)
    [] ~AsBuilt /\ ~Locking -> OCCUpcall(db, opnum, r)

LockUndo(db, r) ==
  CASE r.op = "BEGIN" -> {unbegin(db, r.txnid)}
    [] r.op = "GET" -> Lock!unget(db, r.txnid, r.arg0)
    [] r.op = "PUT" -> Lock!unput(db, r.txnid, r.arg0, r.arg1)
    [] r.op = "PREPARE" -> {unprepare(db, r.txnid)}
    [] r.op = "COMMIT" -> Lock!uncommitted(db, r.txnid)
    [] r.op = "ABORT" -> Lock!unaborted(db, r.txnid)

OCCUndo(db, r) ==
  CASE r.op = "BEGIN" -> unbegin(db, r.txnid)
    [] r.op = "GET" -> OCC!unget(db, r.txnid, r.arg0)
    [] r.op = "PUT" -> OCC!unput(db, r.txnid, r.arg0, r.arg1)
    [] r.op = "PREPARE" -> unprepare(db, r.txnid)
    [] r.op = "COMMIT" -> OCC!uncommitted(db, r.txnid)
    [] r.op = "ABORT" -> unabort(db, r.txnid)

Undo(db, r) == IF Locking THEN LockUndo(db, r) ELSE {OCCUndo(db, r)}

(* What of a database the operations answer from.  A key without values     *)
(* left in a write set is no write yet.                                       *)
Visible(db) ==
  LET seen(t) == [t EXCEPT !.writes =
                    [key \in {k \in DOMAIN @ : @[k] # << >>} |-> @[key]]]
  IN  [store |-> db.store,
       running  |-> [id \in DOMAIN db.running |-> seen(db.running[id])],
       prepared |-> [id \in DOMAIN db.prepared |-> seen(db.prepared[id])]]

(* The shard's replication protocol has its turn come.                        *)
Execute(i) ==
  LET s  == shard[i]
      op == s.opnum + 1
  IN
  \E r \in calls :
    /\ r.shard = i
    /\ \A a \in replies : a.req # r
    /\ \E o \in ReplicaUpcall(s.db, op, r) :
         /\ shard' = [shard EXCEPT ![i] =
              [db |-> o.db, opnum |-> op,
               log |-> IF Speculative
                       THEN Append(s.log, [opnum |-> op, req |-> r,
                                           before |-> Visible(s.db)])
                       ELSE << >>]]
         /\ replies' = replies \cup {[req |-> r, status |-> o.status,
                                      value |-> o.value]}
    /\ UNCHANGED <<mode, client, calls, ts, rollbacks, history>>

Accepted(e) == e.req \notin calls

(* Roll the last operations back, the latest first.                           *)
RollbackUpcall(i) ==
  LET log == shard[i].log IN
  /\ rollbacks < MaxRollbacks
  /\ \E to \in 0 .. Len(log) - 1 :
       LET undone == SubSeq(log, to + 1, Len(log)) IN
       /\ \A k \in DOMAIN undone : ~Accepted(undone[k])
       /\ \E db \in FoldRight(LAMBDA e, dbs : UNION {Undo(d, e.req) : d \in dbs},
                              undone, {shard[i].db}) :
            shard' = [shard EXCEPT ![i] =
                        [db |-> db, log |-> SubSeq(log, 1, to),
                         opnum |-> @.opnum - Len(undone)]]
       /\ replies' = {a \in replies :
                        \A k \in DOMAIN undone : undone[k].req # a.req}
  /\ rollbacks' = rollbacks + 1
  /\ UNCHANGED <<mode, client, calls, ts, history>>

(* What clients have accepted is committed in the end.                        *)
CommitUpcall(i) ==
  LET log == shard[i].log
      upto == Max({0} \cup {k \in DOMAIN log : Accepted(log[k])})
  IN  /\ upto > 0
      /\ shard' = [shard EXCEPT
                     ![i].db = specCommit(@, log[upto].opnum),
                     ![i].log = SubSeq(@, upto + 1, Len(@))]
      /\ UNCHANGED <<mode, client, calls, replies, ts, rollbacks, history>>
-----------------------------------------------------------------------------
(* The client *)

Request(c, s, i, op, arg0, arg1) ==
  [txnid |-> c, n |-> s.sent, shard |-> i, op |-> op, arg0 |-> arg0,
   arg1 |-> arg1]

(* The client goes on to a state in which it waits for some requests.        *)
Sends(c, s, requests) ==
  /\ client' = [client EXCEPT ![c] = [s EXCEPT !.sent = @ + 1]]
  /\ calls' = calls \cup requests
  /\ UNCHANGED replies

(* The answer a is accepted, and the client goes on.                          *)
Accepts(c, a, s, requests) ==
  /\ client' = [client EXCEPT ![c] = [s EXCEPT !.sent = @ + 1]]
  /\ calls' = (calls \ {a.req}) \cup requests
  /\ replies' = replies \ {a}

Answers(c, op) == {a \in replies : a.req.txnid = c /\ a.req.op = op}

Begin(c) ==
  /\ client[c].pc = "idle" /\ client[c].txns < MaxTxns
  /\ Sends(c, [IdleClient EXCEPT !.pc = "open", !.sent = client[c].sent,
                                 !.txns = client[c].txns + 1], {})
  /\ UNCHANGED <<mode, shard, ts, rollbacks, history>>

(* Get and Put: a shard that has no part in the transaction is told of it    *)
(* first.                                                                      *)
Operate(c, op, key, value) ==
  LET i == key_to_shard(key)
      s == [client[c] EXCEPT !.ops = @ + 1]
  IN  /\ client[c].pc = "open" /\ client[c].ops < MaxOps
      /\ \/ /\ i \in s.all_participants
            /\ Sends(c, [s EXCEPT !.pc = op],
                     {Request(c, s, i, op, key, value)})
         \/ /\ i \notin s.all_participants
            /\ Sends(c, [s EXCEPT !.pc = "BEGIN",
                           !.all_participants = @ \cup {i},
                           !.next = [op |-> op, arg0 |-> key, arg1 |-> value]],
                     {Request(c, s, i, "BEGIN", 0, NoValue)})
      /\ UNCHANGED <<mode, shard, ts, rollbacks, history>>

Get(c) == \E key \in Keys : Operate(c, "GET", key, NoValue)

Put(c) == \E key \in Keys : Operate(c, "PUT", key, <<c, client[c].sent>>)

(* send_begin has succeeded: the operation follows.                           *)
beginCallback(c) ==
  LET s == client[c] IN
  \E a \in Answers(c, "BEGIN") :
    /\ Accepts(c, a, [s EXCEPT !.pc = s.next.op, !.next = NoOp],
               {Request(c, s, a.req.shard, s.next.op, s.next.arg0,
                        s.next.arg1)})
    /\ UNCHANGED <<mode, shard, ts, rollbacks, history>>

Own(s, key) == IF key \in DOMAIN s.puts THEN s.puts[key] ELSE NoValue

getCallback(c) ==
  LET s == client[c] IN
  \E a \in Answers(c, "GET") :
    LET read == [key |-> a.req.arg0, value |-> a.value,
                 own |-> Own(s, a.req.arg0)]
    IN  /\ Accepts(c, a, [s EXCEPT !.pc = "open", !.status = a.status >= 0,
                                   !.reads = IF a.status >= 0
                                             THEN @ \cup {read} ELSE @], {})
        /\ UNCHANGED <<mode, shard, ts, rollbacks, history>>

(* The status is not looked at: only puts knows that it was refused.         *)
putCallback(c) ==
  LET s == client[c] IN
  \E a \in Answers(c, "PUT") :
    /\ Accepts(c, a, [s EXCEPT !.pc = "open",
                               !.puts = IF a.status >= 0
                                        THEN With(@, a.req.arg0, a.req.arg1)
                                        ELSE @], {})
    /\ UNCHANGED <<mode, shard, ts, rollbacks, history>>

ToAll(c, s, shards, op, arg0) ==
  {Request(c, s, i, op, arg0, NoValue) : i \in shards}

(* The first phase: without participants no answer ever comes.               *)
Commit(c) ==
  LET s == client[c] IN
  /\ s.pc = "open"
  /\ Sends(c, [s EXCEPT !.pc = "PREPARE", !.nreplies = 0, !.status = TRUE],
           ToAll(c, s, s.all_participants, "PREPARE", 0))
  /\ UNCHANGED <<mode, shard, ts, rollbacks, history>>

(* Only the shards that have voted yes are told of the abort.                *)
AbortTo(s) ==
  [s EXCEPT !.pc = IF s.yes_participants = {} THEN "idle" ELSE "ABORT",
            !.nreplies = 0]

Aborts(c, s) == ToAll(c, s, s.yes_participants, "ABORT", 0)

Abort(c) ==
  /\ client[c].pc = "open"
  /\ Sends(c, AbortTo(client[c]), Aborts(c, client[c]))
  /\ UNCHANGED <<mode, shard, ts, rollbacks, history>>

(* The vote that completes them decides.                                      *)
prepareCallback(c) ==
  \E a \in Answers(c, "PREPARE") :
    LET yes == a.status >= 0
        s   == [client[c] EXCEPT
                  !.nreplies = @ + 1, !.status = @ /\ yes,
                  !.yes_participants = IF yes THEN @ \cup {a.req.shard} ELSE @]
        last == s.nreplies = Cardinality(s.all_participants)
    IN  /\ \/ /\ ~last
              /\ Accepts(c, a, s, {})
           \/ /\ last /\ s.status
              /\ Accepts(c, a, [s EXCEPT !.pc = "TSS"], {})
           \/ /\ last /\ ~s.status
              /\ Accepts(c, a, AbortTo(s), Aborts(c, s))
        /\ UNCHANGED <<mode, shard, ts, rollbacks, history>>

newTimeStamp == ts' = ts + 1

(* The timestamp server answers, and the second phase begins.                *)
tssCallback(c) ==
  LET s == client[c] IN
  /\ s.pc = "TSS"
  /\ newTimeStamp
  /\ Sends(c, [s EXCEPT !.pc = "COMMIT", !.nreplies = 0],
           ToAll(c, s, s.all_participants, "COMMIT", ts'))
  /\ history' = history \cup {[client |-> c, txn |-> s.txns, ts |-> ts',
                               reads |-> s.reads, writes |-> s.puts]}
  /\ UNCHANGED <<mode, shard, rollbacks>>

commitCallback(c) ==
  LET s == [client[c] EXCEPT !.nreplies = @ + 1] IN
  \E a \in Answers(c, "COMMIT") :
    /\ Accepts(c, a, IF s.nreplies = Cardinality(s.all_participants)
                     THEN [s EXCEPT !.pc = "idle"] ELSE s, {})
    /\ UNCHANGED <<mode, shard, ts, rollbacks, history>>

abortCallback(c) ==
  LET s == [client[c] EXCEPT !.nreplies = @ + 1] IN
  \E a \in Answers(c, "ABORT") :
    /\ Accepts(c, a, IF s.nreplies = Cardinality(s.yes_participants)
                     THEN [s EXCEPT !.pc = "idle"] ELSE s, {})
    /\ UNCHANGED <<mode, shard, ts, rollbacks, history>>

ClientNext(c) ==
  \/ Begin(c) \/ Get(c) \/ Put(c) \/ Commit(c) \/ Abort(c)
  \/ beginCallback(c) \/ getCallback(c) \/ putCallback(c)
  \/ prepareCallback(c) \/ tssCallback(c) \/ commitCallback(c)
  \/ abortCallback(c)

Next ==
  \/ \E c \in Clients : ClientNext(c)
  \/ \E i \in Shards : Execute(i) \/ RollbackUpcall(i) \/ CommitUpcall(i)

Spec == Init /\ [][Next]_vars
-----------------------------------------------------------------------------
(* Properties *)

(* Type correctness (nistore/client.h, server.h); a lock's state is what its *)
(* holders make of it (lockserver.h, struct Lock).                            *)
TypeOK ==
  /\ ts \in 0 .. Cardinality(Clients) * MaxTxns /\ rollbacks \in 0 .. MaxRollbacks
  /\ \A c \in Clients :
       /\ client[c].pc \in {"idle", "open", "BEGIN", "GET", "PUT", "PREPARE",
                            "TSS", "COMMIT", "ABORT"}
       /\ client[c].yes_participants \subseteq client[c].all_participants
  /\ \A a \in replies : a.req \in calls
  /\ \A i \in Shards : Locking =>
       \A key \in KeysOf(i) : Lock!LockOK(shard[i].db.locks[key])

(* The value of a key before a timestamp, by what is to be committed.        *)
ValueBefore(key, time) ==
  LET writers == {h \in history : h.ts < time /\ key \in DOMAIN h.writes}
      last    == CHOOSE h \in writers : \A g \in writers : g.ts <= h.ts
  IN  IF writers = {} THEN Loaded ELSE last.writes[key]

(* A transaction that commits has read what the transactions with earlier   *)
(* timestamps have written, or what it has written itself, over all shards   *)
(* (LockStore: two-phase locking; OCCStore::prepare; Client::Commit).  Not    *)
(* where the server's operations reach no store.                              *)
Serializable ==
  ~AsBuilt => \A h \in history : \A read \in h.reads :
    read.value = IF read.own # NoValue THEN read.own
                 ELSE ValueBefore(read.key, h.ts)

StoredValues(key) ==
  LET db == shard[key_to_shard(key)].db IN
  IF Locking THEN Tail(db.store[key])
  ELSE Reverse(Front([i \in DOMAIN db.store[key] |-> db.store[key][i].value]))

(* A shard has stored, in the order of their timestamps, writes of           *)
(* transactions that are to commit on every shard; once the client is told   *)
(* that the commit has succeeded, all of them (Client::Commit, server.cc).    *)
AtomicCommit ==
  ~AsBuilt => \A key \in Keys : LET values == StoredValues(key) IN
    /\ \E by \in [DOMAIN values -> history] :
         \A i \in DOMAIN values :
           /\ key \in DOMAIN by[i].writes /\ by[i].writes[key] = values[i]
           /\ \A j \in 1 .. i - 1 : by[j].ts < by[i].ts
    /\ \A h \in history :
         client[h.client].pc # "COMMIT" /\ key \in DOMAIN h.writes =>
           \E i \in DOMAIN values : values[i] = h.writes[key]

(* To roll back the last operation leaves what there was before it, for the *)
(* operations that follow to answer from (Server::RollbackUpcall).            *)
UndoRestores ==
  \A i \in Shards : LET log == shard[i].log IN
    log # << >> /\ ~Accepted(Last(log)) =>
      \A db \in Undo(shard[i].db, Last(log).req) :
        Visible(db) = Last(log).before

(* "Should be able to pick up all locks again bacause we were holding them  *)
(* before." (nistore/lockstore.cc:71): a transaction that is running or      *)
(* prepared holds the locks of what it has read and written.                  *)
LocksHeld ==
  \A i \in Shards : LET db == Visible(shard[i].db) IN
    \A txns \in {db.running, db.prepared} : \A id \in DOMAIN txns :
      \A key \in DOMAIN txns[id].reads \cup DOMAIN txns[id].writes :
        id \in shard[i].db.locks[key].holders
=============================================================================
