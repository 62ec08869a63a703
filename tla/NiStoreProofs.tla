--------------------------- MODULE NiStoreProofs ---------------------------
(***************************************************************************)
(* Transactions over servers that do not speculate (-m vr-l and -m vr-occ)   *)
(* are serializable and committed on all of their shards or on none, for any *)
(* clients, keys and shards: two-phase locking (lockstore.cc, lockserver.cc)  *)
(* and optimistic concurrency control (occstore.cc), under the client's       *)
(* two-phase commit (client.cc).                                              *)
(*                                                                           *)
(* The invariant, SysInv, links what a client knows to what the shards have: *)
(*   - a shard has the transaction running, or prepared, exactly as the       *)
(*     client's phase and the answers on their way to it say (ShardInv), and  *)
(*     has recorded its reads and writes (Linked);                            *)
(*   - a prepared transaction is alone with what it has written: it holds the *)
(*     locks (LockDbOK), or nobody else prepared has read or written it and    *)
(*     what it has read is the latest version (OCCDbOK);                      *)
(*   - a transaction that has its timestamp, but whose commit a shard has not *)
(*     executed (Pending), comes after everything stored there (PendingLast); *)
(*   - what a key's store has is, in the order of the timestamps, what the    *)
(*     others that have written the key have put there (Explained).           *)
(* The lemmas go from a lock and a version list to the stores, to the server's *)
(* operations, to one client's steps, to the whole system.                     *)
(*                                                                           *)
(* The types hold for servers that speculate, too, whatever they roll back    *)
(* (Types): the locks stay consistent through every operation and its undoing  *)
(* (LocksOK), and a client counts its answers right (Talks).                    *)
(***************************************************************************)
EXTENDS NiStore, NaturalFacts, SequenceTheorems

-----------------------------------------------------------------------------
(* What a shard's database is like.                                          *)

Vals == Clients \X Nat

Stored == Vals \cup {Loaded}

(* A transaction that is running or prepared.                                *)
TxnOK(t, K) ==
  /\ DOMAIN t = {"reads", "writes"}
  /\ DOMAIN t.reads \subseteq K /\ DOMAIN t.writes \subseteq K
  /\ \A key \in DOMAIN t.writes :
       t.writes[key] \in Seq(Vals) /\ t.writes[key] # << >>

TxnsOK(db, K) ==
  /\ DOMAIN db.store = K
  /\ DOMAIN db.running \subseteq Clients /\ DOMAIN db.prepared \subseteq Clients
  /\ \A c \in DOMAIN db.running : TxnOK(db.running[c], K)
  /\ \A c \in DOMAIN db.prepared : TxnOK(db.prepared[c], K)

(* The locks of a set of transactions, with a queue of any length.           *)
Waiters(ids) == Seq([id : ids, write : BOOLEAN])

Locks(ids) ==
  [state : {"UNLOCKED", "READ", "WRITE", "READ_WRITE"}, holders : SUBSET ids,
   waitQ : Waiters(ids)]

Writing == {"WRITE", "READ_WRITE"}

(* A transaction of c holds the lock of what it has read or written, and     *)
(* holds it for writing when it has written.                                  *)
Claims(l, c, t, key) ==
  /\ key \in DOMAIN t.reads \cup DOMAIN t.writes => c \in l.holders
  /\ key \in DOMAIN t.writes => l.state \in Writing

LockDbOK(db, K) ==
  /\ DOMAIN db = {"store", "locks", "running", "prepared", "retired"}
  /\ TxnsOK(db, K)
  /\ DOMAIN db.locks = K
  /\ \A key \in K :
       /\ db.store[key] \in Seq(Stored) /\ db.store[key] # << >>
       /\ db.locks[key] \in Locks(Clients) /\ Lock!LockOK(db.locks[key])
       /\ \A c \in DOMAIN db.running : Claims(db.locks[key], c, db.running[c], key)
       /\ \A c \in DOMAIN db.prepared : Claims(db.locks[key], c, db.prepared[c], key)

HasVersion(versions, time) == \E n \in DOMAIN versions : versions[n].ts = time

Versions == [ts : Nat, value : Stored]

VersionsOK(versions) ==
  /\ versions \in Seq(Versions) /\ versions # << >>
  /\ \A m, n \in DOMAIN versions : m < n => versions[n].ts < versions[m].ts

ReadsOK(db, t) ==
  \A key \in DOMAIN t.reads :
    /\ DOMAIN t.reads[key] = {"ts", "count"} /\ t.reads[key].ts \in Nat
    /\ HasVersion(db.store[key], t.reads[key].ts)

(* t has written nothing that u has read or written.                         *)
WritesApart(t, u) ==
  DOMAIN t.writes \cap (DOMAIN u.reads \cup DOMAIN u.writes) = {}

UpToDate(db, t) ==
  \A key \in DOMAIN t.reads : t.reads[key].ts = db.store[key][1].ts

OCCDbOK(db, K) ==
  /\ DOMAIN db = {"store", "running", "prepared", "retired"}
  /\ TxnsOK(db, K)
  /\ \A key \in K : VersionsOK(db.store[key])
  /\ \A c \in DOMAIN db.running : ReadsOK(db, db.running[c])
  /\ \A c \in DOMAIN db.prepared :
       /\ ReadsOK(db, db.prepared[c]) /\ UpToDate(db, db.prepared[c])
       /\ \A d \in DOMAIN db.prepared \ {c} :
            WritesApart(db.prepared[c], db.prepared[d])

DbOK(db, K) == IF Locking THEN LockDbOK(db, K) ELSE OCCDbOK(db, K)

(* What a transaction has been told, or would be told now, of a key that it  *)
(* has read; and what one that reads it for the first time would be.          *)
ReadOf(db, t, key) ==
  IF Locking THEN Last(db.store[key])
  ELSE OCC!ValidAt(db, key, t.reads[key].ts).value

Current(db, key) ==
  IF Locking THEN Last(db.store[key]) ELSE db.store[key][1].value

-----------------------------------------------------------------------------
(* What a client and a shard know of each other: s is the client's state, C  *)
(* are its requests that are not answered, A the answers on their way to it.  *)

MyCalls(c) == {r \in calls : r.txnid = c}

MyAnswers(c) == {a \in replies : a.req.txnid = c}

UnexecutedAt(C, A, i) == \E r \in C : r.shard = i /\ \A a \in A : a.req # r

Waiting(C) == {r.shard : r \in C}

Voted(A, i) == \E a \in A : a.req.shard = i /\ a.status >= 0

(* The shard has the transaction of c running, or it has it prepared.        *)
ToRun(s, C, A, i) ==
  \/ s.pc \in {"open", "GET", "PUT"} /\ i \in s.all_participants
  \/ s.pc = "BEGIN" /\ i \in s.all_participants /\ ~UnexecutedAt(C, A, i)
  \/ s.pc = "PREPARE" /\ UnexecutedAt(C, A, i)

IsPrepared(s, C, A, i) ==
  \/ s.pc = "PREPARE" /\ (i \in s.yes_participants \/ Voted(A, i))
  \/ s.pc = "TSS" /\ i \in s.all_participants
  \/ s.pc \in {"COMMIT", "ABORT"} /\ UnexecutedAt(C, A, i)

(* What the transaction has read and written, with the answer on its way.    *)
NewReads(s, A) ==
  {[key |-> a.req.arg0, value |-> a.value, own |-> Own(s, a.req.arg0)] :
     a \in {b \in A : b.req.op = "GET" /\ b.status >= 0}}

ReadsOf(s, A) == s.reads \cup NewReads(s, A)

NewPuts(A) == {a \in A : a.req.op = "PUT" /\ a.status >= 0}

PutKeys(s, A) == DOMAIN s.puts \cup {a.req.arg0 : a \in NewPuts(A)}

PutOf(s, A, key) ==
  IF \E a \in NewPuts(A) : a.req.arg0 = key
  THEN (CHOOSE a \in NewPuts(A) : a.req.arg0 = key).req.arg1 ELSE s.puts[key]

(* The shard's record of the transaction is the client's.                    *)
Linked(i, s, A, db, t) ==
  /\ \A key \in KeysOf(i) :
       /\ key \in DOMAIN t.writes <=> key \in PutKeys(s, A)
       /\ key \in DOMAIN t.writes => Last(t.writes[key]) = PutOf(s, A, key)
  /\ \A rd \in ReadsOf(s, A) : rd.key \in KeysOf(i) /\ rd.own = NoValue =>
       rd.key \in DOMAIN t.reads /\ rd.value = ReadOf(db, t, rd.key)

ShardInv(c, i, s, C, A, db) ==
  /\ ToRun(s, C, A, i) =>
       c \in DOMAIN db.running /\ Linked(i, s, A, db, db.running[c])
  /\ c \in DOMAIN db.prepared <=> IsPrepared(s, C, A, i)
  /\ c \in DOMAIN db.prepared =>
       c \notin DOMAIN db.running /\ Linked(i, s, A, db, db.prepared[c])

(* A request that is not answered belongs to what the client is waiting for. *)
Ops == {"BEGIN", "GET", "PUT", "PREPARE", "COMMIT", "ABORT"}

OperationOK(op, key, value) ==
  /\ op \in {"GET", "PUT"} /\ key \in Keys
  /\ op = "PUT" => value \in Vals

RequestOK(c, s, r) ==
  /\ r.txnid = c /\ r.shard \in s.all_participants
  /\ r.op = s.pc /\ r.op \in Ops
  /\ r.op \in {"GET", "PUT"} =>
       OperationOK(r.op, r.arg0, r.arg1) /\ r.shard = key_to_shard(r.arg0)
  /\ r.op = "BEGIN" =>
       /\ OperationOK(s.next.op, s.next.arg0, s.next.arg1)
       /\ r.shard = key_to_shard(s.next.arg0)
       /\ \A key \in DOMAIN s.puts : key_to_shard(key) # r.shard
       /\ \A rd \in s.reads : key_to_shard(rd.key) # r.shard
  /\ r.op = "ABORT" => r.shard \in s.yes_participants

Pcs == {"idle", "open", "TSS"} \cup Ops

ClientFields ==
  {"pc", "txns", "ops", "sent", "next", "all_participants", "yes_participants",
   "nreplies", "status", "reads", "puts"}

ClientTyped(s) ==
  /\ DOMAIN s = ClientFields
  /\ s.pc \in Pcs
  /\ s.txns \in Nat /\ s.sent \in Nat /\ s.nreplies \in Nat
  /\ s.all_participants \subseteq Shards
  /\ s.yes_participants \subseteq s.all_participants

DataOK(s, A) ==
  /\ \A key \in PutKeys(s, A) :
       /\ key \in Keys /\ key_to_shard(key) \in s.all_participants
       /\ PutOf(s, A, key) \in Vals
  /\ \A rd \in ReadsOf(s, A) :
       /\ rd.key \in Keys /\ key_to_shard(rd.key) \in s.all_participants
       /\ rd.own # NoValue => rd.value = rd.own

CallsOK(c, s, C) ==
  /\ \A r \in C : RequestOK(c, s, r)
  /\ \A r, q \in C : r.shard = q.shard \/ s.pc \in {"BEGIN", "GET", "PUT"} => r = q

AnswersOK(C, A) ==
  /\ \A a \in A : a.req \in C /\ a.status \in Int
  /\ \A a, b \in A : a.req = b.req => a = b

(* The client counts the answers of a phase.                                 *)
VotesOK(s, C) ==
  /\ s.pc \in {"open", "BEGIN", "GET", "PUT"} => s.yes_participants = {}
  /\ s.pc = "PREPARE" =>
       /\ s.nreplies = Cardinality(s.all_participants \ Waiting(C))
       /\ s.yes_participants \cap Waiting(C) = {}
       /\ s.status => s.yes_participants = s.all_participants \ Waiting(C)
  /\ s.pc = "COMMIT" => s.nreplies = Cardinality(s.all_participants \ Waiting(C))
  /\ s.pc = "ABORT" => s.nreplies = Cardinality(s.yes_participants \ Waiting(C))

ClientInv(c, s, C, A) ==
  ClientTyped(s) /\ DataOK(s, A) /\ CallsOK(c, s, C) /\ AnswersOK(C, A)
  /\ VotesOK(s, C)

-----------------------------------------------------------------------------
(* The transactions that are to commit.                                      *)

(* One whose commit the shard has not executed.                              *)
PendingOf(s, C, A, i, txn) ==
  s.pc = "COMMIT" /\ s.txns = txn /\ UnexecutedAt(C, A, i)

Pending(h, i) ==
  PendingOf(client[h.client], MyCalls(h.client), MyAnswers(h.client), i, h.txn)

(* A store's values of a key are what the transactions by have written.      *)
StoreIs(values, key, by) ==
  /\ Len(values) = Len(by) + 1
  /\ IF Locking
     THEN /\ values[1] = Loaded
          /\ \A k \in 1 .. Len(by) : values[k + 1] = by[k].writes[key]
     ELSE /\ values[Len(by) + 1] = [ts |-> 0, value |-> Loaded]
          /\ \A k \in 1 .. Len(by) :
               values[Len(by) + 1 - k] =
                 [ts |-> by[k].ts, value |-> by[k].writes[key]]

Explains(by, key) ==
  LET i == key_to_shard(key) IN
  /\ by \in Seq(history)
  /\ \A m, n \in DOMAIN by : m < n => by[m].ts < by[n].ts
  /\ \A h \in history :
       key \in DOMAIN h.writes /\ ~Pending(h, i) <=> \E n \in DOMAIN by : by[n] = h
  /\ StoreIs(shard[i].db.store[key], key, by)

HistoryTyped ==
  /\ ts \in Nat
  /\ \A h \in history :
       /\ h.client \in Clients /\ h.ts \in 1 .. ts /\ h.txn \in Nat
       /\ DOMAIN h.writes \subseteq Keys
       /\ \A key \in DOMAIN h.writes : h.writes[key] \in Vals
       /\ \A rd \in h.reads : rd.key \in Keys
  /\ \A h, g \in history :
       h.ts = g.ts \/ (h.client = g.client /\ h.txn = g.txn) => h = g

(* The transaction a client has in history is the last one it has decided.   *)
Decided(s, txn) ==
  txn <= s.txns /\ (txn = s.txns => s.pc \in {"COMMIT", "idle"})

HistoryFits ==
  /\ \A h \in history : Decided(client[h.client], h.txn)
  /\ \A c \in Clients : client[c].pc = "COMMIT" =>
       \E h \in history :
         /\ h.client = c /\ h.txn = client[c].txns /\ h.writes = client[c].puts
         /\ \A r \in MyCalls(c) : r.arg0 = h.ts

PendingLast ==
  \A h, g \in history : \A key \in DOMAIN h.writes \cap DOMAIN g.writes :
    Pending(h, key_to_shard(key)) /\ g # h => g.ts < h.ts

Explained == \A key \in Keys : \E by \in Seq(history) : Explains(by, key)

Clean ==
  /\ DOMAIN client = Clients /\ DOMAIN shard = Shards
  /\ \A r \in calls : r.txnid \in Clients
  /\ \A a \in replies : a.req \in calls
  /\ \A i \in Shards : /\ DOMAIN shard[i] = {"db", "log", "opnum"}
                       /\ DbOK(shard[i].db, KeysOf(i)) /\ shard[i].log = << >>

Locals ==
  \A c \in Clients :
    /\ ClientInv(c, client[c], MyCalls(c), MyAnswers(c))
    /\ \A i \in Shards :
         ShardInv(c, i, client[c], MyCalls(c), MyAnswers(c), shard[i].db)

Inv ==
  /\ Clean /\ Locals
  /\ HistoryTyped /\ HistoryFits /\ PendingLast /\ Explained
  /\ Serializable

(* l with another queue.                                                      *)
Requeued(l, p, ids) ==
  /\ p \in Locks(ids) /\ p.state = l.state /\ p.holders = l.holders

(* What is left when a requester has been refused, or has got the lock.      *)
Refused(l, a, ids) == ~a.granted /\ Requeued(l, a.lock, ids)

Granted(l, a, id, ids) ==
  /\ a.granted /\ a.lock \in Locks(ids) /\ Lock!LockOK(a.lock)
  /\ a.lock.holders = l.holders \cup {id}
  /\ l.state \in Writing => a.lock.state \in Writing

-----------------------------------------------------------------------------
(* The queue.                                                                 *)

(* To take the first waiter off changes the queue only.                      *)
LEMMA TailTyped ==
  ASSUME NEW ids, NEW l \in Locks(ids), l.waitQ # << >>
  PROVE  Requeued(l, [l EXCEPT !.waitQ = Tail(@)], ids)
<1>1. Tail(l.waitQ) \in Waiters(ids)
  BY HeadTailProperties DEF Locks, Waiters
<1>. QED  BY <1>1 DEF Locks, Requeued

(* To wait for a lock changes its queue only (waitForLock).                   *)
LEMMA WaitTyped ==
  ASSUME NEW ids, NEW l \in Locks(ids), NEW id \in ids, NEW write \in BOOLEAN
  PROVE  Requeued(l, Lock!waitForLock(l, id, write), ids)
<1>1. Append(l.waitQ, [id |-> id, write |-> write]) \in Waiters(ids)
  BY AppendProperties DEF Locks, Waiters
<1>. QED  BY <1>1 DEF Locks, Requeued, Lock!waitForLock

(* So do waiters who have waited for too long (Waiter::checkTimeout).         *)
LEMMA PrunedTyped ==
  ASSUME NEW ids, NEW l \in Locks(ids), NEW p \in Lock!Pruned(l)
  PROVE  Requeued(l, p, ids)
<1>1. PICK i \in 1 .. Len(l.waitQ) + 1 :
        p = [l EXCEPT !.waitQ = SubSeq(@, i, Len(@))]
  BY DEF Lock!Pruned
<1>2. SubSeq(l.waitQ, i, Len(l.waitQ)) \in Waiters(ids)
  <2>1. l.waitQ \in Seq([id : ids, write : BOOLEAN])  BY DEF Locks, Waiters
  <2>2. /\ i \in Int /\ Len(l.waitQ) \in Int
        /\ \A k \in i .. Len(l.waitQ) : l.waitQ[k] \in [id : ids, write : BOOLEAN]
    <3>1. Len(l.waitQ) \in Nat /\ DOMAIN l.waitQ = 1 .. Len(l.waitQ)
      BY <2>1, LenProperties
    <3>2. \A k \in 1 .. Len(l.waitQ) : l.waitQ[k] \in [id : ids, write : BOOLEAN]
      BY <2>1, ElementOfSeq
    <3>. QED  BY <3>1, <3>2
  <2>. QED  BY <2>2, SubSeqProperties, Zenon DEF Waiters
<1>. QED  BY <1>1, <1>2 DEF Locks, Requeued

(* An attempt at a free lock grants nothing but a queue of one less.         *)
LEMMA TryAcquire ==
  ASSUME NEW ids, NEW l \in Locks(ids), NEW id \in ids, NEW write \in BOOLEAN,
         NEW a \in Lock!tryAcquireLock(l, id, write)
  PROVE  Requeued(l, a.lock, ids) /\ a.granted \in BOOLEAN
<1>1. PICK p \in Lock!Pruned(l) :
        a = IF p.waitQ = << >> THEN Lock!Attempt(p, TRUE)
            ELSE IF Head(p.waitQ).id = id
            THEN Lock!Attempt([p EXCEPT !.waitQ = Tail(@)], TRUE)
            ELSE Lock!Attempt(Lock!waitForLock(p, id, write), FALSE)
  BY DEF Lock!tryAcquireLock
<1>2. Requeued(l, p, ids)  BY PrunedTyped
<1>3. p \in Locks(ids)  BY <1>2 DEF Requeued
<1>4. CASE p.waitQ = << >>
  BY <1>1, <1>2, <1>4 DEF Lock!Attempt
<1>5. CASE p.waitQ # << >> /\ Head(p.waitQ).id = id
  <2>1. Requeued(p, [p EXCEPT !.waitQ = Tail(@)], ids)
    BY <1>3, <1>5, TailTyped
  <2>. QED  BY <1>1, <1>2, <1>5, <2>1 DEF Lock!Attempt, Requeued
<1>6. CASE p.waitQ # << >> /\ Head(p.waitQ).id # id
  <2>1. Requeued(p, Lock!waitForLock(p, id, write), ids)
    BY <1>3, WaitTyped
  <2>. QED  BY <1>1, <1>2, <1>6, <2>1 DEF Lock!Attempt, Requeued
<1>. QED  BY <1>4, <1>5, <1>6

(* Who takes a free lock is its only holder.                                 *)
LEMMA TakenAlone ==
  ASSUME NEW ids, NEW l \in Locks(ids), l.holders = {},
         l.state = "UNLOCKED", NEW id \in ids, NEW write \in BOOLEAN, NEW state \in {"READ", "WRITE"},
         NEW a \in Lock!Taken(Lock!tryAcquireLock(l, id, write), state, id)
  PROVE  \/ Refused(l, a, ids)
         \/ Granted(l, a, id, ids) /\ a.lock.state = state
<1>1. PICK b \in Lock!tryAcquireLock(l, id, write) :
        a = IF b.granted
            THEN Lock!Attempt([b.lock EXCEPT !.state = state,
                                        !.holders = @ \cup {id}], TRUE)
            ELSE b
  BY DEF Lock!Taken
<1>2. Requeued(l, b.lock, ids) /\ b.granted \in BOOLEAN  BY TryAcquire
<1>3. CASE b.granted
  <2>1. /\ a.granted
        /\ a.lock = [b.lock EXCEPT !.state = state, !.holders = @ \cup {id}]
    BY <1>1, <1>3 DEF Lock!Attempt
  <2>2. b.lock \in Locks(ids) /\ b.lock.holders = {}
    BY <1>2 DEF Requeued
  <2>3. a.lock = [state |-> state, holders |-> {id}, waitQ |-> b.lock.waitQ]
    BY <2>1, <2>2 DEF Locks
  <2>4. a.lock \in Locks(ids) /\ a.lock.holders = {id} /\ a.lock.state = state
    BY <2>2, <2>3 DEF Locks
  <2>. QED  BY <2>1, <2>4 DEF Granted, Lock!LockOK, Writing
<1>4. CASE ~b.granted
  BY <1>1, <1>2, <1>4 DEF Refused
<1>. QED  BY <1>2, <1>3, <1>4

-----------------------------------------------------------------------------
(* The operations.                                                            *)

(* A read lock is given with a consistent lock that the holders so far keep; *)
(* who is refused has only queued up (LockServer::lockForRead).               *)
THEOREM ReadLockSound ==
  ASSUME NEW ids, NEW l \in Locks(ids), Lock!LockOK(l), NEW id \in ids,
         NEW a \in Lock!lockForRead(l, id)
  PROVE  Refused(l, a, ids) \/ Granted(l, a, id, ids)
<1>1. CASE l.state = "UNLOCKED"
  <2>1. a \in Lock!Taken(Lock!tryAcquireLock(l, id, FALSE), "READ", id)
    BY <1>1 DEF Lock!lockForRead
  <2>2. l.holders = {}  BY <1>1 DEF Lock!LockOK
  <2>. QED  BY <1>1, <2>1, <2>2, TakenAlone
<1>2. CASE l.state = "READ" /\ id \in l.holders
  <2>1. a = Lock!Attempt(l, TRUE)  BY <1>2 DEF Lock!lockForRead
  <2>. QED  BY <1>2, <2>1 DEF Lock!Attempt, Granted
<1>3. CASE l.state = "READ" /\ id \notin l.holders
  <2>1. PICK p \in Lock!Pruned(l) :
          a = IF Lock!isWriteNext(p) THEN Lock!Attempt(Lock!waitForLock(p, id, FALSE), FALSE)
              ELSE Lock!Attempt([p EXCEPT !.holders = @ \cup {id}], TRUE)
    BY <1>3 DEF Lock!lockForRead
  <2>2. Requeued(l, p, ids)  BY PrunedTyped
  <2>3. Requeued(p, Lock!waitForLock(p, id, FALSE), ids)
    BY <2>2, WaitTyped DEF Requeued
  <2>4. CASE Lock!isWriteNext(p)
    BY <2>1, <2>2, <2>3, <2>4 DEF Lock!Attempt, Refused, Requeued
  <2>5. CASE ~Lock!isWriteNext(p)
    <3>1. a.granted /\ a.lock = [p EXCEPT !.holders = @ \cup {id}]
      BY <2>1, <2>5 DEF Lock!Attempt
    <3>2. /\ a.lock \in Locks(ids) /\ a.lock.state = "READ"
          /\ a.lock.holders = l.holders \cup {id}
      BY <1>3, <2>2, <3>1 DEF Requeued, Locks
    <3>. QED  BY <1>3, <3>1, <3>2 DEF Granted, Lock!LockOK, Writing
  <2>. QED  BY <2>4, <2>5
<1>4. CASE l.state \in {"WRITE", "READ_WRITE"}
  <2>1. a = IF id \in l.holders
            THEN Lock!Attempt([l EXCEPT !.state = "READ_WRITE"], TRUE)
            ELSE Lock!Attempt(Lock!waitForLock(l, id, FALSE), FALSE)
    BY <1>4 DEF Lock!lockForRead
  <2>2. CASE id \in l.holders
    BY <1>4, <2>1, <2>2 DEF Lock!Attempt, Granted, Locks, Lock!LockOK, Writing
  <2>3. CASE id \notin l.holders
    BY <2>1, <2>3, WaitTyped DEF Lock!Attempt, Refused
  <2>. QED  BY <2>2, <2>3
<1>. QED  BY <1>1, <1>2, <1>3, <1>4 DEF Locks

(* A write lock is given to nobody but the one who holds it alone; who is    *)
(* refused has only queued up (LockServer::lockForWrite).                     *)
THEOREM WriteLockSound ==
  ASSUME NEW ids, NEW l \in Locks(ids), Lock!LockOK(l), NEW id \in ids,
         NEW a \in Lock!lockForWrite(l, id)
  PROVE  \/ Refused(l, a, ids)
         \/ /\ Granted(l, a, id, ids)
            /\ a.lock.holders = {id} /\ a.lock.state \in {"WRITE", "READ_WRITE"}
<1>1. CASE l.state = "UNLOCKED"
  <2>1. a \in Lock!Taken(Lock!tryAcquireLock(l, id, TRUE), "WRITE", id)
    BY <1>1 DEF Lock!lockForWrite
  <2>2. l.holders = {}  BY <1>1 DEF Lock!LockOK
  <2>3. \/ Refused(l, a, ids)
        \/ Granted(l, a, id, ids) /\ a.lock.state = "WRITE"
    BY <1>1, <2>1, <2>2, TakenAlone
  <2>. QED  BY <2>2, <2>3 DEF Granted
<1>2. CASE l.state = "READ"
  <2>1. a = IF l.holders = {id} THEN Lock!Attempt([l EXCEPT !.state = "READ_WRITE"], TRUE)
            ELSE Lock!Attempt(Lock!waitForLock(l, id, TRUE), FALSE)
    BY <1>2 DEF Lock!lockForWrite
  <2>2. CASE l.holders = {id}
    BY <2>1, <2>2 DEF Lock!Attempt, Granted, Locks, Lock!LockOK, Writing
  <2>3. CASE l.holders # {id}
    BY <2>1, <2>3, WaitTyped DEF Lock!Attempt, Refused
  <2>. QED  BY <2>2, <2>3
<1>3. CASE l.state \in {"WRITE", "READ_WRITE"}
  <2>1. a = IF id \in l.holders THEN Lock!Attempt(l, TRUE)
            ELSE Lock!Attempt(Lock!waitForLock(l, id, TRUE), FALSE)
    BY <1>3 DEF Lock!lockForWrite
  <2>2. CASE id \in l.holders
    BY <1>3, <2>1, <2>2 DEF Lock!Attempt, Granted, Lock!LockOK
  <2>3. CASE id \notin l.holders
    BY <2>1, <2>3, WaitTyped DEF Lock!Attempt, Refused
  <2>. QED  BY <2>2, <2>3
<1>. QED  BY <1>1, <1>2, <1>3 DEF Locks

(* A release leaves a consistent lock, takes it from no one but the one who  *)
(* releases it, and queues nobody (releaseForRead, releaseForWrite).          *)
THEOREM ReleaseSound ==
  ASSUME NEW ids, NEW l \in Locks(ids), Lock!LockOK(l), NEW id,
         NEW free \in {Lock!releaseForRead(l, id), Lock!releaseForWrite(l, id)}
  PROVE  /\ free \in Locks(ids) /\ Lock!LockOK(free) /\ free.waitQ = l.waitQ
         /\ l.holders \ {id} \subseteq free.holders
         /\ id \notin l.holders => free = l
<1>. id \notin l.holders => free = l
  BY DEF Lock!releaseForRead, Lock!releaseForWrite
<1>1. \/ free = l
      \/ id \in l.holders /\ l.state \in {"READ", "WRITE"} /\ free = Lock!Left(l, id)
      \/ /\ l.state = "READ_WRITE"
         /\ \E s \in {"READ", "WRITE"} : free = [l EXCEPT !.state = s]
  BY DEF Lock!releaseForRead, Lock!releaseForWrite
<1>2. CASE free = l  BY <1>2
<1>3. CASE id \in l.holders /\ l.state \in {"READ", "WRITE"} /\ free = Lock!Left(l, id)
  <2>1. free = [state |-> IF l.holders = {id} THEN "UNLOCKED" ELSE l.state,
                holders |-> l.holders \ {id}, waitQ |-> l.waitQ]
    BY <1>3 DEF Lock!Left, Locks
  <2>2. free \in Locks(ids)  BY <2>1 DEF Locks
  <2>3. Lock!LockOK(free)  BY <1>3, <2>1 DEF Lock!LockOK
  <2>. QED  BY <2>1, <2>2, <2>3
<1>4. CASE /\ l.state = "READ_WRITE"
           /\ \E s \in {"READ", "WRITE"} : free = [l EXCEPT !.state = s]
  BY <1>4 DEF Locks, Lock!LockOK
<1>. QED  BY <1>1, <1>2, <1>3, <1>4

(* The stores' own copies of the operators they share.                       *)
LEMMA SameOperators ==
  ASSUME NEW f, NEW x, NEW v
  PROVE  /\ Lock!With(f, x, v) = With(f, x, v) /\ OCC!With(f, x, v) = With(f, x, v)
         /\ Lock!Overridden(f, x) = Overridden(f, x)
         /\ OCC!Overridden(f, x) = Overridden(f, x)
         /\ Lock!Without(f, x) = Without(f, x) /\ OCC!Without(f, x) = Without(f, x)
         /\ Lock!Last(f) = Last(f) /\ OCC!Last(f) = Last(f)
BY DEF Lock!With, OCC!With, With, Lock!Overridden, OCC!Overridden, Overridden,
       Lock!Without, OCC!Without, Without, Lock!Last, OCC!Last, Last

(* What is written is a value.                                               *)
LEMMA LastIs ==
  ASSUME NEW S, NEW s \in Seq(S), s # << >>
  PROVE  /\ Len(s) \in Nat \ {0} /\ DOMAIN s = 1 .. Len(s) /\ Last(s) = s[Len(s)]
         /\ Last(s) \in S
<1>1. Len(s) \in Nat /\ DOMAIN s = 1 .. Len(s) /\ Len(s) # 0
  BY LenProperties, EmptySeq
<1>2. s[Len(s)] \in S
  BY <1>1, ElementOfSeq
<1>. QED BY <1>1, <1>2 DEF Last

LEMMA LastOfAppend ==
  ASSUME NEW S, NEW s \in Seq(S), NEW e \in S
  PROVE  /\ Append(s, e) \in Seq(S) /\ Append(s, e) # << >>
         /\ Last(Append(s, e)) = e
<1>1. Append(s, e) \in Seq(S) /\ Len(Append(s, e)) = Len(s) + 1
      /\ Append(s, e)[Len(s) + 1] = e /\ Len(s) \in Nat
  BY AppendProperties, LenProperties
<1>2. Append(s, e) # << >>
  BY <1>1
<1>. QED BY <1>1, <1>2 DEF Last

(* d is db with c's transaction, running, as t.                              *)
RunningIs(d, db, c, t) ==
  /\ DOMAIN d = DOMAIN db /\ d.store = db.store /\ d.prepared = db.prepared
  /\ DOMAIN d.running = DOMAIN db.running \cup {c} /\ d.running[c] = t
  /\ \A e \in DOMAIN db.running \ {c} : d.running[e] = db.running[e]

LEMMA RunsIs ==
  ASSUME NEW db, {"store", "running", "prepared"} \subseteq DOMAIN db,
         NEW c, NEW t
  PROVE  /\ RunningIs(Runs(db, c, t), db, c, t)
         /\ "locks" \in DOMAIN db => Runs(db, c, t).locks = db.locks
         /\ Lock!Runs(db, c, t) = Runs(db, c, t) /\ OCC!Runs(db, c, t) = Runs(db, c, t)
<1>1. /\ Runs(db, c, t) = [db EXCEPT !.running = With(db.running, c, t)]
      /\ Lock!Runs(db, c, t) = Runs(db, c, t) /\ OCC!Runs(db, c, t) = Runs(db, c, t)
  BY SameOperators DEF Runs, Lock!Runs, OCC!Runs
<1>2. /\ DOMAIN Runs(db, c, t) = DOMAIN db
      /\ Runs(db, c, t).running = With(db.running, c, t)
      /\ Runs(db, c, t).store = db.store /\ Runs(db, c, t).prepared = db.prepared
      /\ "locks" \in DOMAIN db => Runs(db, c, t).locks = db.locks
  BY <1>1
<1>3. /\ DOMAIN With(db.running, c, t) = DOMAIN db.running \cup {c}
      /\ With(db.running, c, t)[c] = t
      /\ \A e \in DOMAIN db.running \ {c} : With(db.running, c, t)[e] = db.running[e]
  BY DEF With, Overridden
<1>. QED BY <1>1, <1>2, <1>3 DEF RunningIs

(* A transaction with its first operation, or with more of them, is one.     *)
LEMMA NewTxnOK ==
  ASSUME NEW K
  PROVE  TxnOK(NewTxn, K) /\ DOMAIN NewTxn.reads = {} /\ DOMAIN NewTxn.writes = {}
BY DEF TxnOK, NewTxn

-----------------------------------------------------------------------------
(* The store with locks.                                                     *)

(* The lock is not taken from those who have it but c.                       *)
KeepsOthers(l, m, c) ==
  \A e \in l.holders \ {c} :
    e \in m.holders /\ (l.state \in Writing => m.state \in Writing)

LEMMA KeepsClaims ==
  ASSUME NEW l, NEW m, NEW c, KeepsOthers(l, m, c), NEW e, e # c, NEW t, NEW key,
         Claims(l, e, t, key)
  PROVE  Claims(m, e, t, key)
BY DEF KeepsOthers, Claims

(* An operation of c on a database of locks.                                 *)
LEMMA LockRunning ==
  ASSUME NEW K, NEW db, LockDbOK(db, K), NEW c \in Clients,
         c \notin DOMAIN db.prepared, NEW t, TxnOK(t, K),
         NEW d, RunningIs(d, db, c, t), DOMAIN d.locks = K,
         \A k \in K : /\ d.locks[k] \in Locks(Clients) /\ Lock!LockOK(d.locks[k])
                      /\ KeepsOthers(db.locks[k], d.locks[k], c)
                      /\ Claims(d.locks[k], c, t, k)
  PROVE  LockDbOK(d, K)
<1>1. DOMAIN d = {"store", "locks", "running", "prepared", "retired"}
  BY DEF LockDbOK, RunningIs
<1>2. TxnsOK(d, K)
  BY DEF LockDbOK, TxnsOK, RunningIs
<1>3. ASSUME NEW k \in K, NEW e \in DOMAIN d.running
      PROVE  Claims(d.locks[k], e, d.running[e], k)
  <2>1. CASE e = c
    BY <2>1 DEF RunningIs
  <2>2. CASE e # c
    <3>1. e \in DOMAIN db.running /\ d.running[e] = db.running[e]
      BY <2>2 DEF RunningIs
    <3>2. Claims(db.locks[k], e, db.running[e], k)
      BY <3>1 DEF LockDbOK
    <3>. QED BY <2>2, <3>1, <3>2, KeepsClaims
  <2>. QED BY <2>1, <2>2
<1>4. ASSUME NEW k \in K, NEW e \in DOMAIN d.prepared
      PROVE  Claims(d.locks[k], e, d.prepared[e], k)
  <2>1. e \in DOMAIN db.prepared /\ d.prepared[e] = db.prepared[e] /\ e # c
    BY DEF RunningIs
  <2>2. Claims(db.locks[k], e, db.prepared[e], k)
    BY <2>1 DEF LockDbOK
  <2>. QED BY <2>1, <2>2, KeepsClaims
<1>5. \A k \in K : d.store[k] \in Seq(Stored) /\ d.store[k] # << >>
  BY DEF LockDbOK, RunningIs
<1>. QED BY <1>1, <1>2, <1>3, <1>4, <1>5 DEF LockDbOK

(* An attempt at a lock, granted or refused, keeps the others'.              *)
LEMMA AttemptKeeps ==
  ASSUME NEW l \in Locks(Clients), Lock!LockOK(l), NEW c \in Clients,
         NEW a \in Lock!lockForRead(l, c) \cup Lock!lockForWrite(l, c)
  PROVE  /\ a.lock \in Locks(Clients) /\ Lock!LockOK(a.lock)
         /\ KeepsOthers(l, a.lock, c)
         /\ \A t, key : Claims(l, c, t, key) => Claims(a.lock, c, t, key)
         /\ a.granted => c \in a.lock.holders
         /\ a.granted /\ a \in Lock!lockForWrite(l, c) => a.lock.state \in Writing
<1>1. CASE a \in Lock!lockForWrite(l, c)
  <2>1. \/ Refused(l, a, Clients)
        \/ /\ Granted(l, a, c, Clients)
           /\ a.lock.holders = {c} /\ a.lock.state \in {"WRITE", "READ_WRITE"}
    BY <1>1, WriteLockSound
  <2>. QED BY <2>1, <1>1 DEF Refused, Granted, Requeued, KeepsOthers, Claims,
                       Lock!LockOK, Writing
<1>2. CASE a \in Lock!lockForRead(l, c) /\ a \notin Lock!lockForWrite(l, c)
  <2>1. Refused(l, a, Clients) \/ Granted(l, a, c, Clients)
    BY <1>2, ReadLockSound
  <2>. QED BY <1>2, <2>1 DEF Refused, Granted, Requeued, KeepsOthers, Claims,
                       Lock!LockOK
<1>. QED BY <1>1, <1>2

LEMMA LockDb ==
  ASSUME NEW K, NEW db, LockDbOK(db, K)
  PROVE  /\ {"store", "running", "prepared", "locks", "retired"} = DOMAIN db
         /\ DOMAIN db.store = K /\ DOMAIN db.locks = K
         /\ \A k \in K : /\ db.store[k] \in Seq(Stored) /\ db.store[k] # << >>
                         /\ db.locks[k] \in Locks(Clients)
                         /\ Lock!LockOK(db.locks[k])
         /\ \A c \in DOMAIN db.running :
              TxnOK(db.running[c], K)
              /\ \A k \in K : Claims(db.locks[k], c, db.running[c], k)
         /\ \A c \in DOMAIN db.prepared :
              TxnOK(db.prepared[c], K)
              /\ \A k \in K : Claims(db.locks[k], c, db.prepared[c], k)
BY DEF LockDbOK, TxnsOK

(* d is db with c's transaction as t and another lock of key.                *)
LEMMA LockTried ==
  ASSUME NEW K, NEW db, LockDbOK(db, K), NEW c \in Clients,
         c \notin DOMAIN db.prepared, NEW t, TxnOK(t, K),
         NEW key \in K, NEW l, l \in Locks(Clients), Lock!LockOK(l),
         KeepsOthers(db.locks[key], l, c),
         NEW d, RunningIs(d, db, c, t), d.locks = With(db.locks, key, l),
         \A k \in K \ {key} : Claims(db.locks[k], c, t, k),
         Claims(l, c, t, key)
  PROVE  LockDbOK(d, K)
<1>1. DOMAIN db.locks = K
  BY LockDb
<1>2. /\ DOMAIN d.locks = K /\ d.locks[key] = l
      /\ \A k \in K \ {key} : d.locks[k] = db.locks[k]
  BY <1>1 DEF With, Overridden
<1>3. \A k \in K \ {key} : KeepsOthers(db.locks[k], d.locks[k], c)
  BY <1>2 DEF KeepsOthers
<1>4. \A k \in K : /\ d.locks[k] \in Locks(Clients) /\ Lock!LockOK(d.locks[k])
                   /\ KeepsOthers(db.locks[k], d.locks[k], c)
                   /\ Claims(d.locks[k], c, t, k)
  BY <1>2, <1>3, LockDb
<1>. QED BY <1>2, <1>4, LockRunning

(* With the locks as they are.                                               *)
LEMMA LockSame ==
  ASSUME NEW K, NEW db, LockDbOK(db, K), NEW c \in Clients,
         c \notin DOMAIN db.prepared, NEW t, TxnOK(t, K),
         NEW d, RunningIs(d, db, c, t), d.locks = db.locks,
         \A k \in K : Claims(db.locks[k], c, t, k)
  PROVE  LockDbOK(d, K)
<1>1. \A k \in K : KeepsOthers(db.locks[k], d.locks[k], c)
  BY DEF KeepsOthers
<1>. QED BY <1>1, LockDb, LockRunning

LEMMA LockBegin ==
  ASSUME NEW K, NEW db, LockDbOK(db, K), NEW c \in Clients,
         c \notin DOMAIN db.prepared
  PROVE  LockDbOK(begin(db, c), K) /\ RunningIs(begin(db, c), db, c, NewTxn)
<1>1. /\ RunningIs(begin(db, c), db, c, NewTxn)
      /\ begin(db, c).locks = db.locks
  BY RunsIs, LockDb DEF begin
<1>2. \A k \in K : Claims(db.locks[k], c, NewTxn, k)
  BY NewTxnOK DEF Claims
<1>. QED BY <1>1, <1>2, NewTxnOK, LockSame

(* A read, as either store does it: what of the transaction and what is      *)
(* answered.                                                                  *)
ReadEffect(o, db, c, key) ==
  LET u == db.running[c] IN
  \E t :
    /\ RunningIs(o.db, db, c, t)
    /\ t.writes = u.writes /\ DOMAIN u.reads \subseteq DOMAIN t.reads
    /\ \A k \in DOMAIN u.reads : ReadOf(db, t, k) = ReadOf(db, u, k)
    /\ o.status \in Int
    /\ o.status >= 0 =>
         IF key \in DOMAIN t.writes THEN o.value = Last(t.writes[key])
         ELSE key \in DOMAIN t.reads /\ o.value = ReadOf(db, t, key)

LEMMA LockGet ==
  ASSUME Locking, NEW K, NEW db, LockDbOK(db, K), NEW c \in Clients,
         c \in DOMAIN db.running, c \notin DOMAIN db.prepared,
         NEW key \in K, NEW o \in Lock!get(db, c, key)
  PROVE  LockDbOK(o.db, K) /\ ReadEffect(o, db, c, key)
<1>. DEFINE u == db.running[c]
            run == Runs(db, c, u)
<1>1. /\ TxnOK(u, K) /\ \A k \in K : Claims(db.locks[k], c, u, k)
      /\ DOMAIN db.store = K /\ DOMAIN db.locks = K
      /\ {"store", "running", "prepared", "locks", "retired"} = DOMAIN db
  BY LockDb
<1>2. RunningIs(run, db, c, u) /\ run.locks = db.locks
  BY RunsIs, <1>1
<1>3. Lock!getTxn(db, c) = u /\ Lock!Runs(db, c, u) = run
  BY RunsIs, <1>1 DEF Lock!getTxn
<1>4. \A t, k : ReadOf(db, t, k) = Last(db.store[k])
  BY DEF ReadOf
<1>5. Lock!Has(db, key) /\ Lock!LockOf(db, key) = db.locks[key]
  BY <1>1, LockDb DEF Lock!Has, Lock!LockOf
<1>6. DOMAIN u = {"reads", "writes"} /\ DOMAIN u.reads \subseteq K
      /\ DOMAIN u.writes \subseteq K
  BY <1>1 DEF TxnOK
<1>7. CASE key \in DOMAIN u.writes
  <2>1. o = [db |-> run, status |-> 0, value |-> Last(u.writes[key])]
    BY <1>3, <1>7, SameOperators DEF Lock!get, Lock!Result
  <2>2. LockDbOK(run, K)
    BY <1>1, <1>2, LockSame
  <2>. QED BY <2>1, <2>2, <1>2, <1>7 DEF ReadEffect
<1>8. CASE key \notin DOMAIN u.writes /\ key \in DOMAIN u.reads
  <2>. DEFINE t == [u EXCEPT !.reads[key] = @ + 1]
              d == [run EXCEPT !.running[c].reads[key] = @ + 1]
  <2>1. o = [db |-> d, status |-> 0, value |-> Last(db.store[key])]
    BY <1>3, <1>5, <1>8, SameOperators DEF Lock!get, Lock!Result
  <2>2. RunningIs(d, db, c, t) /\ d.locks = db.locks
    <3>1. run.running[c] = u /\ c \in DOMAIN run.running
          /\ {"store", "running", "prepared", "locks", "retired"} = DOMAIN run
      BY <1>2, <1>1 DEF RunningIs
    <3>2. d = [run EXCEPT !.running = [@ EXCEPT ![c] = t]]
      BY <3>1
    <3>. HIDE DEF run, t
    <3>3. d.running = [run.running EXCEPT ![c] = t] /\ d.locks = run.locks
          /\ d.store = run.store /\ d.prepared = run.prepared /\ DOMAIN d = DOMAIN run
      BY <3>1, <3>2
    <3>. QED BY <3>1, <3>3, <1>2 DEF RunningIs
  <2>3. /\ DOMAIN t = {"reads", "writes"} /\ t.writes = u.writes
        /\ DOMAIN t.reads = DOMAIN u.reads
    BY <1>6
  <2>4. TxnOK(t, K) /\ \A k \in K : Claims(db.locks[k], c, t, k)
    BY <1>1, <2>3 DEF TxnOK, Claims
  <2>. HIDE DEF t, d
  <2>5. LockDbOK(d, K)
    BY <2>2, <2>4, LockSame
  <2>. QED BY <2>1, <2>2, <2>3, <2>5, <1>4, <1>8 DEF ReadEffect
<1>9. CASE key \notin DOMAIN u.writes /\ key \notin DOMAIN u.reads
  <2>. DEFINE tried(a) == [run EXCEPT !.locks = Lock!With(@, key, a.lock)]
  <2>1. PICK a \in Lock!lockForRead(db.locks[key], c) :
          o = IF a.granted
              THEN Lock!Result([tried(a) EXCEPT
                                  !.running[c].reads = Lock!With(@, key, 1)],
                               0, Lock!Last(db.store[key]))
              ELSE Lock!Result(tried(a), -2, NoValue)
    BY <1>3, <1>5, <1>9 DEF Lock!get
  <2>2. /\ a.lock \in Locks(Clients) /\ Lock!LockOK(a.lock)
        /\ KeepsOthers(db.locks[key], a.lock, c)
        /\ \A t : Claims(db.locks[key], c, t, key) => Claims(a.lock, c, t, key)
        /\ a.granted => c \in a.lock.holders
    BY AttemptKeeps, LockDb
  <2>3. {"store", "running", "prepared", "locks", "retired"} = DOMAIN run
        /\ run.running[c] = u /\ c \in DOMAIN run.running
    BY <1>1, <1>2 DEF RunningIs
  <2>. DEFINE e == tried(a)
  <2>4. /\ RunningIs(e, db, c, u) /\ e.locks = With(db.locks, key, a.lock)
        /\ DOMAIN e = DOMAIN run
    <3>1. e = [run EXCEPT !.locks = With(db.locks, key, a.lock)]
      BY <1>2, SameOperators
    <3>2. e.running = run.running /\ e.store = run.store /\ DOMAIN e = DOMAIN run
          /\ e.prepared = run.prepared /\ e.locks = With(db.locks, key, a.lock)
      <4>. HIDE DEF run, e
      <4>. QED BY <2>3, <3>1
    <3>. QED BY <3>2, <1>2 DEF RunningIs
  <2>5. CASE a.granted
    <3>. DEFINE t == [u EXCEPT !.reads = With(@, key, 1)]
                d == [e EXCEPT !.running[c].reads = With(@, key, 1)]
    <3>1. o = [db |-> d, status |-> 0, value |-> Last(db.store[key])]
      BY <2>1, <2>5, SameOperators DEF Lock!Result
    <3>2. /\ DOMAIN t = {"reads", "writes"} /\ t.writes = u.writes
          /\ DOMAIN t.reads = DOMAIN u.reads \cup {key}
      BY <1>6 DEF With, Overridden
    <3>3. RunningIs(d, db, c, t) /\ d.locks = e.locks
      <4>1. e.running[c] = u /\ c \in DOMAIN e.running
        BY <2>4 DEF RunningIs
      <4>2. d = [e EXCEPT !.running = [@ EXCEPT ![c] = t]]
        BY <4>1
      <4>. HIDE DEF e, t
      <4>3. d.running = [e.running EXCEPT ![c] = t] /\ d.locks = e.locks
            /\ d.store = e.store /\ d.prepared = e.prepared /\ DOMAIN d = DOMAIN e
        BY <2>3, <2>4, <4>1, <4>2
      <4>. QED BY <4>1, <4>3, <2>4 DEF RunningIs
    <3>4. TxnOK(t, K) /\ \A k \in K \ {key} : Claims(db.locks[k], c, t, k)
      BY <1>1, <3>2 DEF TxnOK, Claims
    <3>5. Claims(a.lock, c, t, key)
      BY <2>2, <2>5, <1>9, <3>2 DEF Claims
    <3>. HIDE DEF t, d, e
    <3>6. LockDbOK(d, K)
      BY <2>2, <2>4, <3>3, <3>4, <3>5, LockTried
    <3>. QED BY <3>1, <3>2, <3>3, <3>6, <1>4, <1>9 DEF ReadEffect
  <2>6. CASE ~a.granted
    <3>1. o = [db |-> e, status |-> -2, value |-> NoValue]
      BY <2>1, <2>6 DEF Lock!Result
    <3>2. Claims(a.lock, c, u, key) /\ \A k \in K \ {key} : Claims(db.locks[k], c, u, k)
      BY <1>1, <2>2
    <3>. HIDE DEF e
    <3>3. LockDbOK(e, K)
      BY <1>1, <2>2, <2>4, <3>2, LockTried
    <3>. QED BY <3>1, <3>3, <2>4 DEF ReadEffect
  <2>. QED BY <2>5, <2>6
<1>. QED BY <1>7, <1>8, <1>9

(* A write, as either store does it.                                         *)
WriteEffect(o, db, c, key, value) ==
  LET u == db.running[c] IN
  \E t :
    /\ RunningIs(o.db, db, c, t) /\ t.reads = u.reads
    /\ o.status \in Int
    /\ IF o.status >= 0
       THEN /\ DOMAIN t.writes = DOMAIN u.writes \cup {key}
            /\ \A k \in DOMAIN u.writes \ {key} : t.writes[k] = u.writes[k]
            /\ Last(t.writes[key]) = value
       ELSE t.writes = u.writes

(* The transaction with one more value written.                              *)
Wrote(u, key, value) ==
  [u EXCEPT !.writes =
     With(@, key, Append(IF key \in DOMAIN u.writes THEN u.writes[key] ELSE << >>,
                         value))]

LEMMA WroteIs ==
  ASSUME NEW K, NEW u, TxnOK(u, K), NEW key \in K, NEW value \in Vals
  PROVE  /\ TxnOK(Wrote(u, key, value), K) /\ Wrote(u, key, value).reads = u.reads
         /\ DOMAIN Wrote(u, key, value).writes = DOMAIN u.writes \cup {key}
         /\ \A k \in DOMAIN u.writes \ {key} :
              Wrote(u, key, value).writes[k] = u.writes[k]
         /\ Last(Wrote(u, key, value).writes[key]) = value
<1>. DEFINE old == IF key \in DOMAIN u.writes THEN u.writes[key] ELSE << >>
            w == With(u.writes, key, Append(old, value))
            t == Wrote(u, key, value)
<1>1. old \in Seq(Vals)
  BY DEF TxnOK
<1>. HIDE DEF old
<1>2. /\ Append(old, value) \in Seq(Vals) /\ Append(old, value) # << >>
      /\ Last(Append(old, value)) = value
  BY <1>1, LastOfAppend
<1>3. /\ DOMAIN w = DOMAIN u.writes \cup {key} /\ w[key] = Append(old, value)
      /\ \A k \in DOMAIN u.writes \ {key} : w[k] = u.writes[k]
  BY DEF With, Overridden
<1>4. t.writes = w /\ t.reads = u.reads /\ DOMAIN t = {"reads", "writes"}
  BY DEF TxnOK, Wrote, old
<1>. HIDE DEF w, t
<1>5. TxnOK(t, K)
  BY <1>2, <1>3, <1>4 DEF TxnOK
<1>6. /\ TxnOK(t, K) /\ t.reads = u.reads
      /\ DOMAIN t.writes = DOMAIN u.writes \cup {key}
      /\ \A k \in DOMAIN u.writes \ {key} : t.writes[k] = u.writes[k]
      /\ Last(t.writes[key]) = value
  BY <1>2, <1>3, <1>4, <1>5
<1>. QED BY <1>6 DEF t

LEMMA LockPut ==
  ASSUME NEW K, NEW db, LockDbOK(db, K), NEW c \in Clients,
         c \in DOMAIN db.running, c \notin DOMAIN db.prepared,
         NEW key \in K, NEW value \in Vals, NEW o \in Lock!put(db, c, key, value)
  PROVE  LockDbOK(o.db, K) /\ WriteEffect(o, db, c, key, value)
<1>. DEFINE u == db.running[c]
            run == Runs(db, c, u)
            old == IF key \in DOMAIN u.writes THEN u.writes[key] ELSE << >>
            w == With(u.writes, key, Append(old, value))
            tried(a) == [run EXCEPT !.locks = Lock!With(@, key, a.lock)]
<1>1. /\ TxnOK(u, K) /\ \A k \in K : Claims(db.locks[k], c, u, k)
      /\ DOMAIN db.store = K /\ DOMAIN db.locks = K
      /\ {"store", "running", "prepared", "locks", "retired"} = DOMAIN db
  BY LockDb
<1>2. RunningIs(run, db, c, u) /\ run.locks = db.locks
  BY RunsIs, <1>1
<1>3. Lock!getTxn(db, c) = u /\ Lock!Runs(db, c, u) = run
  BY RunsIs, <1>1 DEF Lock!getTxn
<1>5. Lock!LockOf(db, key) = db.locks[key] /\ Lock!Written(u, key) = old
  BY <1>1, LockDb DEF Lock!LockOf, Lock!Written
<1>6. Lock!With(u.writes, key, Append(old, value)) = w
  BY SameOperators
<1>7. PICK a \in Lock!lockForWrite(db.locks[key], c) :
        o = IF a.granted
            THEN Lock!Result([tried(a) EXCEPT !.running[c].writes = w], 0, NoValue)
            ELSE Lock!Result(tried(a), -2, NoValue)
  <2>1. \E a \in Lock!lockForWrite(Lock!LockOf(db, key), c) :
        o = IF a.granted
            THEN Lock!Result([tried(a) EXCEPT !.running[c].writes =
                    Lock!With(u.writes, key, Append(Lock!Written(u, key), value))], 0, NoValue)
            ELSE Lock!Result(tried(a), -2, NoValue)
    BY <1>3 DEF Lock!put
  <2>. HIDE DEF old, w, run
  <2>. QED BY <2>1, <1>5, <1>6
<1>8. /\ a.lock \in Locks(Clients) /\ Lock!LockOK(a.lock)
      /\ KeepsOthers(db.locks[key], a.lock, c)
      /\ \A t : Claims(db.locks[key], c, t, key) => Claims(a.lock, c, t, key)
      /\ a.granted => c \in a.lock.holders /\ a.lock.state \in Writing
  BY AttemptKeeps, LockDb
<1>9. {"store", "running", "prepared", "locks", "retired"} = DOMAIN run
      /\ run.running[c] = u /\ c \in DOMAIN run.running
  BY <1>1, <1>2 DEF RunningIs
<1>. DEFINE e == tried(a)
<1>10. /\ RunningIs(e, db, c, u) /\ e.locks = With(db.locks, key, a.lock)
       /\ DOMAIN e = DOMAIN run
  <2>1. e = [run EXCEPT !.locks = With(db.locks, key, a.lock)]
    BY <1>2, SameOperators
  <2>2. e.running = run.running /\ e.store = run.store /\ DOMAIN e = DOMAIN run
        /\ e.prepared = run.prepared /\ e.locks = With(db.locks, key, a.lock)
    <3>. HIDE DEF run, e
    <3>. QED BY <1>9, <2>1
  <2>. QED BY <2>2, <1>2 DEF RunningIs
<1>11. CASE a.granted
  <2>. DEFINE t == [u EXCEPT !.writes = w]
              d == [e EXCEPT !.running[c].writes = w]
  <2>1. o = [db |-> d, status |-> 0, value |-> NoValue]
    BY <1>7, <1>11 DEF Lock!Result
  <2>2. /\ TxnOK(t, K) /\ t.reads = u.reads
        /\ DOMAIN t.writes = DOMAIN u.writes \cup {key}
        /\ \A k \in DOMAIN u.writes \ {key} : t.writes[k] = u.writes[k]
        /\ Last(t.writes[key]) = value
    <3>1. t = Wrote(u, key, value)
      BY DEF Wrote
    <3>. HIDE DEF t, u
    <3>. QED BY <1>1, <3>1, WroteIs
  <2>3. RunningIs(d, db, c, t) /\ d.locks = e.locks
    <3>1. e.running[c] = u /\ c \in DOMAIN e.running
      BY <1>10 DEF RunningIs
    <3>2. d = [e EXCEPT !.running = [@ EXCEPT ![c] = t]]
      BY <3>1
    <3>. HIDE DEF e, t
    <3>3. d.running = [e.running EXCEPT ![c] = t] /\ d.locks = e.locks
          /\ d.store = e.store /\ d.prepared = e.prepared /\ DOMAIN d = DOMAIN e
      BY <1>9, <1>10, <3>1, <3>2
    <3>. QED BY <3>1, <3>3, <1>10 DEF RunningIs
  <2>4. \A k \in K \ {key} : Claims(db.locks[k], c, t, k)
    BY <1>1, <2>2 DEF Claims
  <2>5. Claims(a.lock, c, t, key)
    BY <1>8, <1>11 DEF Claims
  <2>. HIDE DEF t, d, e
  <2>6. LockDbOK(d, K)
    BY <1>8, <1>10, <2>2, <2>3, <2>4, <2>5, LockTried
  <2>. QED BY <2>1, <2>2, <2>3, <2>6 DEF WriteEffect
<1>12. CASE ~a.granted
  <2>1. o = [db |-> e, status |-> -2, value |-> NoValue]
    BY <1>7, <1>12 DEF Lock!Result
  <2>2. Claims(a.lock, c, u, key) /\ \A k \in K \ {key} : Claims(db.locks[k], c, u, k)
    BY <1>1, <1>8
  <2>. HIDE DEF e
  <2>3. LockDbOK(e, K)
    BY <1>1, <1>8, <1>10, <2>2, LockTried
  <2>. QED BY <2>1, <2>3, <1>10 DEF WriteEffect
<1>. QED BY <1>11, <1>12

(* A vote, as either store gives it.                                         *)
PrepareEffect(o, db, c) ==
  /\ DOMAIN o.db = DOMAIN db /\ o.db.store = db.store /\ o.status \in Int
  /\ DOMAIN o.db.running = DOMAIN db.running \ {c}
  /\ \A e \in DOMAIN db.running \ {c} : o.db.running[e] = db.running[e]
  /\ IF o.status >= 0
     THEN /\ DOMAIN o.db.prepared = DOMAIN db.prepared \cup {c}
          /\ o.db.prepared[c] = db.running[c]
     ELSE DOMAIN o.db.prepared = DOMAIN db.prepared
  /\ \A e \in DOMAIN db.prepared \ {c} : o.db.prepared[e] = db.prepared[e]

(* The end of a transaction that is prepared.                                *)
FinishEffect(d, db, c) ==
  /\ DOMAIN d = DOMAIN db /\ d.running = db.running
  /\ DOMAIN d.prepared = DOMAIN db.prepared \ {c}
  /\ \A e \in DOMAIN db.prepared \ {c} : d.prepared[e] = db.prepared[e]

(* A key's values with one more.                                             *)
Extended(new, old, time, value) ==
  /\ Len(new) = Len(old) + 1
  /\ IF Locking
     THEN /\ new[Len(old) + 1] = value
          /\ \A k \in 1 .. Len(old) : new[k] = old[k]
     ELSE /\ new[1] = [ts |-> time, value |-> value]
          /\ \A k \in 1 .. Len(old) : new[k + 1] = old[k]

CommitEffect(d, db, c, time, K) ==
  LET w == db.prepared[c].writes IN
  \A key \in K :
    IF key \in DOMAIN w
    THEN Extended(d.store[key], db.store[key], time, Last(w[key]))
    ELSE d.store[key] = db.store[key]

LEMMA PreparedTxnIs ==
  ASSUME NEW db, {"store", "running", "prepared"} \subseteq DOMAIN db, NEW c
  PROVE  LET d == PreparedTxn(db, c) IN
         /\ DOMAIN d = DOMAIN db /\ d.store = db.store
         /\ "locks" \in DOMAIN db => d.locks = db.locks
         /\ d.running = Without(db.running, c)
         /\ d.prepared = With(db.prepared, c, db.running[c])
         /\ Lock!PreparedTxn(db, c) = d /\ OCC!PreparedTxn(db, c) = d
<1>1. /\ Lock!PreparedTxn(db, c) = PreparedTxn(db, c)
      /\ OCC!PreparedTxn(db, c) = PreparedTxn(db, c)
  BY SameOperators DEF PreparedTxn, Lock!PreparedTxn, OCC!PreparedTxn
<1>2. PreparedTxn(db, c) =
        [db EXCEPT !.running = Without(db.running, c),
                   !.prepared = With(db.prepared, c, db.running[c])]
  BY DEF PreparedTxn
<1>. QED BY <1>1, <1>2

LEMMA LockPrepare ==
  ASSUME NEW K, NEW db, LockDbOK(db, K), NEW c \in Clients,
         c \in DOMAIN db.running, c \notin DOMAIN db.prepared,
         NEW o \in Lock!prepare(db, c)
  PROVE  LockDbOK(o.db, K) /\ PrepareEffect(o, db, c)
<1>. DEFINE d == PreparedTxn(db, c)
<1>0. {"store", "running", "prepared", "locks", "retired"} = DOMAIN db
  BY LockDb
<1>1. /\ DOMAIN d = DOMAIN db /\ d.store = db.store /\ d.locks = db.locks
      /\ d.running = Without(db.running, c)
      /\ d.prepared = With(db.prepared, c, db.running[c])
      /\ Lock!PreparedTxn(db, c) = d
  BY <1>0, PreparedTxnIs
<1>2. o = [db |-> d, status |-> 0, value |-> NoValue]
  BY <1>1 DEF Lock!prepare, Lock!Result
<1>. HIDE DEF d
<1>3. /\ DOMAIN d.running = DOMAIN db.running \ {c}
      /\ \A e \in DOMAIN db.running \ {c} : d.running[e] = db.running[e]
      /\ DOMAIN d.prepared = DOMAIN db.prepared \cup {c}
      /\ d.prepared[c] = db.running[c]
      /\ \A e \in DOMAIN db.prepared \ {c} : d.prepared[e] = db.prepared[e]
  BY <1>1 DEF With, Without, Overridden
<1>4. TxnsOK(d, K)
  BY <1>1, <1>3 DEF LockDbOK, TxnsOK
<1>5. LockDbOK(d, K)
  <2>1. \A k \in K : /\ d.store[k] \in Seq(Stored) /\ d.store[k] # << >>
                     /\ d.locks[k] \in Locks(Clients) /\ Lock!LockOK(d.locks[k])
    BY <1>1, LockDb
  <2>2. ASSUME NEW k \in K, NEW e \in DOMAIN d.running
        PROVE  Claims(d.locks[k], e, d.running[e], k)
    <3>1. Claims(db.locks[k], e, db.running[e], k)
      BY <1>3, LockDb
    <3>. QED BY <1>1, <1>3, <3>1
  <2>3. ASSUME NEW k \in K, NEW e \in DOMAIN d.prepared
        PROVE  Claims(d.locks[k], e, d.prepared[e], k)
    <3>1. CASE e = c
      <4>1. Claims(db.locks[k], c, db.running[c], k)
        BY LockDb
      <4>. QED BY <1>1, <1>3, <3>1, <4>1
    <3>2. CASE e # c
      <4>1. Claims(db.locks[k], e, db.prepared[e], k)
        BY <1>3, <3>2, LockDb
      <4>. QED BY <1>1, <1>3, <3>2, <4>1
    <3>. QED BY <3>1, <3>2
  <2>4. DOMAIN d.locks = K /\ DOMAIN d = {"store", "locks", "running", "prepared", "retired"}
    BY <1>0, <1>1, LockDb
  <2>. QED BY <1>4, <2>1, <2>2, <2>3, <2>4 DEF LockDbOK
<1>. QED BY <1>1, <1>2, <1>3, <1>5 DEF PrepareEffect

LEMMA ReleaseKeeps ==
  ASSUME NEW l \in Locks(Clients), Lock!LockOK(l), NEW c,
         NEW m \in {Lock!releaseForRead(l, c), Lock!releaseForWrite(l, c)}
  PROVE  m \in Locks(Clients) /\ Lock!LockOK(m) /\ KeepsOthers(l, m, c)
<1>1. /\ m \in Locks(Clients) /\ Lock!LockOK(m)
      /\ l.holders \ {c} \subseteq m.holders
      /\ c \notin l.holders => m = l
  BY ReleaseSound
<1>2. KeepsOthers(l, m, c)
  <2>. SUFFICES ASSUME NEW e \in l.holders \ {c}, l.state \in Writing
       PROVE  m = l
    BY <1>1 DEF KeepsOthers
  <2>1. \E h \in l.holders : l.holders = {h}
    BY DEF Lock!LockOK, Writing
  <2>. QED BY <1>1, <2>1
<1>. QED BY <1>1, <1>2

LEMMA KeepsTwice ==
  ASSUME NEW l, NEW m, NEW n, NEW c, KeepsOthers(l, m, c), KeepsOthers(m, n, c)
  PROVE  KeepsOthers(l, n, c)
BY DEF KeepsOthers

LEMMA KeepsItself ==
  ASSUME NEW l, NEW c PROVE KeepsOthers(l, l, c)
BY DEF KeepsOthers

LEMMA DropKeeps ==
  ASSUME NEW db, NEW c, NEW t, "locks" \in DOMAIN db,
         \A k \in DOMAIN db.locks :
           db.locks[k] \in Locks(Clients) /\ Lock!LockOK(db.locks[k]),
         NEW d, d = Lock!dropLocks(db, c, t)
  PROVE  /\ \E locks : d = [db EXCEPT !.locks = locks]
         /\ DOMAIN d.locks = DOMAIN db.locks
         /\ \A k \in DOMAIN db.locks :
              /\ d.locks[k] \in Locks(Clients) /\ Lock!LockOK(d.locks[k])
              /\ KeepsOthers(db.locks[k], d.locks[k], c)
<1>. DEFINE released(key, l) ==
              IF key \in DOMAIN t.writes THEN Lock!releaseForWrite(l, c) ELSE l
            dropped(key, l) ==
              IF key \in DOMAIN t.reads
              THEN Lock!releaseForRead(released(key, l), c) ELSE released(key, l)
            locks == [key \in DOMAIN db.locks |-> dropped(key, db.locks[key])]
<1>1. d = [db EXCEPT !.locks = locks] /\ d.locks = locks
  BY DEF Lock!dropLocks
<1>2. ASSUME NEW k \in DOMAIN db.locks
      PROVE  /\ locks[k] \in Locks(Clients) /\ Lock!LockOK(locks[k])
             /\ KeepsOthers(db.locks[k], locks[k], c)
  <2>. DEFINE l == db.locks[k]
              m == released(k, l)
              n == dropped(k, l)
  <2>1. m \in Locks(Clients) /\ Lock!LockOK(m) /\ KeepsOthers(l, m, c)
    BY ReleaseKeeps, KeepsItself
  <2>2. n = m \/ n = Lock!releaseForRead(m, c)
    OBVIOUS
  <2>3. locks[k] = n
    OBVIOUS
  <2>. HIDE DEF l, m, n, locks
  <2>4. n \in Locks(Clients) /\ Lock!LockOK(n) /\ KeepsOthers(m, n, c)
    BY <2>1, <2>2, ReleaseKeeps, KeepsItself
  <2>5. KeepsOthers(l, n, c)
    BY <2>1, <2>4, KeepsTwice
  <2>. QED BY <2>3, <2>4, <2>5 DEF l
<1>3. DOMAIN locks = DOMAIN db.locks
  OBVIOUS
<1>. HIDE DEF locks
<1>. QED BY <1>1, <1>2, <1>3

(* A database of locks from which c's prepared transaction has gone.         *)
LEMMA LockFinish ==
  ASSUME NEW K, NEW db, LockDbOK(db, K), NEW c \in DOMAIN db.prepared,
         c \notin DOMAIN db.running,
         NEW d, FinishEffect(d, db, c), DOMAIN d.store = K, DOMAIN d.locks = K,
         \A k \in K : /\ d.store[k] \in Seq(Stored) /\ d.store[k] # << >>
                      /\ d.locks[k] \in Locks(Clients) /\ Lock!LockOK(d.locks[k])
                      /\ KeepsOthers(db.locks[k], d.locks[k], c)
  PROVE  LockDbOK(d, K)
<1>1. TxnsOK(d, K)
  BY DEF LockDbOK, TxnsOK, FinishEffect
<1>2. ASSUME NEW k \in K, NEW e \in DOMAIN d.running
      PROVE  Claims(d.locks[k], e, d.running[e], k)
  <2>1. e # c /\ e \in DOMAIN db.running /\ d.running[e] = db.running[e]
    BY DEF FinishEffect
  <2>2. Claims(db.locks[k], e, db.running[e], k)
    BY <2>1, LockDb
  <2>. QED BY <2>1, <2>2, KeepsClaims
<1>3. ASSUME NEW k \in K, NEW e \in DOMAIN d.prepared
      PROVE  Claims(d.locks[k], e, d.prepared[e], k)
  <2>1. e # c /\ e \in DOMAIN db.prepared /\ d.prepared[e] = db.prepared[e]
    BY DEF FinishEffect
  <2>2. Claims(db.locks[k], e, db.prepared[e], k)
    BY <2>1, LockDb
  <2>. QED BY <2>1, <2>2, KeepsClaims
<1>4. DOMAIN d = {"store", "locks", "running", "prepared", "retired"}
  BY LockDb DEF FinishEffect
<1>. QED BY <1>1, <1>2, <1>3, <1>4 DEF LockDbOK

(* What retiring c's prepared transaction leaves of db.                      *)
LEMMA RetiredIs ==
  ASSUME NEW db, {"store", "running", "prepared", "retired"} \subseteq DOMAIN db,
         NEW c, NEW op, NEW t, NEW state,
         NEW d, d = [[db EXCEPT !.prepared = Without(@, c)] EXCEPT !.retired =
                       Append(@, [op |-> op, txn |-> t, state |-> state])]
  PROVE  /\ FinishEffect(d, db, c) /\ d.store = db.store
         /\ "locks" \in DOMAIN db => d.locks = db.locks
<1>. DEFINE e == [db EXCEPT !.prepared = Without(db.prepared, c)]
<1>1. /\ DOMAIN e = DOMAIN db /\ e.store = db.store /\ e.running = db.running
      /\ e.prepared = Without(db.prepared, c)
      /\ "locks" \in DOMAIN db => e.locks = db.locks
  OBVIOUS
<1>. DEFINE r == Append(e.retired, [op |-> op, txn |-> t, state |-> state])
<1>2. d = [e EXCEPT !.retired = r]
  OBVIOUS
<1>. HIDE DEF e, r
<1>3. /\ DOMAIN d = DOMAIN db /\ d.store = db.store /\ d.running = db.running
      /\ d.prepared = Without(db.prepared, c)
      /\ "locks" \in DOMAIN db => d.locks = db.locks
  BY <1>1, <1>2
<1>. QED BY <1>3 DEF FinishEffect, Without

LEMMA StoreOverridden ==
  ASSUME NEW K, NEW store, DOMAIN store = K, NEW new, DOMAIN new \subseteq K
  PROVE  /\ DOMAIN Overridden(store, new) = K
         /\ \A k \in K : Overridden(store, new)[k] =
              IF k \in DOMAIN new THEN new[k] ELSE store[k]
BY DEF Overridden

LEMMA LockCommit ==
  ASSUME Locking, NEW K, NEW db, LockDbOK(db, K), NEW c \in DOMAIN db.prepared,
         c \notin DOMAIN db.running, NEW time, NEW op,
         NEW d, d = Lock!commit(db, c, op)
  PROVE  LockDbOK(d, K) /\ FinishEffect(d, db, c) /\ CommitEffect(d, db, c, time, K)
<1>. DEFINE t == db.prepared[c]
            old(key) == IF key \in DOMAIN db.store THEN db.store[key] ELSE << >>
            stored == [key \in DOMAIN t.writes |->
                         Append(old(key), Last(t.writes[key]))]
            store == Overridden(db.store, stored)
            b == [db EXCEPT !.store = store]
            e == [[b EXCEPT !.prepared = Without(@, c)] EXCEPT !.retired =
                    Append(@, [op |-> op, txn |-> t, state |-> "COMMITTED"])]
<1>1. /\ {"store", "running", "prepared", "locks", "retired"} = DOMAIN db
      /\ DOMAIN db.store = K /\ DOMAIN db.locks = K /\ TxnOK(t, K)
      /\ \A k \in K : db.store[k] \in Seq(Stored) /\ db.store[k] # << >>
  BY LockDb
<1>2. d = Lock!dropLocks(e, c, t)
  <2>1. b.prepared[c] = t
    BY <1>1
  <2>. QED BY <2>1, SameOperators DEF Lock!commit, Lock!CommittedTxn, Lock!Retired
<1>3. /\ DOMAIN b = DOMAIN db /\ b.store = store /\ b.running = db.running
      /\ b.prepared = db.prepared /\ b.locks = db.locks
  BY <1>1
<1>. HIDE DEF b
<1>4. FinishEffect(e, b, c) /\ e.store = store /\ e.locks = db.locks
  <2>1. {"store", "running", "prepared", "retired"} \subseteq DOMAIN b /\ "locks" \in DOMAIN b
    BY <1>1, <1>3
  <2>2. FinishEffect(e, b, c) /\ e.store = b.store /\ e.locks = b.locks
    BY <2>1, RetiredIs
  <2>. QED BY <2>2, <1>3
<1>. HIDE DEF e
<1>5. /\ \E locks : d = [e EXCEPT !.locks = locks]
      /\ DOMAIN d.locks = K
      /\ \A k \in K :
           /\ d.locks[k] \in Locks(Clients) /\ Lock!LockOK(d.locks[k])
           /\ KeepsOthers(db.locks[k], d.locks[k], c)
  <2>1. "locks" \in DOMAIN e
    BY <1>1, <1>3, <1>4 DEF FinishEffect
  <2>2. \A k \in DOMAIN e.locks :
          e.locks[k] \in Locks(Clients) /\ Lock!LockOK(e.locks[k])
    BY <1>1, <1>4, LockDb
  <2>3. /\ \E locks : d = [e EXCEPT !.locks = locks]
        /\ DOMAIN d.locks = DOMAIN e.locks
        /\ \A k \in DOMAIN e.locks :
             /\ d.locks[k] \in Locks(Clients) /\ Lock!LockOK(d.locks[k])
             /\ KeepsOthers(e.locks[k], d.locks[k], c)
    <3>. HIDE DEF t
    <3>. QED BY <1>2, <2>1, <2>2, DropKeeps
  <2>. QED BY <2>3, <1>1, <1>4
<1>6. DOMAIN d = DOMAIN e /\ d.store = e.store /\ d.running = e.running
      /\ d.prepared = e.prepared
  <2>1. "store" \in DOMAIN e /\ "running" \in DOMAIN e /\ "prepared" \in DOMAIN e
    BY <1>1, <1>3, <1>4 DEF FinishEffect
  <2>. QED BY <2>1, <1>5
<1>7. FinishEffect(d, db, c)
  BY <1>3, <1>4, <1>6 DEF FinishEffect
<1>8. /\ DOMAIN d.store = K
      /\ \A k \in K : d.store[k] = IF k \in DOMAIN t.writes
                                   THEN Append(db.store[k], Last(t.writes[k]))
                                   ELSE db.store[k]
  <2>1. DOMAIN stored \subseteq K
    BY <1>1 DEF TxnOK
  <2>2. \A k \in DOMAIN t.writes :
          stored[k] = Append(db.store[k], Last(t.writes[k]))
    BY <1>1 DEF TxnOK
  <2>3. DOMAIN stored = DOMAIN t.writes
    OBVIOUS
  <2>. HIDE DEF stored
  <2>4. /\ DOMAIN store = K
        /\ \A k \in K : store[k] = IF k \in DOMAIN stored THEN stored[k] ELSE db.store[k]
    BY <1>1, <2>1, StoreOverridden
  <2>. QED BY <2>2, <2>3, <2>4, <1>4, <1>6
<1>9. ASSUME NEW k \in K
      PROVE  /\ d.store[k] \in Seq(Stored) /\ d.store[k] # << >>
             /\ k \in DOMAIN t.writes =>
                  Extended(d.store[k], db.store[k], time, Last(t.writes[k]))
  <2>1. CASE k \in DOMAIN t.writes
    <3>1. Last(t.writes[k]) \in Stored
      <4>1. t.writes[k] \in Seq(Vals) /\ t.writes[k] # << >>
        BY <1>1, <2>1 DEF TxnOK
      <4>2. Last(t.writes[k]) \in Vals
        BY <4>1, LastIs
      <4>. QED BY <4>2 DEF Stored
    <3>. DEFINE s == db.store[k]
                v == Last(t.writes[k])
    <3>2. s \in Seq(Stored) /\ v \in Stored /\ d.store[k] = Append(s, v)
      BY <1>1, <1>8, <2>1, <3>1
    <3>. HIDE DEF s, v
    <3>3. /\ Append(s, v) \in Seq(Stored) /\ Append(s, v) # << >>
          /\ Len(Append(s, v)) = Len(s) + 1
          /\ Append(s, v)[Len(s) + 1] = v
          /\ \A n \in 1 .. Len(s) : Append(s, v)[n] = s[n]
      BY <3>2, AppendProperties, LastOfAppend
    <3>. QED BY <3>2, <3>3 DEF Extended, s, v
  <2>2. CASE k \notin DOMAIN t.writes
    BY <1>1, <1>8, <2>2
  <2>. QED BY <2>1, <2>2
<1>10. LockDbOK(d, K)
  BY <1>5, <1>7, <1>8, <1>9, LockFinish
<1>11. CommitEffect(d, db, c, time, K)
  BY <1>8, <1>9 DEF CommitEffect
<1>. QED BY <1>7, <1>10, <1>11

LEMMA LockAbort ==
  ASSUME NEW K, NEW db, LockDbOK(db, K), NEW c \in DOMAIN db.prepared,
         c \notin DOMAIN db.running, NEW op, NEW d, d = Lock!aborted(db, op, c)
  PROVE  LockDbOK(d, K) /\ FinishEffect(d, db, c) /\ d.store = db.store
<1>. DEFINE t == db.prepared[c]
            e == [[db EXCEPT !.prepared = Without(@, c)] EXCEPT !.retired =
                    Append(@, [op |-> op, txn |-> t, state |-> "ABORTED_PREPARED"])]
<1>1. /\ {"store", "running", "prepared", "locks", "retired"} = DOMAIN db
      /\ DOMAIN db.store = K /\ DOMAIN db.locks = K
  BY LockDb
<1>2. d = Lock!dropLocks(e, c, t)
  BY SameOperators DEF Lock!aborted, Lock!abortTxn, Lock!AbortedTxn, Lock!Retired
<1>3. FinishEffect(e, db, c) /\ e.store = db.store /\ e.locks = db.locks
  BY <1>1, RetiredIs
<1>. HIDE DEF e
<1>4. /\ \E locks : d = [e EXCEPT !.locks = locks]
      /\ DOMAIN d.locks = K
      /\ \A k \in K :
           /\ d.locks[k] \in Locks(Clients) /\ Lock!LockOK(d.locks[k])
           /\ KeepsOthers(db.locks[k], d.locks[k], c)
  <2>1. "locks" \in DOMAIN e
    BY <1>1, <1>3 DEF FinishEffect
  <2>2. \A k \in DOMAIN e.locks :
          e.locks[k] \in Locks(Clients) /\ Lock!LockOK(e.locks[k])
    BY <1>1, <1>3, LockDb
  <2>3. /\ \E locks : d = [e EXCEPT !.locks = locks]
        /\ DOMAIN d.locks = DOMAIN e.locks
        /\ \A k \in DOMAIN e.locks :
             /\ d.locks[k] \in Locks(Clients) /\ Lock!LockOK(d.locks[k])
             /\ KeepsOthers(e.locks[k], d.locks[k], c)
    <3>. HIDE DEF t
    <3>. QED BY <1>2, <2>1, <2>2, DropKeeps
  <2>. QED BY <2>3, <1>1, <1>3
<1>5. DOMAIN d = DOMAIN e /\ d.store = e.store /\ d.running = e.running
      /\ d.prepared = e.prepared
  <2>1. "store" \in DOMAIN e /\ "running" \in DOMAIN e /\ "prepared" \in DOMAIN e
    BY <1>1, <1>3 DEF FinishEffect
  <2>. QED BY <2>1, <1>4
<1>6. FinishEffect(d, db, c) /\ d.store = db.store
  BY <1>3, <1>5 DEF FinishEffect
<1>7. LockDbOK(d, K)
  <2>1. \A k \in K : d.store[k] \in Seq(Stored) /\ d.store[k] # << >>
    BY <1>6, LockDb
  <2>2. DOMAIN d.store = K
    BY <1>1, <1>6
  <2>. QED BY <1>4, <1>6, <2>1, <2>2, LockFinish
<1>. QED BY <1>6, <1>7

LEMMA OCCDb ==
  ASSUME NEW K, NEW db, OCCDbOK(db, K)
  PROVE  /\ {"store", "running", "prepared", "retired"} = DOMAIN db
         /\ DOMAIN db.store = K
         /\ \A k \in K : VersionsOK(db.store[k])
         /\ \A c \in DOMAIN db.running :
              TxnOK(db.running[c], K) /\ ReadsOK(db, db.running[c])
         /\ \A c \in DOMAIN db.prepared :
              TxnOK(db.prepared[c], K) /\ ReadsOK(db, db.prepared[c])
BY DEF OCCDbOK, TxnsOK

LEMMA VersionsAre ==
  ASSUME NEW versions, VersionsOK(versions)
  PROVE  /\ Len(versions) \in Nat \ {0} /\ DOMAIN versions = 1 .. Len(versions)
         /\ \A n \in DOMAIN versions : /\ versions[n] \in Versions
                                       /\ versions[n].ts \in Nat
         /\ Head(versions) = versions[1] /\ 1 \in DOMAIN versions
         /\ \A m, n \in DOMAIN versions : m < n => versions[n].ts < versions[m].ts
<1>1. versions \in Seq(Versions) /\ versions # << >>
  BY DEF VersionsOK
<1>2. Len(versions) \in Nat \ {0} /\ DOMAIN versions = 1 .. Len(versions)
  BY <1>1, LastIs
<1>3. \A n \in DOMAIN versions : versions[n] \in Versions
  BY <1>1, <1>2, ElementOfSeq
<1>4. \A v \in Versions : v.ts \in Nat
  BY DEF Versions
<1>5. Head(versions) = versions[1]
  BY <1>1
<1>. QED BY <1>2, <1>3, <1>4, <1>5 DEF VersionsOK

(* The version that has a timestamp is the one valid then.                   *)
LEMMA ValidAtIs ==
  ASSUME NEW db, NEW key, VersionsOK(db.store[key]), NEW n \in DOMAIN db.store[key]
  PROVE  OCC!ValidAt(db, key, db.store[key][n].ts) = db.store[key][n]
<1>. DEFINE vs == db.store[key]
            time == vs[n].ts
            S == {i \in DOMAIN vs : vs[i].ts <= time}
<1>1. /\ \A i \in DOMAIN vs : i \in Nat /\ vs[i].ts \in Nat
      /\ \A i, j \in DOMAIN vs : i < j => vs[j].ts < vs[i].ts
  BY VersionsAre
<1>2. S \subseteq Nat /\ n \in S
  BY <1>1
<1>3. OCC!ValidAt(db, key, time) = vs[OCC!Min(S)]
  BY DEF OCC!ValidAt
<1>4. OCC!Min(S) = Min(S)
  BY DEF OCC!Min, Min
<1>. HIDE DEF S
<1>5. Min(S) \in S /\ Min(S) <= n
  BY <1>2, MinOfNaturals
<1>. USE DEF S
<1>. HIDE DEF vs
<1>6. Min(S) = n
  <2>. DEFINE m == Min(S)
  <2>. HIDE DEF m
  <2>1. m \in DOMAIN vs /\ vs[m].ts <= time /\ m <= n
    BY <1>5 DEF m
  <2>2. n \in DOMAIN vs
    BY DEF vs
  <2>3. m = n
    BY <2>1, <2>2, <1>1
  <2>. QED BY <2>3 DEF m
<1>. QED BY <1>3, <1>4, <1>6 DEF vs

(* An operation of c on a database of versions.                              *)
LEMMA OCCRunning ==
  ASSUME NEW K, NEW db, OCCDbOK(db, K), NEW c \in Clients,
         NEW t, TxnOK(t, K), ReadsOK(db, t), NEW d, RunningIs(d, db, c, t)
  PROVE  OCCDbOK(d, K)
<1>1. DOMAIN d = {"store", "running", "prepared", "retired"}
      /\ d.store = db.store /\ d.prepared = db.prepared
  BY DEF OCCDbOK, RunningIs
<1>2. TxnsOK(d, K)
  BY DEF OCCDbOK, TxnsOK, RunningIs
<1>3. \A e \in DOMAIN d.running : ReadsOK(db, d.running[e])
  BY DEF OCCDbOK, RunningIs
<1>4. \A u : (ReadsOK(d, u) <=> ReadsOK(db, u)) /\ (UpToDate(d, u) <=> UpToDate(db, u))
  BY <1>1 DEF ReadsOK, UpToDate
<1>. QED BY <1>1, <1>2, <1>3, <1>4 DEF OCCDbOK

LEMMA OCCBegin ==
  ASSUME NEW K, NEW db, OCCDbOK(db, K), NEW c \in Clients
  PROVE  OCCDbOK(begin(db, c), K) /\ RunningIs(begin(db, c), db, c, NewTxn)
<1>1. RunningIs(begin(db, c), db, c, NewTxn)
  BY RunsIs, OCCDb DEF begin
<1>2. ReadsOK(db, NewTxn)
  BY NewTxnOK DEF ReadsOK
<1>. QED BY <1>1, <1>2, NewTxnOK, OCCRunning

LEMMA OCCGet ==
  ASSUME ~Locking, NEW K, NEW db, OCCDbOK(db, K), NEW c \in Clients,
         c \in DOMAIN db.running, NEW key \in K, NEW o, o = OCC!get(db, c, key)
  PROVE  OCCDbOK(o.db, K) /\ ReadEffect(o, db, c, key)
<1>. DEFINE u == db.running[c]
            run == Runs(db, c, u)
<1>1. /\ TxnOK(u, K) /\ ReadsOK(db, u) /\ DOMAIN db.store = K
      /\ {"store", "running", "prepared", "retired"} = DOMAIN db
      /\ VersionsOK(db.store[key])
  BY OCCDb
<1>2. RunningIs(run, db, c, u)
  BY RunsIs, <1>1
<1>3. OCC!getTxn(db, c) = u /\ OCC!Runs(db, c, u) = run
  BY RunsIs, <1>1 DEF OCC!getTxn
<1>4. \A t, k : ReadOf(db, t, k) = OCC!ValidAt(db, k, t.reads[k].ts).value
  BY DEF ReadOf
<1>5. DOMAIN u = {"reads", "writes"} /\ DOMAIN u.reads \subseteq K
      /\ DOMAIN u.writes \subseteq K
  BY <1>1 DEF TxnOK
<1>6. {"store", "running", "prepared", "retired"} = DOMAIN run
      /\ run.running[c] = u /\ c \in DOMAIN run.running
  BY <1>1, <1>2 DEF RunningIs
<1>7. CASE key \in DOMAIN u.writes
  <2>1. o = [db |-> run, status |-> 0, value |-> Last(u.writes[key])]
    BY <1>3, <1>7, SameOperators DEF OCC!get, OCC!Result
  <2>2. OCCDbOK(run, K)
    BY <1>1, <1>2, OCCRunning
  <2>. QED BY <2>1, <2>2, <1>2, <1>7 DEF ReadEffect
<1>8. CASE key \notin DOMAIN u.writes /\ key \in DOMAIN u.reads
  <2>. DEFINE t == [u EXCEPT !.reads[key].count = @ + 1]
              d == [run EXCEPT !.running[c].reads[key].count = @ + 1]
  <2>1. o = [db |-> d, status |-> 0,
             value |-> OCC!ValidAt(db, key, u.reads[key].ts).value]
    BY <1>3, <1>8 DEF OCC!get, OCC!Result
  <2>2. d = [run EXCEPT !.running = [@ EXCEPT ![c] = t]]
    BY <1>6
  <2>3. /\ DOMAIN t = {"reads", "writes"} /\ t.writes = u.writes
        /\ DOMAIN t.reads = DOMAIN u.reads
        /\ \A k \in DOMAIN u.reads \ {key} : t.reads[k] = u.reads[k]
        /\ t.reads[key] = [u.reads[key] EXCEPT !.count = @ + 1]
    BY <1>5, <1>8
  <2>. HIDE DEF t, d
  <2>4. \A k \in DOMAIN u.reads : /\ DOMAIN t.reads[k] = {"ts", "count"}
                                  /\ t.reads[k].ts = u.reads[k].ts
    BY <1>1, <1>8, <2>3 DEF ReadsOK
  <2>5. RunningIs(d, db, c, t)
    <3>1. d.running = [run.running EXCEPT ![c] = t]
          /\ d.store = run.store /\ d.prepared = run.prepared /\ DOMAIN d = DOMAIN run
      <4>. HIDE DEF run
      <4>. QED BY <1>6, <2>2
    <3>. QED BY <1>6, <3>1, <1>2 DEF RunningIs
  <2>6. TxnOK(t, K) /\ ReadsOK(db, t)
    BY <1>1, <2>3, <2>4 DEF TxnOK, ReadsOK
  <2>7. OCCDbOK(d, K)
    BY <2>5, <2>6, OCCRunning
  <2>. QED BY <2>1, <2>3, <2>4, <2>5, <2>7, <1>4, <1>8 DEF ReadEffect
<1>9. CASE key \notin DOMAIN u.writes /\ key \notin DOMAIN u.reads
  <2>. DEFINE v == db.store[key][1]
              t == [u EXCEPT !.reads = With(@, key, [ts |-> v.ts, count |-> 1])]
              d == [run EXCEPT !.running[c].reads =
                      With(@, key, [ts |-> v.ts, count |-> 1])]
  <2>0. OCC!Latest(db, key) = v /\ 1 \in DOMAIN db.store[key] /\ v.ts \in Nat
    BY <1>1, VersionsAre DEF OCC!Latest
  <2>1. o = [db |-> d, status |-> 0, value |-> v.value]
    <3>. HIDE DEF v
    <3>. QED BY <1>1, <1>3, <1>9, <2>0, SameOperators DEF OCC!get, OCC!Result
  <2>2. d = [run EXCEPT !.running = [@ EXCEPT ![c] = t]]
    BY <1>6
  <2>3. /\ DOMAIN t = {"reads", "writes"} /\ t.writes = u.writes
        /\ DOMAIN t.reads = DOMAIN u.reads \cup {key}
        /\ \A k \in DOMAIN u.reads : t.reads[k] = u.reads[k]
        /\ t.reads[key] = [ts |-> v.ts, count |-> 1]
    BY <1>5, <1>9 DEF With, Overridden
  <2>4. OCC!ValidAt(db, key, v.ts) = v
    BY <1>1, <2>0, ValidAtIs
  <2>5. HasVersion(db.store[key], v.ts)
    BY <2>0 DEF HasVersion
  <2>. HIDE DEF t, d, v
  <2>6. RunningIs(d, db, c, t)
    <3>1. d.running = [run.running EXCEPT ![c] = t]
          /\ d.store = run.store /\ d.prepared = run.prepared /\ DOMAIN d = DOMAIN run
      <4>. HIDE DEF run
      <4>. QED BY <1>6, <2>2
    <3>. QED BY <1>6, <3>1, <1>2 DEF RunningIs
  <2>7. TxnOK(t, K)
    BY <1>1, <2>3 DEF TxnOK
  <2>8. ReadsOK(db, t)
    BY <1>1, <2>0, <2>3, <2>5 DEF ReadsOK
  <2>9. OCCDbOK(d, K)
    BY <2>6, <2>7, <2>8, OCCRunning
  <2>. QED BY <2>1, <2>3, <2>4, <2>6, <2>9, <1>4, <1>9 DEF ReadEffect
<1>. QED BY <1>7, <1>8, <1>9

LEMMA OCCPut ==
  ASSUME NEW K, NEW db, OCCDbOK(db, K), NEW c \in Clients,
         c \in DOMAIN db.running, NEW key \in K, NEW value \in Vals,
         NEW o, o = OCC!put(db, c, key, value)
  PROVE  OCCDbOK(o.db, K) /\ WriteEffect(o, db, c, key, value)
<1>. DEFINE u == db.running[c]
            t == Wrote(u, key, value)
<1>1. TxnOK(u, K) /\ ReadsOK(db, u)
      /\ {"store", "running", "prepared", "retired"} = DOMAIN db
  BY OCCDb
<1>2. o = [db |-> Runs(db, c, t), status |-> 0, value |-> NoValue]
  <2>1. OCC!getTxn(db, c) = u
    BY DEF OCC!getTxn
  <2>2. [u EXCEPT !.writes = OCC!With(@, key, Append(OCC!Written(u, key), value))] = t
    BY SameOperators DEF Wrote, OCC!Written
  <2>. HIDE DEF t
  <2>. QED BY <2>1, <2>2, <1>1, RunsIs DEF OCC!put, OCC!Result
<1>3. RunningIs(Runs(db, c, t), db, c, t)
  BY <1>1, RunsIs
<1>4. /\ TxnOK(t, K) /\ t.reads = u.reads
      /\ DOMAIN t.writes = DOMAIN u.writes \cup {key}
      /\ \A k \in DOMAIN u.writes \ {key} : t.writes[k] = u.writes[k]
      /\ Last(t.writes[key]) = value
  BY <1>1, WroteIs
<1>. HIDE DEF t
<1>5. ReadsOK(db, t)
  BY <1>1, <1>4 DEF ReadsOK
<1>6. OCCDbOK(Runs(db, c, t), K)
  BY <1>3, <1>4, <1>5, OCCRunning
<1>. QED BY <1>2, <1>3, <1>4, <1>6 DEF WriteEffect

(* Prepared transactions have written nothing that the others use.           *)
LEMMA OCCPrepare ==
  ASSUME NEW K, NEW db, OCCDbOK(db, K), NEW c \in Clients,
         c \in DOMAIN db.running, c \notin DOMAIN db.prepared,
         NEW op, NEW o, o = OCC!prepare(db, op, c)
  PROVE  OCCDbOK(o.db, K) /\ PrepareEffect(o, db, c)
<1>. DEFINE u == db.running[c]
<1>1. /\ TxnOK(u, K) /\ ReadsOK(db, u) /\ DOMAIN db.store = K
      /\ {"store", "running", "prepared", "retired"} = DOMAIN db
  BY OCCDb
<1>2. CASE OCC!Conflicts(db, u)
  <2>. DEFINE e == [db EXCEPT !.running = Without(@, c)]
              d == [e EXCEPT !.retired =
                      Append(@, [op |-> op, txn |-> u, state |-> "ABORTED_RUNNING"])]
  <2>1. o = [db |-> d, status |-> -1, value |-> NoValue]
    BY <1>2, SameOperators DEF OCC!prepare, OCC!abortTxn, OCC!AbortedTxn,
       OCC!Retired, OCC!Result
  <2>2. /\ DOMAIN e = DOMAIN db /\ e.store = db.store /\ e.prepared = db.prepared
        /\ e.running = Without(db.running, c)
    BY <1>1
  <2>. HIDE DEF e
  <2>3. /\ DOMAIN d = DOMAIN db /\ d.store = db.store /\ d.prepared = db.prepared
        /\ d.running = Without(db.running, c)
    BY <1>1, <2>2
  <2>. HIDE DEF d
  <2>4. /\ DOMAIN d.running = DOMAIN db.running \ {c}
        /\ \A i \in DOMAIN db.running \ {c} : d.running[i] = db.running[i]
    BY <2>3 DEF Without
  <2>5. TxnsOK(d, K)
    BY <2>3, <2>4 DEF OCCDbOK, TxnsOK
  <2>6. \A t : (ReadsOK(d, t) <=> ReadsOK(db, t)) /\ (UpToDate(d, t) <=> UpToDate(db, t))
    BY <2>3 DEF ReadsOK, UpToDate
  <2>7. OCCDbOK(d, K)
    BY <2>3, <2>4, <2>5, <2>6, <1>1 DEF OCCDbOK
  <2>. QED BY <2>1, <2>3, <2>4, <2>7 DEF PrepareEffect
<1>3. CASE ~OCC!Conflicts(db, u)
  <2>. DEFINE d == PreparedTxn(db, c)
  <2>1. /\ DOMAIN d = DOMAIN db /\ d.store = db.store
        /\ d.running = Without(db.running, c)
        /\ d.prepared = With(db.prepared, c, u)
        /\ OCC!PreparedTxn(db, c) = d
    BY <1>1, PreparedTxnIs
  <2>2. o = [db |-> d, status |-> 0, value |-> NoValue]
    BY <1>3, <2>1 DEF OCC!prepare, OCC!Result
  <2>. HIDE DEF d
  <2>3. /\ DOMAIN d.running = DOMAIN db.running \ {c}
        /\ \A e \in DOMAIN db.running \ {c} : d.running[e] = db.running[e]
        /\ DOMAIN d.prepared = DOMAIN db.prepared \cup {c}
        /\ d.prepared[c] = u
        /\ \A e \in DOMAIN db.prepared \ {c} : d.prepared[e] = db.prepared[e]
    BY <2>1 DEF With, Without, Overridden
  <2>4. TxnsOK(d, K)
    BY <2>1, <2>3 DEF OCCDbOK, TxnsOK
  <2>5. \A t : (ReadsOK(d, t) <=> ReadsOK(db, t)) /\ (UpToDate(d, t) <=> UpToDate(db, t))
    BY <2>1 DEF ReadsOK, UpToDate
  <2>6. UpToDate(db, u)
    <3>1. \A k \in DOMAIN u.reads : OCC!Latest(db, k).ts = u.reads[k].ts
      BY <1>3 DEF OCC!Conflicts
    <3>2. \A k \in DOMAIN u.reads : OCC!Latest(db, k) = db.store[k][1]
      <4>. TAKE k \in DOMAIN u.reads
      <4>1. VersionsOK(db.store[k])
        BY <1>1, OCCDb DEF TxnOK
      <4>. QED BY <4>1, VersionsAre DEF OCC!Latest
    <3>. QED BY <3>1, <3>2 DEF UpToDate
  <2>7. ASSUME NEW e \in DOMAIN db.prepared
        PROVE  WritesApart(u, db.prepared[e]) /\ WritesApart(db.prepared[e], u)
    <3>1. /\ DOMAIN u.reads \cap OCC!getPreparedWrites(db) = {}
          /\ DOMAIN u.writes \cap OCC!getPreparedReadWrites(db) = {}
      BY <1>3 DEF OCC!Conflicts
    <3>2. /\ DOMAIN db.prepared[e].writes \subseteq OCC!getPreparedWrites(db)
          /\ OCC!getPreparedWrites(db) \subseteq OCC!getPreparedReadWrites(db)
          /\ DOMAIN db.prepared[e].reads \subseteq OCC!getPreparedReadWrites(db)
      BY DEF OCC!getPreparedWrites, OCC!getPreparedReadWrites
    <3>. HIDE DEF u
    <3>. QED BY <3>1, <3>2 DEF WritesApart
  <2>8. ASSUME NEW i \in DOMAIN d.prepared
        PROVE  /\ ReadsOK(d, d.prepared[i]) /\ UpToDate(d, d.prepared[i])
               /\ \A j \in DOMAIN d.prepared \ {i} :
                    WritesApart(d.prepared[i], d.prepared[j])
    <3>1. ReadsOK(d, d.prepared[i]) /\ UpToDate(d, d.prepared[i])
      BY <2>3, <2>5, <2>6, <1>1 DEF OCCDbOK
    <3>2. ASSUME NEW j \in DOMAIN d.prepared \ {i}
          PROVE  WritesApart(d.prepared[i], d.prepared[j])
      BY <2>3, <2>7 DEF OCCDbOK
    <3>. QED BY <3>1, <3>2
  <2>9. \A i \in DOMAIN d.running : ReadsOK(d, d.running[i])
    BY <2>3, <2>5, OCCDb
  <2>10. OCCDbOK(d, K)
    BY <1>1, <2>1, <2>4, <2>8, <2>9, OCCDb DEF OCCDbOK
  <2>. QED BY <2>1, <2>2, <2>3, <2>10 DEF PrepareEffect
<1>. QED BY <1>2, <1>3

(* A version newer than all the others comes first.                          *)
LEMMA InsertedIs ==
  ASSUME ~Locking, NEW versions, VersionsOK(versions), NEW time \in Nat,
         \A n \in DOMAIN versions : versions[n].ts < time, NEW value \in Stored,
         NEW new, new = OCC!Inserted(versions, [ts |-> time, value |-> value])
  PROVE  VersionsOK(new) /\ Extended(new, versions, time, value)
<1>. DEFINE v == [ts |-> time, value |-> value]
            older == {i \in DOMAIN versions : versions[i].ts < v.ts}
            n == Len(versions)
<1>1. /\ n \in Nat \ {0} /\ DOMAIN versions = 1 .. n
      /\ \A i \in 1 .. n : versions[i] \in Versions /\ versions[i].ts \in Nat
      /\ \A i, j \in 1 .. n : i < j => versions[j].ts < versions[i].ts
      /\ versions \in Seq(Versions) /\ versions # << >>
  BY VersionsAre DEF VersionsOK
<1>. HIDE DEF n
<1>2. older = 1 .. n
  BY <1>1
<1>3. OCC!Min(older) = 1
  <2>1. older \subseteq Nat /\ 1 \in older
    BY <1>1, <1>2
  <2>. HIDE DEF older
  <2>2. OCC!Min(older) = Min(older)
    BY DEF OCC!Min, Min
  <2>3. Min(older) \in older /\ Min(older) <= 1
    BY <2>1, MinOfNaturals
  <2>4. Min(older) \in 1 .. n
    BY <1>2, <2>3
  <2>. QED BY <2>2, <2>3, <2>4
<1>4. new = OCC!InsertAt(versions, 1, v)
  BY <1>1, <1>2, <1>3 DEF OCC!Inserted
<1>5. /\ SubSeq(versions, 1, 0) = << >> /\ SubSeq(versions, 1, n) = versions
  BY <1>1, SubSeqProperties DEF n
<1>6. new = <<v>> \o versions
  <2>1. new = SubSeq(versions, 1, 1 - 1) \o <<v>> \o SubSeq(versions, 1, Len(versions))
    BY <1>4 DEF OCC!InsertAt
  <2>2. 1 - 1 = 0
    OBVIOUS
  <2>3. << >> \o <<v>> = <<v>>
    OBVIOUS
  <2>. HIDE DEF v
  <2>. QED BY <1>5, <2>1, <2>2, <2>3 DEF n
<1>7. v \in Versions
  BY DEF Versions
<1>. HIDE DEF v
<1>8. /\ new \in Seq(Versions) /\ Len(new) = n + 1 /\ new[1] = v
      /\ \A k \in 1 .. n : new[k + 1] = versions[k]
  <2>1. <<v>> \in Seq(Versions) /\ Len(<<v>>) = 1 /\ <<v>>[1] = v
    BY <1>7
  <2>2. /\ new \in Seq(Versions) /\ Len(new) = 1 + n
        /\ \A i \in 1 .. 1 + n : new[i] = IF i <= 1 THEN <<v>>[i] ELSE versions[i - 1]
    <3>. DEFINE s == <<v>>
    <3>1. s \in Seq(Versions) /\ Len(s) = 1 /\ new = s \o versions
      BY <1>6, <2>1
    <3>. HIDE DEF s
    <3>2. /\ s \o versions \in Seq(Versions)
          /\ Len(s \o versions) = Len(s) + Len(versions)
          /\ \A i \in 1 .. Len(s) + Len(versions) : (s \o versions)[i] =
               IF i <= Len(s) THEN s[i] ELSE versions[i - Len(s)]
      BY <1>1, <3>1, ConcatProperties
    <3>3. /\ new \in Seq(Versions) /\ Len(new) = 1 + n
          /\ \A i \in 1 .. 1 + n : new[i] = IF i <= 1 THEN s[i] ELSE versions[i - 1]
      BY <3>1, <3>2 DEF n
    <3>. QED BY <3>3 DEF s
  <2>. QED BY <2>1, <2>2, <1>1
<1>9. v.ts = time
  BY DEF v
<1>10. ASSUME NEW i \in DOMAIN new, NEW j \in DOMAIN new, i < j
       PROVE  new[j].ts < new[i].ts
  <2>1. DOMAIN new = 1 .. n + 1
    BY <1>8, LenProperties
  <2>2. j - 1 \in 1 .. n /\ new[j] = versions[j - 1]
    <3>1. j - 1 \in 1 .. n /\ (j - 1) + 1 = j
      BY <1>1, <1>10, <2>1
    <3>. QED BY <1>8, <3>1
  <2>3. CASE i = 1
    BY <1>1, <1>8, <1>9, <2>2, <2>3
  <2>4. CASE i # 1
    <3>1. i - 1 \in 1 .. n /\ new[i] = versions[i - 1] /\ i - 1 < j - 1
      <4>1. i - 1 \in 1 .. n /\ (i - 1) + 1 = i /\ i - 1 < j - 1
        BY <1>1, <1>10, <2>1, <2>4
      <4>. QED BY <1>8, <4>1
    <3>. QED BY <1>1, <2>2, <3>1
  <2>. QED BY <2>3, <2>4
<1>11. VersionsOK(new)
  <2>1. new # << >>
    BY <1>1, <1>8
  <2>. QED BY <1>8, <1>10, <2>1 DEF VersionsOK
<1>12. Extended(new, versions, time, value)
  BY <1>1, <1>8 DEF Extended, n, v
<1>. QED BY <1>11, <1>12

(* A database of versions from which c's prepared transaction has gone, with *)
(* new versions of what it has written.                                        *)
LEMMA OCCFinish ==
  ASSUME NEW K, NEW db, OCCDbOK(db, K), NEW c \in DOMAIN db.prepared,
         NEW d, FinishEffect(d, db, c), DOMAIN d.store = K,
         \A k \in K :
           /\ VersionsOK(d.store[k])
           /\ k \notin DOMAIN db.prepared[c].writes => d.store[k] = db.store[k]
           /\ \A time : HasVersion(db.store[k], time) => HasVersion(d.store[k], time)
  PROVE  OCCDbOK(d, K)
<1>1. TxnsOK(d, K)
  BY DEF OCCDbOK, TxnsOK, FinishEffect
<1>2. ASSUME NEW t, TxnOK(t, K), ReadsOK(db, t) PROVE ReadsOK(d, t)
  BY <1>2 DEF TxnOK, ReadsOK
<1>3. \A e \in DOMAIN d.running : ReadsOK(d, d.running[e])
  BY <1>2, OCCDb DEF FinishEffect
<1>4. ASSUME NEW e \in DOMAIN d.prepared
      PROVE  /\ ReadsOK(d, d.prepared[e]) /\ UpToDate(d, d.prepared[e])
             /\ \A f \in DOMAIN d.prepared \ {e} :
                  WritesApart(d.prepared[e], d.prepared[f])
  <2>1. /\ e \in DOMAIN db.prepared /\ e # c
        /\ \A f \in DOMAIN d.prepared :
             f \in DOMAIN db.prepared /\ d.prepared[f] = db.prepared[f]
    BY DEF FinishEffect
  <2>2. /\ TxnOK(db.prepared[e], K) /\ ReadsOK(db, db.prepared[e])
        /\ UpToDate(db, db.prepared[e]) /\ WritesApart(db.prepared[c], db.prepared[e])
        /\ \A f \in DOMAIN db.prepared \ {e} :
             WritesApart(db.prepared[e], db.prepared[f])
    BY <2>1 DEF OCCDbOK, TxnsOK
  <2>3. UpToDate(d, db.prepared[e])
    <3>. SUFFICES ASSUME NEW k \in DOMAIN db.prepared[e].reads
         PROVE  d.store[k] = db.store[k]
      BY <2>2 DEF UpToDate
    <3>1. k \in K /\ k \notin DOMAIN db.prepared[c].writes
      BY <2>2 DEF WritesApart, TxnOK
    <3>. QED BY <3>1
  <2>. QED BY <2>1, <2>2, <2>3, <1>2
<1>5. DOMAIN d = {"store", "running", "prepared", "retired"}
  BY OCCDb DEF FinishEffect
<1>. QED BY <1>1, <1>3, <1>4, <1>5 DEF OCCDbOK

LEMMA OCCCommit ==
  ASSUME ~Locking, NEW K, NEW db, OCCDbOK(db, K), NEW c \in DOMAIN db.prepared,
         NEW time \in Nat, NEW op, NEW d, d = OCC!commit(db, c, time, op),
         \A k \in DOMAIN db.prepared[c].writes : \A n \in DOMAIN db.store[k] :
           db.store[k][n].ts < time
  PROVE  OCCDbOK(d, K) /\ FinishEffect(d, db, c) /\ CommitEffect(d, db, c, time, K)
<1>. DEFINE t == db.prepared[c]
            old(key) == IF key \in DOMAIN db.store THEN db.store[key] ELSE << >>
            stored == [key \in DOMAIN t.writes |->
                         OCC!Inserted(old(key), [ts |-> time,
                                                 value |-> Last(t.writes[key])])]
            store == Overridden(db.store, stored)
            b == [db EXCEPT !.store = store]
<1>1. /\ {"store", "running", "prepared", "retired"} = DOMAIN db
      /\ DOMAIN db.store = K /\ TxnOK(t, K)
      /\ \A k \in K : VersionsOK(db.store[k])
  BY OCCDb
<1>2. d = [[b EXCEPT !.prepared = Without(@, c)] EXCEPT !.retired =
             Append(@, [op |-> op, txn |-> t, state |-> "COMMITTED"])]
  <2>1. b.prepared[c] = t
    BY <1>1
  <2>. QED BY <2>1, SameOperators DEF OCC!commit, OCC!CommittedTxn, OCC!Retired
<1>3. /\ DOMAIN b = DOMAIN db /\ b.store = store /\ b.running = db.running
      /\ b.prepared = db.prepared
  BY <1>1
<1>. HIDE DEF b
<1>4. FinishEffect(d, db, c) /\ d.store = store
  <2>1. {"store", "running", "prepared", "retired"} \subseteq DOMAIN b
    BY <1>1, <1>3
  <2>2. FinishEffect(d, b, c) /\ d.store = b.store
    <3>. HIDE DEF t
    <3>. QED BY <1>2, <2>1, RetiredIs
  <2>. QED BY <2>2, <1>3 DEF FinishEffect
<1>5. ASSUME NEW k \in DOMAIN t.writes
      PROVE  /\ k \in K /\ VersionsOK(stored[k])
             /\ Extended(stored[k], db.store[k], time, Last(t.writes[k]))
  <2>1. k \in K /\ t.writes[k] \in Seq(Vals) /\ t.writes[k] # << >>
    BY <1>1 DEF TxnOK
  <2>2. Last(t.writes[k]) \in Stored
    BY <2>1, LastIs DEF Stored
  <2>3. VersionsOK(db.store[k]) /\ \A n \in DOMAIN db.store[k] : db.store[k][n].ts < time
    BY <1>1, <2>1
  <2>4. stored[k] = OCC!Inserted(db.store[k], [ts |-> time, value |-> Last(t.writes[k])])
    BY <1>1, <2>1
  <2>. HIDE DEF stored, t
  <2>. QED BY <2>1, <2>2, <2>3, <2>4, InsertedIs
<1>6. DOMAIN stored = DOMAIN t.writes
  OBVIOUS
<1>. HIDE DEF stored
<1>7. /\ DOMAIN d.store = K
      /\ \A k \in K : d.store[k] = IF k \in DOMAIN t.writes THEN stored[k]
                                   ELSE db.store[k]
  <2>1. DOMAIN stored \subseteq K
    BY <1>5, <1>6
  <2>2. /\ DOMAIN store = K
        /\ \A k \in K : store[k] = IF k \in DOMAIN stored THEN stored[k] ELSE db.store[k]
    BY <1>1, <2>1, StoreOverridden
  <2>. QED BY <2>2, <1>4, <1>6
<1>8. ASSUME NEW k \in K
      PROVE  /\ VersionsOK(d.store[k])
             /\ \A v : HasVersion(db.store[k], v) => HasVersion(d.store[k], v)
  <2>1. CASE k \in DOMAIN t.writes
    <3>1. VersionsOK(d.store[k]) /\ Extended(d.store[k], db.store[k], time, Last(t.writes[k]))
      BY <1>5, <1>7, <2>1
    <3>2. /\ DOMAIN db.store[k] = 1 .. Len(db.store[k]) /\ Len(db.store[k]) \in Nat
          /\ DOMAIN d.store[k] = 1 .. Len(d.store[k])
      BY <1>1, <3>1, VersionsAre
    <3>3. ASSUME NEW n \in DOMAIN db.store[k]
          PROVE  n + 1 \in DOMAIN d.store[k] /\ d.store[k][n + 1] = db.store[k][n]
      BY <3>1, <3>2 DEF Extended
    <3>4. ASSUME NEW v, HasVersion(db.store[k], v) PROVE HasVersion(d.store[k], v)
      <4>1. PICK n \in DOMAIN db.store[k] : db.store[k][n].ts = v
        BY <3>4 DEF HasVersion
      <4>. QED BY <4>1, <3>3 DEF HasVersion
    <3>. QED BY <3>1, <3>4
  <2>2. CASE k \notin DOMAIN t.writes
    BY <1>1, <1>7, <2>2
  <2>. QED BY <2>1, <2>2
<1>9. OCCDbOK(d, K)
  BY <1>4, <1>7, <1>8, OCCFinish
<1>10. CommitEffect(d, db, c, time, K)
  BY <1>5, <1>7 DEF CommitEffect
<1>. QED BY <1>4, <1>9, <1>10

LEMMA OCCAbort ==
  ASSUME NEW K, NEW db, OCCDbOK(db, K), NEW c \in DOMAIN db.prepared,
         c \notin DOMAIN db.running, NEW op, NEW d, d = abortTxn(db, op, c)
  PROVE  OCCDbOK(d, K) /\ FinishEffect(d, db, c) /\ d.store = db.store
<1>. DEFINE t == db.prepared[c]
            e == [[db EXCEPT !.prepared = Without(@, c)] EXCEPT !.retired =
                    Append(@, [op |-> op, txn |-> t, state |-> "ABORTED_PREPARED"])]
<1>1. {"store", "running", "prepared", "retired"} = DOMAIN db /\ DOMAIN db.store = K
      /\ \A k \in K : VersionsOK(db.store[k])
  BY OCCDb
<1>2. d = e
  BY DEF abortTxn, AbortedTxn, Retired
<1>3. FinishEffect(e, db, c) /\ e.store = db.store
  BY <1>1, RetiredIs
<1>. HIDE DEF e
<1>4. OCCDbOK(d, K)
  BY <1>1, <1>2, <1>3, OCCFinish
<1>. QED BY <1>2, <1>3, <1>4

-----------------------------------------------------------------------------
(* Either store.                                                             *)

LEMMA DbIs ==
  ASSUME NEW K, NEW db, DbOK(db, K)
  PROVE  /\ {"store", "running", "prepared", "retired"} \subseteq DOMAIN db
         /\ DOMAIN db.store = K
         /\ DOMAIN db.running \subseteq Clients /\ DOMAIN db.prepared \subseteq Clients
         /\ \A c \in DOMAIN db.running : TxnOK(db.running[c], K)
         /\ \A c \in DOMAIN db.prepared : TxnOK(db.prepared[c], K)
BY DEF DbOK, LockDbOK, OCCDbOK, TxnsOK

LEMMA ReadOfStore ==
  ASSUME NEW d, NEW db, d.store = db.store, NEW t, NEW key
  PROVE  ReadOf(d, t, key) = ReadOf(db, t, key)
BY DEF ReadOf, OCC!ValidAt

LEMMA BeginUpcall ==
  ASSUME ~AsBuilt, NEW K, NEW db, DbOK(db, K), NEW c \in Clients,
         c \notin DOMAIN db.prepared, NEW r, r.txnid = c, r.op = "BEGIN",
         NEW op, NEW o \in ReplicaUpcall(db, op, r)
  PROVE  DbOK(o.db, K) /\ RunningIs(o.db, db, c, NewTxn) /\ o.status \in Int
<1>1. o = [db |-> begin(db, c), status |-> 0, value |-> NoValue]
  BY DEF ReplicaUpcall, LockUpcall, OCCUpcall, Result
<1>. QED BY <1>1, LockBegin, OCCBegin DEF DbOK

LEMMA GetUpcall ==
  ASSUME ~AsBuilt, NEW K, NEW db, DbOK(db, K), NEW c \in Clients,
         c \in DOMAIN db.running, c \notin DOMAIN db.prepared,
         NEW r, r.txnid = c, r.op = "GET", r.arg0 \in K,
         NEW op, NEW o \in ReplicaUpcall(db, op, r)
  PROVE  DbOK(o.db, K) /\ ReadEffect(o, db, c, r.arg0)
<1>1. CASE Locking
  <2>1. o \in Lock!get(db, c, r.arg0) /\ LockDbOK(db, K)
    BY <1>1 DEF ReplicaUpcall, LockUpcall, DbOK
  <2>. QED BY <1>1, <2>1, LockGet DEF DbOK
<1>2. CASE ~Locking
  <2>1. o = OCC!get(db, c, r.arg0) /\ OCCDbOK(db, K)
    BY <1>2 DEF ReplicaUpcall, OCCUpcall, DbOK
  <2>. QED BY <1>2, <2>1, OCCGet DEF DbOK
<1>. QED BY <1>1, <1>2

LEMMA PutUpcall ==
  ASSUME ~AsBuilt, NEW K, NEW db, DbOK(db, K), NEW c \in Clients,
         c \in DOMAIN db.running, c \notin DOMAIN db.prepared,
         NEW r, r.txnid = c, r.op = "PUT", r.arg0 \in K, r.arg1 \in Vals,
         NEW op, NEW o \in ReplicaUpcall(db, op, r)
  PROVE  DbOK(o.db, K) /\ WriteEffect(o, db, c, r.arg0, r.arg1)
<1>1. CASE Locking
  <2>1. o \in Lock!put(db, c, r.arg0, r.arg1) /\ LockDbOK(db, K)
    BY <1>1 DEF ReplicaUpcall, LockUpcall, DbOK
  <2>. QED BY <1>1, <2>1, LockPut DEF DbOK
<1>2. CASE ~Locking
  <2>1. o = OCC!put(db, c, r.arg0, r.arg1) /\ OCCDbOK(db, K)
    BY <1>2 DEF ReplicaUpcall, OCCUpcall, DbOK
  <2>. QED BY <1>2, <2>1, OCCPut DEF DbOK
<1>. QED BY <1>1, <1>2

LEMMA PrepareUpcall ==
  ASSUME ~AsBuilt, NEW K, NEW db, DbOK(db, K), NEW c \in Clients,
         c \in DOMAIN db.running, c \notin DOMAIN db.prepared,
         NEW r, r.txnid = c, r.op = "PREPARE",
         NEW op, NEW o \in ReplicaUpcall(db, op, r)
  PROVE  DbOK(o.db, K) /\ PrepareEffect(o, db, c)
<1>1. CASE Locking
  <2>1. o \in Lock!prepare(db, c) /\ LockDbOK(db, K)
    BY <1>1 DEF ReplicaUpcall, LockUpcall, DbOK
  <2>. QED BY <1>1, <2>1, LockPrepare DEF DbOK
<1>2. CASE ~Locking
  <2>1. o = OCC!prepare(db, op, c) /\ OCCDbOK(db, K)
    BY <1>2 DEF ReplicaUpcall, OCCUpcall, DbOK
  <2>. QED BY <1>2, <2>1, OCCPrepare DEF DbOK
<1>. QED BY <1>1, <1>2

(* The timestamp of a commit is greater than those of the versions there.    *)
LEMMA CommitUpcallIs ==
  ASSUME ~AsBuilt, NEW K, NEW db, DbOK(db, K), NEW c \in DOMAIN db.prepared,
         c \notin DOMAIN db.running,
         NEW r, r.txnid = c, r.op = "COMMIT", r.arg0 \in Nat,
         ~Locking => \A k \in DOMAIN db.prepared[c].writes :
                       \A n \in DOMAIN db.store[k] : db.store[k][n].ts < r.arg0,
         NEW op, NEW o \in ReplicaUpcall(db, op, r)
  PROVE  /\ DbOK(o.db, K) /\ FinishEffect(o.db, db, c)
         /\ CommitEffect(o.db, db, c, r.arg0, K) /\ o.status \in Int
<1>1. CASE Locking
  <2>1. /\ o = [db |-> Lock!commit(db, c, op), status |-> 0, value |-> NoValue]
        /\ LockDbOK(db, K)
    BY <1>1 DEF ReplicaUpcall, LockUpcall, DbOK, Result
  <2>2. /\ LockDbOK(o.db, K) /\ FinishEffect(o.db, db, c)
        /\ CommitEffect(o.db, db, c, r.arg0, K)
    BY <1>1, <2>1, LockCommit
  <2>. QED BY <1>1, <2>1, <2>2 DEF DbOK
<1>2. CASE ~Locking
  <2>1. /\ o = [db |-> OCC!commit(db, c, r.arg0, op), status |-> 0, value |-> NoValue]
        /\ OCCDbOK(db, K)
    BY <1>2 DEF ReplicaUpcall, OCCUpcall, DbOK, Result
  <2>2. /\ OCCDbOK(o.db, K) /\ FinishEffect(o.db, db, c)
        /\ CommitEffect(o.db, db, c, r.arg0, K)
    BY <1>2, <2>1, OCCCommit
  <2>. QED BY <1>2, <2>1, <2>2 DEF DbOK
<1>. QED BY <1>1, <1>2

LEMMA AbortUpcall ==
  ASSUME ~AsBuilt, NEW K, NEW db, DbOK(db, K), NEW c \in DOMAIN db.prepared,
         c \notin DOMAIN db.running, NEW r, r.txnid = c, r.op = "ABORT",
         NEW op, NEW o \in ReplicaUpcall(db, op, r)
  PROVE  /\ DbOK(o.db, K) /\ FinishEffect(o.db, db, c)
         /\ o.db.store = db.store /\ o.status \in Int
<1>1. CASE Locking
  <2>1. /\ o = [db |-> Lock!aborted(db, op, c), status |-> 0, value |-> NoValue]
        /\ LockDbOK(db, K)
    BY <1>1 DEF ReplicaUpcall, LockUpcall, DbOK, Result
  <2>. QED BY <1>1, <2>1, LockAbort DEF DbOK
<1>2. CASE ~Locking
  <2>1. /\ o = [db |-> abortTxn(db, op, c), status |-> 0, value |-> NoValue]
        /\ OCCDbOK(db, K)
    BY <1>2 DEF ReplicaUpcall, OCCUpcall, DbOK, Result
  <2>. QED BY <1>2, <2>1, OCCAbort DEF DbOK
<1>. QED BY <1>1, <1>2

(* What a prepared transaction has written nobody else has prepared.         *)
LEMMA PreparedApart ==
  ASSUME NEW K, NEW db, DbOK(db, K), NEW c \in DOMAIN db.prepared,
         NEW e \in DOMAIN db.prepared, e # c
  PROVE  WritesApart(db.prepared[c], db.prepared[e])
<1>1. CASE Locking
  <2>. SUFFICES ASSUME NEW k \in DOMAIN db.prepared[c].writes,
                       k \in DOMAIN db.prepared[e].reads \cup DOMAIN db.prepared[e].writes
       PROVE  FALSE
    BY DEF WritesApart
  <2>1. LockDbOK(db, K)
    BY <1>1 DEF DbOK
  <2>2. k \in K /\ TxnOK(db.prepared[c], K)
    BY <2>1, LockDb DEF TxnOK
  <2>3. /\ Claims(db.locks[k], c, db.prepared[c], k)
        /\ Claims(db.locks[k], e, db.prepared[e], k) /\ Lock!LockOK(db.locks[k])
    BY <2>1, <2>2, LockDb
  <2>4. /\ db.locks[k].state \in Writing
        /\ c \in db.locks[k].holders /\ e \in db.locks[k].holders
    BY <2>3 DEF Claims
  <2>. QED BY <2>3, <2>4 DEF Lock!LockOK, Writing
<1>2. CASE ~Locking
  BY <1>2 DEF DbOK, OCCDbOK
<1>. QED BY <1>1, <1>2

(* What a prepared transaction has read is as it was.                        *)
LEMMA PreparedCurrent ==
  ASSUME NEW K, NEW db, DbOK(db, K), NEW c \in DOMAIN db.prepared,
         NEW key \in DOMAIN db.prepared[c].reads
  PROVE  ReadOf(db, db.prepared[c], key) = Current(db, key)
<1>1. CASE Locking
  BY <1>1 DEF ReadOf, Current
<1>2. CASE ~Locking
  <2>1. OCCDbOK(db, K) /\ key \in K
    BY <1>2, DbIs DEF DbOK, TxnOK
  <2>2. VersionsOK(db.store[key]) /\ db.prepared[c].reads[key].ts = db.store[key][1].ts
    BY <2>1 DEF OCCDbOK, UpToDate
  <2>3. 1 \in DOMAIN db.store[key]
    BY <2>2, VersionsAre
  <2>4. OCC!ValidAt(db, key, db.store[key][1].ts) = db.store[key][1]
    BY <2>2, <2>3, ValidAtIs
  <2>. QED BY <1>2, <2>2, <2>4 DEF ReadOf, Current
<1>. QED BY <1>1, <1>2

(* A commit leaves what the others have read.                                *)
LEMMA CommitKeepsReads ==
  ASSUME NEW K, NEW db, DbOK(db, K), NEW c \in DOMAIN db.prepared,
         NEW d, DbOK(d, K), NEW time, CommitEffect(d, db, c, time, K),
         NEW e, e # c, NEW t,
         \/ e \in DOMAIN db.running /\ t = db.running[e]
         \/ e \in DOMAIN db.prepared /\ t = db.prepared[e],
         NEW key \in DOMAIN t.reads
  PROVE  ReadOf(d, t, key) = ReadOf(db, t, key)
<1>1. key \in K
  BY DbIs DEF TxnOK
<1>2. CASE Locking
  <2>1. LockDbOK(db, K)
    BY <1>2 DEF DbOK
  <2>2. key \notin DOMAIN db.prepared[c].writes
    <3>. SUFFICES ASSUME key \in DOMAIN db.prepared[c].writes PROVE FALSE
      OBVIOUS
    <3>1. /\ Claims(db.locks[key], c, db.prepared[c], key)
          /\ Claims(db.locks[key], e, t, key) /\ Lock!LockOK(db.locks[key])
      BY <1>1, <2>1, LockDb
    <3>2. /\ db.locks[key].state \in Writing
          /\ c \in db.locks[key].holders /\ e \in db.locks[key].holders
      BY <3>1 DEF Claims
    <3>. QED BY <3>1, <3>2 DEF Lock!LockOK, Writing
  <2>3. d.store[key] = db.store[key]
    BY <1>1, <2>2 DEF CommitEffect
  <2>. QED BY <1>2, <2>3 DEF ReadOf
<1>3. CASE ~Locking
  <2>1. OCCDbOK(db, K) /\ OCCDbOK(d, K)
    BY <1>3 DEF DbOK
  <2>2. HasVersion(db.store[key], t.reads[key].ts)
        /\ VersionsOK(db.store[key]) /\ VersionsOK(d.store[key])
    BY <1>1, <2>1, OCCDb DEF ReadsOK
  <2>3. PICK n \in DOMAIN db.store[key] : db.store[key][n].ts = t.reads[key].ts
    BY <2>2 DEF HasVersion
  <2>4. OCC!ValidAt(db, key, t.reads[key].ts) = db.store[key][n]
    BY <2>2, <2>3, ValidAtIs
  <2>5. PICK m \in DOMAIN d.store[key] : d.store[key][m] = db.store[key][n]
    <3>1. CASE key \in DOMAIN db.prepared[c].writes
      <4>1. Extended(d.store[key], db.store[key], time, Last(db.prepared[c].writes[key]))
        BY <1>1, <3>1 DEF CommitEffect
      <4>2. /\ DOMAIN db.store[key] = 1 .. Len(db.store[key]) /\ Len(db.store[key]) \in Nat
            /\ DOMAIN d.store[key] = 1 .. Len(d.store[key])
        BY <2>2, VersionsAre
      <4>3. n + 1 \in DOMAIN d.store[key] /\ d.store[key][n + 1] = db.store[key][n]
        BY <1>3, <4>1, <4>2 DEF Extended
      <4>. QED BY <4>3
    <3>2. CASE key \notin DOMAIN db.prepared[c].writes
      BY <1>1, <3>2 DEF CommitEffect
    <3>. QED BY <3>1, <3>2
  <2>6. OCC!ValidAt(d, key, d.store[key][m].ts) = d.store[key][m]
    BY <2>2, ValidAtIs
  <2>. QED BY <1>3, <2>3, <2>4, <2>5, <2>6 DEF ReadOf
<1>. QED BY <1>2, <1>3

-----------------------------------------------------------------------------
(* The client.                                                               *)

(* What a step of client c leaves: its own invariant, that of each shard,    *)
(* and the same transactions pending.                                          *)
ClientStep(c, s, C, A, t, D, B) ==
  /\ ClientInv(c, t, D, B)
  /\ \A i \in Shards : \A db : ShardInv(c, i, s, C, A, db) => ShardInv(c, i, t, D, B, db)
  /\ \A txn \in Nat : Decided(s, txn) =>
       /\ Decided(t, txn)
       /\ \A i : PendingOf(t, D, B, i, txn) <=> PendingOf(s, C, A, i, txn)

(* It starts no second phase.                                                *)
NoNewCommit(s, C, t, D) ==
  t.pc = "COMMIT" => /\ s.pc = "COMMIT" /\ t.txns = s.txns /\ t.puts = s.puts
                     /\ D \subseteq C

(* s and t have read and written the same.                                   *)
SameData(s, A, t, B) ==
  /\ PutKeys(t, B) = PutKeys(s, A)
  /\ \A key \in PutKeys(s, A) : PutOf(t, B, key) = PutOf(s, A, key)
  /\ ReadsOf(t, B) = ReadsOf(s, A)

LEMMA SameLinked ==
  ASSUME NEW s, NEW A, NEW t, NEW B, SameData(s, A, t, B), NEW i, NEW db, NEW u,
         Linked(i, s, A, db, u)
  PROVE  Linked(i, t, B, db, u)
BY DEF SameData, Linked

LEMMA SameDataOK ==
  ASSUME NEW s, NEW A, NEW t, NEW B, SameData(s, A, t, B), DataOK(s, A),
         s.all_participants \subseteq t.all_participants
  PROVE  DataOK(t, B)
BY DEF SameData, DataOK

(* The shards' part, when nothing else is running and the same is prepared.  *)
LEMMA SameShard ==
  ASSUME NEW c, NEW s, NEW C, NEW A, NEW t, NEW D, NEW B, SameData(s, A, t, B),
         NEW i, NEW db, ShardInv(c, i, s, C, A, db),
         ToRun(t, D, B, i) => ToRun(s, C, A, i),
         IsPrepared(t, D, B, i) <=> IsPrepared(s, C, A, i)
  PROVE  ShardInv(c, i, t, D, B, db)
BY SameLinked DEF ShardInv

(* A client that waits for nobody has no answers coming.                     *)
LEMMA Quiet ==
  ASSUME NEW c, NEW s, NEW C, NEW A, ClientInv(c, s, C, A), s.pc \notin Ops
  PROVE  C = {} /\ A = {}
BY DEF ClientInv, CallsOK, RequestOK, AnswersOK

(* One that waits for one answer has no other.                               *)
LEMMA Alone ==
  ASSUME NEW c, NEW s, NEW C, NEW A, ClientInv(c, s, C, A),
         s.pc \in {"BEGIN", "GET", "PUT"}, NEW a \in A
  PROVE  C = {a.req} /\ A = {a}
BY DEF ClientInv, CallsOK, AnswersOK

LEMMA NoNews ==
  ASSUME NEW s, NEW A,
         \A a \in A : a.req.op \notin {"GET", "PUT"}
  PROVE  /\ NewReads(s, A) = {} /\ ReadsOf(s, A) = s.reads
         /\ NewPuts(A) = {} /\ PutKeys(s, A) = DOMAIN s.puts
         /\ \A key : PutOf(s, A, key) = s.puts[key]
BY DEF NewReads, ReadsOf, NewPuts, PutKeys, PutOf

LEMMA NothingNew ==
  ASSUME NEW s, NEW A, \A a \in A : a.req.op \notin {"GET", "PUT"},
         NEW t, NEW B, \A b \in B : b.req.op \notin {"GET", "PUT"},
         t.reads = s.reads, t.puts = s.puts
  PROVE  SameData(s, A, t, B)
<1>1. /\ ReadsOf(s, A) = s.reads /\ PutKeys(s, A) = DOMAIN s.puts
      /\ \A key : PutOf(s, A, key) = s.puts[key]
  BY NoNews
<1>2. /\ ReadsOf(t, B) = t.reads /\ PutKeys(t, B) = DOMAIN t.puts
      /\ \A key : PutOf(t, B, key) = t.puts[key]
  BY NoNews
<1>. QED BY <1>1, <1>2 DEF SameData

LEMMA ShardOfKey ==
  ASSUME NEW key \in Keys
  PROVE  key_to_shard(key) \in Shards /\ \A i \in Shards : key \in KeysOf(i) <=> key_to_shard(key) = i
<1>1. key \in Nat /\ NShards \in Nat /\ NShards > 0
  BY NiStoreAssumption
<1>2. key % NShards \in 0 .. NShards - 1
  BY <1>1
<1>. QED BY <1>2 DEF key_to_shard, Shards, KeysOf

LEMMA FewShards ==
  ASSUME NEW S, S \subseteq Shards
  PROVE  IsFiniteSet(S) /\ Cardinality(S) \in Nat
<1>1. NShards - 1 \in Int
  BY NiStoreAssumption
<1>2. IsFiniteSet(Shards)
  BY <1>1, FS_Interval DEF Shards
<1>3. IsFiniteSet(S)
  BY <1>2, FS_Subset
<1>. QED BY <1>3, FS_CardinalityType

LEMMA BeginStep ==
  ASSUME NEW c \in Clients, NEW s, NEW C, NEW A, ClientInv(c, s, C, A),
         s.pc = "idle", NEW t, DOMAIN t = ClientFields,
         t.pc = "open", t.txns = s.txns + 1, t.sent \in Nat,
         t.all_participants = {}, t.yes_participants = {}, t.nreplies = 0,
         t.reads = {}, DOMAIN t.puts = {}
  PROVE  ClientStep(c, s, C, A, t, C, A) /\ NoNewCommit(s, C, t, C)
<1>1. C = {} /\ A = {}
  BY Quiet DEF Ops
<1>2. s.txns \in Nat
  BY DEF ClientInv, ClientTyped
<1>4. ReadsOf(t, A) = {} /\ PutKeys(t, A) = {}
  BY <1>1, NoNews
<1>5. ClientInv(c, t, C, A)
  <2>1. ClientTyped(t)
    BY <1>2 DEF ClientTyped, Pcs
  <2>2. DataOK(t, A)
    BY <1>4 DEF DataOK
  <2>3. CallsOK(c, t, C) /\ AnswersOK(C, A)
    BY <1>1 DEF CallsOK, AnswersOK
  <2>4. VotesOK(t, C)
    BY DEF VotesOK
  <2>. QED BY <2>1, <2>2, <2>3, <2>4 DEF ClientInv
<1>6. ASSUME NEW i, NEW db, ShardInv(c, i, s, C, A, db)
      PROVE  ShardInv(c, i, t, C, A, db)
  <2>1. ~ToRun(t, C, A, i) /\ ~IsPrepared(t, C, A, i) /\ ~IsPrepared(s, C, A, i)
    BY DEF ToRun, IsPrepared
  <2>. QED BY <1>6, <2>1 DEF ShardInv
<1>7. ASSUME NEW txn \in Nat, Decided(s, txn)
      PROVE  /\ Decided(t, txn)
             /\ \A i : PendingOf(t, C, A, i, txn) <=> PendingOf(s, C, A, i, txn)
  BY <1>2, <1>7 DEF Decided, PendingOf
<1>. QED BY <1>5, <1>6, <1>7 DEF ClientStep, NoNewCommit

(* t goes on with the transaction of s.                                      *)
GoesOn(s, t) == DOMAIN t = ClientFields /\ t.txns = s.txns /\ t.sent \in Nat

LEMMA SameDecided ==
  ASSUME NEW s, s.txns \in Nat, s.pc \notin {"COMMIT", "idle"},
         NEW t, t.txns = s.txns, NEW C, NEW A, NEW D, NEW B,
         NEW txn \in Nat, Decided(s, txn)
  PROVE  /\ Decided(t, txn)
         /\ \A i : PendingOf(t, D, B, i, txn) <=> PendingOf(s, C, A, i, txn)
BY DEF Decided, PendingOf

(* The parts of a step.                                                      *)
LEMMA StepParts ==
  ASSUME NEW c, NEW s, NEW C, NEW A, NEW t, NEW D, NEW B,
         ClientInv(c, s, C, A), s.pc \notin {"COMMIT", "idle"}, GoesOn(s, t),
         ClientTyped(t), DataOK(t, B), CallsOK(c, t, D), AnswersOK(D, B), VotesOK(t, D),
         \A i \in Shards : \A db : ShardInv(c, i, s, C, A, db) => ShardInv(c, i, t, D, B, db)
  PROVE  ClientStep(c, s, C, A, t, D, B)
<1>1. s.txns \in Nat /\ t.txns = s.txns
  BY DEF ClientInv, ClientTyped, GoesOn
<1>. QED BY <1>1, SameDecided DEF ClientStep, ClientInv

LEMMA Fields ==
  ASSUME NEW c, NEW s, NEW C, NEW A, ClientInv(c, s, C, A)
  PROVE  /\ DOMAIN s = ClientFields /\ s.pc \in Pcs
         /\ s.txns \in Nat /\ s.sent \in Nat /\ s.nreplies \in Nat
         /\ s.all_participants \subseteq Shards
         /\ s.yes_participants \subseteq s.all_participants
BY DEF ClientInv, ClientTyped

(* An operation is sent to a shard that takes part.                          *)
LEMMA OperateStep ==
  ASSUME NEW c \in Clients, NEW s, NEW C, NEW A, ClientInv(c, s, C, A),
         s.pc = "open", NEW op, NEW key, NEW value, OperationOK(op, key, value),
         key_to_shard(key) \in s.all_participants,
         NEW r, r.txnid = c, r.shard = key_to_shard(key), r.op = op,
         r.arg0 = key, r.arg1 = value,
         NEW t, GoesOn(s, t), t.pc = op, t.nreplies \in Nat,
         t.all_participants = s.all_participants,
         t.yes_participants = s.yes_participants, t.reads = s.reads, t.puts = s.puts
  PROVE  ClientStep(c, s, C, A, t, C \cup {r}, A) /\ NoNewCommit(s, C, t, C \cup {r})
<1>1. C = {} /\ A = {}
  BY Quiet DEF Ops
<1>2. op \in {"GET", "PUT"}
  BY DEF OperationOK
<1>. DEFINE D == C \cup {r}
<1>3. D = {r}
  BY <1>1
<1>. HIDE DEF D
<1>4. SameData(s, A, t, A)
  BY <1>1, NothingNew
<1>5. ClientTyped(t)
  BY <1>2, Fields DEF ClientTyped, GoesOn, Pcs, Ops
<1>6. DataOK(t, A)
  BY <1>4, SameDataOK DEF ClientInv
<1>7. CallsOK(c, t, D)
  <2>1. RequestOK(c, t, r)
    BY <1>2 DEF RequestOK, Ops
  <2>. QED BY <1>3, <2>1 DEF CallsOK
<1>8. AnswersOK(D, A)
  BY <1>1 DEF AnswersOK
<1>9. VotesOK(t, D)
  BY <1>2 DEF VotesOK, ClientInv
<1>10. ASSUME NEW i, NEW db, ShardInv(c, i, s, C, A, db)
       PROVE  ShardInv(c, i, t, D, A, db)
  <2>1. ToRun(t, D, A, i) => ToRun(s, C, A, i)
    BY <1>2 DEF ToRun
  <2>2. ~IsPrepared(t, D, A, i) /\ ~IsPrepared(s, C, A, i)
    BY <1>2 DEF IsPrepared
  <2>. QED BY <1>4, <1>10, <2>1, <2>2, SameShard
<1>11. ClientStep(c, s, C, A, t, D, A)
  BY <1>5, <1>6, <1>7, <1>8, <1>9, <1>10, StepParts
<1>12. NoNewCommit(s, C, t, D)
  BY <1>2 DEF NoNewCommit
<1>. QED BY <1>11, <1>12 DEF D

(* A shard is told that it takes part.                                       *)
LEMMA EnlistStep ==
  ASSUME NEW c \in Clients, NEW s, NEW C, NEW A, ClientInv(c, s, C, A),
         s.pc = "open", NEW op, NEW key, NEW value, OperationOK(op, key, value),
         key_to_shard(key) \notin s.all_participants,
         NEW r, r.txnid = c, r.shard = key_to_shard(key), r.op = "BEGIN",
         NEW t, GoesOn(s, t), t.pc = "BEGIN", t.nreplies \in Nat,
         t.next.op = op, t.next.arg0 = key, t.next.arg1 = value,
         t.all_participants = s.all_participants \cup {key_to_shard(key)},
         t.yes_participants = s.yes_participants, t.reads = s.reads, t.puts = s.puts
  PROVE  ClientStep(c, s, C, A, t, C \cup {r}, A) /\ NoNewCommit(s, C, t, C \cup {r})
<1>1. C = {} /\ A = {}
  BY Quiet DEF Ops
<1>2. op \in {"GET", "PUT"} /\ key \in Keys /\ key_to_shard(key) \in Shards
  BY ShardOfKey DEF OperationOK
<1>. DEFINE D == C \cup {r}
<1>3. D = {r}
  BY <1>1
<1>. HIDE DEF D
<1>4. ReadsOf(s, A) = s.reads /\ PutKeys(s, A) = DOMAIN s.puts
  BY <1>1, NoNews
<1>5. SameData(s, A, t, A)
  BY <1>1, NothingNew
<1>6. ClientTyped(t)
  <2>1. /\ s.all_participants \subseteq Shards /\ s.txns \in Nat
        /\ s.yes_participants \subseteq s.all_participants
    BY Fields
  <2>. QED BY <1>2, <2>1 DEF ClientTyped, GoesOn, Pcs, Ops
<1>7. DataOK(t, A)
  BY <1>5, SameDataOK DEF ClientInv
<1>8. CallsOK(c, t, D)
  <2>1. /\ \A k \in DOMAIN s.puts : key_to_shard(k) \in s.all_participants
        /\ \A rd \in s.reads : key_to_shard(rd.key) \in s.all_participants
    BY <1>4 DEF ClientInv, DataOK
  <2>2. RequestOK(c, t, r)
    BY <2>1 DEF RequestOK, Ops
  <2>. QED BY <1>3, <2>2 DEF CallsOK
<1>9. AnswersOK(D, A)
  BY <1>1 DEF AnswersOK
<1>10. VotesOK(t, D)
  BY DEF VotesOK, ClientInv
<1>11. ASSUME NEW i, NEW db, ShardInv(c, i, s, C, A, db)
       PROVE  ShardInv(c, i, t, D, A, db)
  <2>1. ToRun(t, D, A, i) => ToRun(s, C, A, i)
    <3>1. UnexecutedAt(D, A, key_to_shard(key))
      BY <1>1, <1>3 DEF UnexecutedAt
    <3>. QED BY <3>1 DEF ToRun
  <2>2. ~IsPrepared(t, D, A, i) /\ ~IsPrepared(s, C, A, i)
    BY DEF IsPrepared
  <2>. QED BY <1>5, <1>11, <2>1, <2>2, SameShard
<1>12. ClientStep(c, s, C, A, t, D, A)
  BY <1>6, <1>7, <1>8, <1>9, <1>10, <1>11, StepParts
<1>13. NoNewCommit(s, C, t, D)
  BY DEF NoNewCommit
<1>. QED BY <1>12, <1>13 DEF D

(* The shard takes part: the operation follows.                              *)
LEMMA BegunStep ==
  ASSUME NEW c \in Clients, NEW s, NEW C, NEW A, ClientInv(c, s, C, A),
         s.pc = "BEGIN", NEW a \in A,
         NEW r, r.txnid = c, r.shard = a.req.shard, r.op = s.next.op,
         r.arg0 = s.next.arg0, r.arg1 = s.next.arg1,
         NEW t, GoesOn(s, t), t.pc = s.next.op, t.nreplies \in Nat,
         t.all_participants = s.all_participants,
         t.yes_participants = s.yes_participants, t.reads = s.reads, t.puts = s.puts
  PROVE  /\ ClientStep(c, s, C, A, t, (C \ {a.req}) \cup {r}, A \ {a})
         /\ NoNewCommit(s, C, t, (C \ {a.req}) \cup {r})
<1>1. C = {a.req} /\ A = {a}
  BY Alone
<1>2. /\ OperationOK(s.next.op, s.next.arg0, s.next.arg1) /\ a.req.op = "BEGIN"
      /\ a.req.shard = key_to_shard(s.next.arg0) /\ a.req.shard \in s.all_participants
  BY <1>1 DEF ClientInv, CallsOK, RequestOK
<1>3. s.next.op \in {"GET", "PUT"}
  BY <1>2 DEF OperationOK
<1>. DEFINE D == (C \ {a.req}) \cup {r}
            B == A \ {a}
<1>4. D = {r} /\ B = {}
  BY <1>1
<1>. HIDE DEF D, B
<1>5. SameData(s, A, t, B)
  BY <1>1, <1>2, <1>4, NothingNew
<1>6. ClientTyped(t)
  BY <1>3, Fields DEF ClientTyped, GoesOn, Pcs, Ops
<1>7. DataOK(t, B)
  BY <1>5, SameDataOK DEF ClientInv
<1>8. CallsOK(c, t, D)
  <2>1. RequestOK(c, t, r)
    BY <1>2, <1>3 DEF RequestOK, Ops
  <2>. QED BY <1>4, <2>1 DEF CallsOK
<1>9. AnswersOK(D, B)
  BY <1>4 DEF AnswersOK
<1>10. VotesOK(t, D)
  BY <1>3 DEF VotesOK, ClientInv
<1>11. ASSUME NEW i, NEW db, ShardInv(c, i, s, C, A, db)
       PROVE  ShardInv(c, i, t, D, B, db)
  <2>1. ToRun(t, D, B, i) => ToRun(s, C, A, i)
    <3>1. ~UnexecutedAt(C, A, i)
      BY <1>1 DEF UnexecutedAt
    <3>. QED BY <1>3, <3>1 DEF ToRun
  <2>2. ~IsPrepared(t, D, B, i) /\ ~IsPrepared(s, C, A, i)
    BY <1>3 DEF IsPrepared
  <2>. QED BY <1>5, <1>11, <2>1, <2>2, SameShard
<1>12. ClientStep(c, s, C, A, t, D, B)
  BY <1>6, <1>7, <1>8, <1>9, <1>10, <1>11, StepParts
<1>13. NoNewCommit(s, C, t, D)
  BY <1>3 DEF NoNewCommit
<1>. QED BY <1>12, <1>13 DEF D, B

(* The answer to a read or a write is what the client has it for.            *)
LEMMA AnsweredStep ==
  ASSUME NEW c \in Clients, NEW s, NEW C, NEW A, ClientInv(c, s, C, A),
         s.pc \in {"GET", "PUT"}, NEW a \in A,
         NEW t, GoesOn(s, t), t.pc = "open", t.nreplies \in Nat,
         t.all_participants = s.all_participants,
         t.yes_participants = s.yes_participants, SameData(s, A, t, A \ {a})
  PROVE  /\ ClientStep(c, s, C, A, t, C \ {a.req}, A \ {a})
         /\ NoNewCommit(s, C, t, C \ {a.req})
<1>. DEFINE D == C \ {a.req}
            B == A \ {a}
<1>1. D = {} /\ B = {}
  BY Alone
<1>2. SameData(s, A, t, B)
  OBVIOUS
<1>. HIDE DEF D, B
<1>3. ClientTyped(t)
  BY Fields DEF ClientTyped, GoesOn, Pcs
<1>4. DataOK(t, B)
  BY <1>2, SameDataOK DEF ClientInv
<1>5. CallsOK(c, t, D) /\ AnswersOK(D, B)
  BY <1>1 DEF CallsOK, AnswersOK
<1>6. VotesOK(t, D)
  BY DEF VotesOK, ClientInv
<1>7. ASSUME NEW i, NEW db, ShardInv(c, i, s, C, A, db)
      PROVE  ShardInv(c, i, t, D, B, db)
  <2>1. ToRun(t, D, B, i) => ToRun(s, C, A, i)
    BY DEF ToRun
  <2>2. ~IsPrepared(t, D, B, i) /\ ~IsPrepared(s, C, A, i)
    BY DEF IsPrepared
  <2>. QED BY <1>2, <1>7, <2>1, <2>2, SameShard
<1>8. ClientStep(c, s, C, A, t, D, B)
  BY <1>3, <1>4, <1>5, <1>6, <1>7, StepParts
<1>9. NoNewCommit(s, C, t, D)
  BY DEF NoNewCommit
<1>. QED BY <1>8, <1>9 DEF D, B

LEMMA GotData ==
  ASSUME NEW s, NEW a, a.req.op = "GET", NEW t, t.puts = s.puts,
         t.reads = IF a.status >= 0
                   THEN s.reads \cup {[key |-> a.req.arg0, value |-> a.value,
                                       own |-> Own(s, a.req.arg0)]}
                   ELSE s.reads
  PROVE  SameData(s, {a}, t, {})
<1>1. NewPuts({a}) = {} /\ NewPuts({}) = {} /\ NewReads(t, {}) = {}
  BY DEF NewPuts, NewReads
<1>2. NewReads(s, {a}) = IF a.status >= 0
                         THEN {[key |-> a.req.arg0, value |-> a.value,
                                own |-> Own(s, a.req.arg0)]} ELSE {}
  BY DEF NewReads
<1>3. ReadsOf(t, {}) = ReadsOf(s, {a})
  BY <1>1, <1>2 DEF ReadsOf
<1>4. /\ PutKeys(t, {}) = PutKeys(s, {a})
      /\ \A key : PutOf(t, {}, key) = PutOf(s, {a}, key)
  BY <1>1 DEF PutKeys, PutOf
<1>. QED BY <1>3, <1>4 DEF SameData

LEMMA PutData ==
  ASSUME NEW s, NEW a, a.req.op = "PUT", NEW t, t.reads = s.reads,
         t.puts = IF a.status >= 0 THEN With(s.puts, a.req.arg0, a.req.arg1)
                  ELSE s.puts
  PROVE  SameData(s, {a}, t, {})
<1>1. NewReads(t, {}) = {} /\ NewReads(s, {a}) = {}
  BY DEF NewReads
<1>2. ReadsOf(t, {}) = ReadsOf(s, {a})
  BY <1>1 DEF ReadsOf
<1>3. NewPuts({}) = {} /\ NewPuts({a}) = IF a.status >= 0 THEN {a} ELSE {}
  BY DEF NewPuts
<1>4. /\ PutKeys(t, {}) = DOMAIN t.puts /\ \A key : PutOf(t, {}, key) = t.puts[key]
  BY <1>3 DEF PutKeys, PutOf
<1>5. CASE a.status >= 0
  <2>1. PutKeys(s, {a}) = DOMAIN s.puts \cup {a.req.arg0}
    BY <1>3, <1>5 DEF PutKeys
  <2>2. PutOf(s, {a}, a.req.arg0) = a.req.arg1
    BY <1>3, <1>5 DEF PutOf
  <2>3. \A key : key # a.req.arg0 => PutOf(s, {a}, key) = s.puts[key]
    BY <1>3, <1>5 DEF PutOf
  <2>4. /\ DOMAIN t.puts = DOMAIN s.puts \cup {a.req.arg0}
        /\ t.puts[a.req.arg0] = a.req.arg1
        /\ \A key \in DOMAIN s.puts \ {a.req.arg0} : t.puts[key] = s.puts[key]
    BY <1>5 DEF With, Overridden
  <2>. QED BY <1>2, <1>4, <2>1, <2>2, <2>3, <2>4 DEF SameData
<1>6. CASE ~(a.status >= 0)
  <2>1. PutKeys(s, {a}) = DOMAIN s.puts /\ \A key : PutOf(s, {a}, key) = s.puts[key]
    BY <1>3, <1>6 DEF PutKeys, PutOf
  <2>. QED BY <1>2, <1>4, <1>6, <2>1 DEF SameData
<1>. QED BY <1>5, <1>6

(* One request for each of the shards.                                       *)
Broadcast(D, c, S, op) ==
  /\ \A r \in D : r.txnid = c /\ r.op = op /\ r.shard \in S
  /\ \A i \in S : \E r \in D : r.shard = i
  /\ \A r, q \in D : r.shard = q.shard => r = q

LEMMA ToAllIs ==
  ASSUME NEW c, NEW s, NEW S, NEW op, NEW arg0
  PROVE  /\ Broadcast(ToAll(c, s, S, op, arg0), c, S, op)
         /\ \A r \in ToAll(c, s, S, op, arg0) : r.arg0 = arg0
<1>1. \A i \in S : Request(c, s, i, op, arg0, NoValue) \in ToAll(c, s, S, op, arg0)
  BY DEF ToAll
<1>2. \A r \in ToAll(c, s, S, op, arg0) : \E i \in S : r = Request(c, s, i, op, arg0, NoValue)
  BY DEF ToAll
<1>3. \A i : LET r == Request(c, s, i, op, arg0, NoValue)
             IN  r.txnid = c /\ r.op = op /\ r.shard = i /\ r.arg0 = arg0
  BY DEF Request
<1>. QED BY <1>1, <1>2, <1>3 DEF Broadcast

LEMMA BroadcastIs ==
  ASSUME NEW D, NEW c, NEW S, NEW op, Broadcast(D, c, S, op)
  PROVE  /\ Waiting(D) = S /\ S \ Waiting(D) = {}
         /\ \A i : UnexecutedAt(D, {}, i) <=> i \in S
BY DEF Broadcast, Waiting, UnexecutedAt

(* The first phase: everyone is asked.                                       *)
LEMMA AskStep ==
  ASSUME NEW c \in Clients, NEW s, NEW C, NEW A, ClientInv(c, s, C, A),
         s.pc = "open", NEW D, Broadcast(D, c, s.all_participants, "PREPARE"),
         NEW t, GoesOn(s, t), t.pc = "PREPARE", t.nreplies = 0,
         t.all_participants = s.all_participants,
         t.yes_participants = s.yes_participants, t.reads = s.reads, t.puts = s.puts
  PROVE  ClientStep(c, s, C, A, t, C \cup D, A) /\ NoNewCommit(s, C, t, C \cup D)
<1>1. C = {} /\ A = {}
  BY Quiet DEF Ops
<1>2. C \cup D = D
  BY <1>1
<1>3. SameData(s, A, t, A)
  BY <1>1, NothingNew
<1>4. ClientTyped(t)
  BY Fields DEF ClientTyped, GoesOn, Pcs, Ops
<1>5. DataOK(t, A)
  BY <1>3, SameDataOK DEF ClientInv
<1>6. CallsOK(c, t, D)
  BY DEF CallsOK, RequestOK, Broadcast, Ops
<1>7. AnswersOK(D, A)
  BY <1>1 DEF AnswersOK
<1>8. s.yes_participants = {}
  BY DEF ClientInv, VotesOK
<1>9. VotesOK(t, D)
  <2>1. s.all_participants \ Waiting(D) = {} /\ Cardinality({}) = 0
    BY BroadcastIs, FS_EmptySet
  <2>. QED BY <1>8, <2>1 DEF VotesOK
<1>10. ASSUME NEW i, NEW db, ShardInv(c, i, s, C, A, db)
       PROVE  ShardInv(c, i, t, D, A, db)
  <2>1. ToRun(t, D, A, i) => ToRun(s, C, A, i)
    <3>1. UnexecutedAt(D, A, i) => i \in s.all_participants
      BY <1>1, BroadcastIs
    <3>. QED BY <3>1 DEF ToRun
  <2>2. ~IsPrepared(t, D, A, i) /\ ~IsPrepared(s, C, A, i)
    BY <1>1, <1>8 DEF IsPrepared, Voted
  <2>. QED BY <1>3, <1>10, <2>1, <2>2, SameShard
<1>11. ClientStep(c, s, C, A, t, D, A)
  BY <1>4, <1>5, <1>6, <1>7, <1>9, <1>10, StepParts
<1>. QED BY <1>2, <1>11 DEF NoNewCommit

(* One answer less to wait for.                                              *)
LEMMA WaitedFor ==
  ASSUME NEW c, NEW s, NEW C, NEW A, ClientInv(c, s, C, A), NEW a \in A
  PROVE  a.req.shard \in Waiting(C)
BY DEF ClientInv, AnswersOK, Waiting

LEMMA FewerWaiting ==
  ASSUME NEW c, NEW s, NEW C, NEW A, ClientInv(c, s, C, A), NEW a \in A
  PROVE  Waiting(C \ {a.req}) = Waiting(C) \ {a.req.shard}
<1>1. a.req \in C /\ \A r, q \in C : r.shard = q.shard => r = q
  BY DEF ClientInv, CallsOK, AnswersOK
<1>. QED BY <1>1 DEF Waiting

LEMMA NobodyLeft ==
  ASSUME NEW c, NEW s, NEW C, NEW A, ClientInv(c, s, C, A), NEW a \in A
  PROVE  Waiting(C \ {a.req}) = {} => C \ {a.req} = {} /\ A \ {a} = {}
<1>1. \A b \in A : b.req \in C /\ (b.req = a.req => b = a)
  BY DEF ClientInv, AnswersOK
<1>2. C \ {a.req} # {} => Waiting(C \ {a.req}) # {}
  BY DEF Waiting
<1>3. C \ {a.req} = {} => A \ {a} = {}
  BY <1>1
<1>. QED BY <1>2, <1>3

LEMMA OneLess ==
  ASSUME NEW S, S \subseteq Shards, NEW W, W \subseteq S, NEW x \in W
  PROVE  /\ Cardinality(S \ (W \ {x})) = Cardinality(S \ W) + 1
         /\ Cardinality(S \ (W \ {x})) = Cardinality(S) => W \ {x} = {}
<1>1. S \ (W \ {x}) = (S \ W) \cup {x}
  OBVIOUS
<1>2. IsFiniteSet(S) /\ IsFiniteSet(S \ W)
  <2>1. S \ W \subseteq Shards
    OBVIOUS
  <2>. QED BY <2>1, FewShards
<1>3. Cardinality((S \ W) \cup {x}) = Cardinality(S \ W) + 1
  BY <1>2, FS_AddElement
<1>4. ASSUME Cardinality(S \ (W \ {x})) = Cardinality(S) PROVE W \ {x} = {}
  <2>1. S \ (W \ {x}) = S
    BY <1>2, <1>4, FS_Subset
  <2>. QED BY <2>1
<1>. QED BY <1>1, <1>3, <1>4

(* An answer that is accepted was executed, whether it is on its way or not. *)
LEMMA StillUnexecuted ==
  ASSUME NEW C, NEW A, AnswersOK(C, A), NEW a \in A, NEW i
  PROVE  UnexecutedAt(C \ {a.req}, A \ {a}, i) <=> UnexecutedAt(C, A, i)
BY DEF UnexecutedAt, AnswersOK

(* The answers of the two phases say nothing of the data.                    *)
LEMMA NoDataComing ==
  ASSUME NEW c, NEW s, NEW C, NEW A, ClientInv(c, s, C, A), s.pc \notin {"GET", "PUT"}
  PROVE  \A a \in A : a.req.op = s.pc /\ a.req.op \notin {"GET", "PUT"}
BY DEF ClientInv, AnswersOK, CallsOK, RequestOK

LEMMA FewerCalls ==
  ASSUME NEW c, NEW s, NEW C, NEW A, ClientInv(c, s, C, A), NEW a \in A,
         NEW t, t.pc = s.pc, s.pc \in {"PREPARE", "COMMIT", "ABORT"},
         t.all_participants = s.all_participants,
         s.yes_participants \subseteq t.yes_participants
  PROVE  CallsOK(c, t, C \ {a.req}) /\ AnswersOK(C \ {a.req}, A \ {a})
BY DEF ClientInv, CallsOK, RequestOK, AnswersOK

(* The last one.                                                             *)
LEMMA LastVote ==
  ASSUME NEW c, NEW s, NEW C, NEW A, ClientInv(c, s, C, A),
         s.pc = "PREPARE", NEW a \in A,
         s.nreplies + 1 = Cardinality(s.all_participants)
  PROVE  C \ {a.req} = {} /\ A \ {a} = {}
<1>. DEFINE D == C \ {a.req}
            B == A \ {a}
            S == s.all_participants
<1>3. \A r \in C : r.shard \in S
  BY DEF ClientInv, CallsOK, RequestOK
<1>4. S \subseteq Shards
  BY Fields
<1>5. /\ Cardinality(S \ Waiting(D)) = Cardinality(S \ Waiting(C)) + 1
      /\ Cardinality(S \ Waiting(D)) = Cardinality(S) => D = {} /\ B = {}
  <2>1. Waiting(C) \subseteq S
    BY <1>3 DEF Waiting
  <2>2. a.req.shard \in Waiting(C)
    BY WaitedFor
  <2>3. Waiting(D) = Waiting(C) \ {a.req.shard}
    BY FewerWaiting
  <2>4. Waiting(D) = {} => D = {} /\ B = {}
    BY NobodyLeft
  <2>. DEFINE W == Waiting(C)
              x == a.req.shard
  <2>5. x \in W /\ W \subseteq S /\ S \subseteq Shards
    BY <1>4, <2>1, <2>2
  <2>. HIDE DEF W, x, S
  <2>6. /\ Cardinality(S \ (W \ {x})) = Cardinality(S \ W) + 1
        /\ Cardinality(S \ (W \ {x})) = Cardinality(S) => W \ {x} = {}
    BY <2>5, OneLess
  <2>. QED BY <2>1, <2>2, <2>3, <2>4, <2>5, <2>6 DEF W, x
<1>6. s.nreplies = Cardinality(S \ Waiting(C))
  BY DEF ClientInv, VotesOK
<1>. QED BY <1>5, <1>6

(* A vote is counted.                                                        *)
LEMMA VoteStep ==
  ASSUME NEW c \in Clients, NEW s, NEW C, NEW A, ClientInv(c, s, C, A),
         s.pc = "PREPARE", NEW a \in A,
         NEW t, GoesOn(s, t), t.pc = "PREPARE", t.nreplies = s.nreplies + 1,
         t.status = (s.status /\ a.status >= 0),
         t.yes_participants = IF a.status >= 0
                              THEN s.yes_participants \cup {a.req.shard}
                              ELSE s.yes_participants,
         t.all_participants = s.all_participants, t.reads = s.reads, t.puts = s.puts
  PROVE  /\ ClientStep(c, s, C, A, t, C \ {a.req}, A \ {a})
         /\ NoNewCommit(s, C, t, C \ {a.req})
<1>. DEFINE D == C \ {a.req}
            B == A \ {a}
            S == s.all_participants
<1>1. \A b \in A : b.req.op \notin {"GET", "PUT"}
  BY NoDataComing
<1>2. SameData(s, A, t, B)
  BY <1>1, NothingNew
<1>3. \A r \in C : r.shard \in S
  BY DEF ClientInv, CallsOK, RequestOK
<1>4. /\ S \subseteq Shards /\ s.yes_participants \subseteq S /\ s.nreplies \in Nat
      /\ s.txns \in Nat
  BY Fields
<1>5. /\ Waiting(D) = Waiting(C) \ {a.req.shard}
      /\ a.req.shard \in S /\ a.req.shard \in Waiting(C)
      /\ Cardinality(S \ Waiting(D)) = Cardinality(S \ Waiting(C)) + 1
      /\ Cardinality(S \ Waiting(D)) = Cardinality(S) => D = {} /\ B = {}
  <2>1. Waiting(C) \subseteq S
    BY <1>3 DEF Waiting
  <2>2. a.req.shard \in Waiting(C)
    BY WaitedFor
  <2>3. Waiting(D) = Waiting(C) \ {a.req.shard}
    BY FewerWaiting
  <2>4. Waiting(D) = {} => D = {} /\ B = {}
    BY NobodyLeft
  <2>. DEFINE W == Waiting(C)
              x == a.req.shard
  <2>5. x \in W /\ W \subseteq S /\ S \subseteq Shards
    BY <1>4, <2>1, <2>2
  <2>. HIDE DEF W, x, S
  <2>6. /\ Cardinality(S \ (W \ {x})) = Cardinality(S \ W) + 1
        /\ Cardinality(S \ (W \ {x})) = Cardinality(S) => W \ {x} = {}
    BY <2>5, OneLess
  <2>. QED BY <2>1, <2>2, <2>3, <2>4, <2>5, <2>6 DEF W, x
<1>6. /\ s.nreplies = Cardinality(S \ Waiting(C))
      /\ s.yes_participants \cap Waiting(C) = {}
      /\ s.status => s.yes_participants = S \ Waiting(C)
  BY DEF ClientInv, VotesOK
<1>7. ClientTyped(t)
  BY <1>4, <1>5 DEF ClientTyped, GoesOn, Pcs, Ops
<1>8. DataOK(t, B)
  BY <1>2, SameDataOK DEF ClientInv
<1>9. CallsOK(c, t, D) /\ AnswersOK(D, B)
  BY FewerCalls
<1>10. VotesOK(t, D)
  <2>1. t.nreplies = Cardinality(t.all_participants \ Waiting(D))
    BY <1>5, <1>6
  <2>2. t.yes_participants \cap Waiting(D) = {}
    BY <1>5, <1>6
  <2>3. t.status => t.yes_participants = t.all_participants \ Waiting(D)
    BY <1>5, <1>6
  <2>. QED BY <2>1, <2>2, <2>3 DEF VotesOK
<1>11. ASSUME NEW i \in Shards, NEW db, ShardInv(c, i, s, C, A, db)
       PROVE  ShardInv(c, i, t, D, B, db)
  <2>1. ToRun(t, D, B, i) => ToRun(s, C, A, i)
    <3>1. UnexecutedAt(D, B, i) <=> UnexecutedAt(C, A, i)
      BY StillUnexecuted DEF ClientInv
    <3>. QED BY <3>1 DEF ToRun
  <2>2. IsPrepared(t, D, B, i) <=> IsPrepared(s, C, A, i)
    <3>1. i \in t.yes_participants \/ Voted(B, i)
            <=> i \in s.yes_participants \/ Voted(A, i)
      BY DEF Voted
    <3>. QED BY <3>1 DEF IsPrepared
  <2>. QED BY <1>2, <1>11, <2>1, <2>2, SameShard
<1>12. ClientStep(c, s, C, A, t, D, B)
  BY <1>7, <1>8, <1>9, <1>10, <1>11, StepParts
<1>. QED BY <1>12 DEF NoNewCommit

(* All have voted yes.                                                       *)
LEMMA DecideStep ==
  ASSUME NEW c \in Clients, NEW s, ClientInv(c, s, {}, {}),
         s.pc = "PREPARE", s.status,
         NEW t, GoesOn(s, t), t.pc = "TSS", t.nreplies \in Nat,
         t.yes_participants = s.yes_participants,
         t.all_participants = s.all_participants, t.reads = s.reads, t.puts = s.puts
  PROVE  ClientStep(c, s, {}, {}, t, {}, {}) /\ NoNewCommit(s, {}, t, {})
<1>1. s.yes_participants = s.all_participants
  BY DEF ClientInv, VotesOK, Waiting
<1>2. SameData(s, {}, t, {})
  BY NothingNew
<1>3. ClientTyped(t)
  BY Fields DEF ClientTyped, GoesOn, Pcs
<1>4. DataOK(t, {})
  BY <1>2, SameDataOK DEF ClientInv
<1>5. CallsOK(c, t, {}) /\ AnswersOK({}, {}) /\ VotesOK(t, {})
  BY DEF CallsOK, AnswersOK, VotesOK
<1>6. ASSUME NEW i \in Shards, NEW db, ShardInv(c, i, s, {}, {}, db)
      PROVE  ShardInv(c, i, t, {}, {}, db)
  <2>1. ~ToRun(t, {}, {}, i)
    BY DEF ToRun
  <2>2. IsPrepared(t, {}, {}, i) <=> IsPrepared(s, {}, {}, i)
    BY <1>1 DEF IsPrepared, Voted
  <2>. QED BY <1>2, <1>6, <2>1, <2>2, SameShard
<1>7. ClientStep(c, s, {}, {}, t, {}, {})
  BY <1>3, <1>4, <1>5, <1>6, StepParts
<1>. QED BY <1>7 DEF NoNewCommit

(* One has refused, or the application aborts: those who have voted yes are  *)
(* told.                                                                       *)
LEMMA VetoStep ==
  ASSUME NEW c \in Clients, NEW s, ClientInv(c, s, {}, {}),
         s.pc \in {"open", "PREPARE"},
         NEW D, Broadcast(D, c, s.yes_participants, "ABORT"),
         NEW t, GoesOn(s, t),
         t.pc = IF s.yes_participants = {} THEN "idle" ELSE "ABORT", t.nreplies = 0,
         t.yes_participants = s.yes_participants,
         t.all_participants = s.all_participants, t.reads = s.reads, t.puts = s.puts
  PROVE  ClientStep(c, s, {}, {}, t, D, {}) /\ NoNewCommit(s, {}, t, D)
<1>1. s.pc = "open" => s.yes_participants = {}
  BY DEF ClientInv, VotesOK
<1>2. SameData(s, {}, t, {})
  BY NothingNew
<1>3. ClientTyped(t)
  BY Fields DEF ClientTyped, GoesOn, Pcs, Ops
<1>4. DataOK(t, {})
  BY <1>2, SameDataOK DEF ClientInv
<1>5. CallsOK(c, t, D)
  <2>1. s.yes_participants \subseteq s.all_participants
    BY Fields
  <2>2. D # {} => t.pc = "ABORT"
    BY DEF Broadcast
  <2>. QED BY <2>1, <2>2 DEF CallsOK, RequestOK, Broadcast, Ops
<1>6. AnswersOK(D, {})
  BY DEF AnswersOK
<1>7. VotesOK(t, D)
  <2>1. s.yes_participants \ Waiting(D) = {} /\ Cardinality({}) = 0
    BY BroadcastIs, FS_EmptySet
  <2>. QED BY <2>1 DEF VotesOK
<1>8. ASSUME NEW i \in Shards, NEW db, ShardInv(c, i, s, {}, {}, db)
      PROVE  ShardInv(c, i, t, D, {}, db)
  <2>1. ~ToRun(t, D, {}, i)
    BY DEF ToRun
  <2>2. IsPrepared(t, D, {}, i) <=> IsPrepared(s, {}, {}, i)
    <3>1. UnexecutedAt(D, {}, i) <=> i \in s.yes_participants
      BY BroadcastIs
    <3>. QED BY <1>1, <3>1 DEF IsPrepared, Voted
  <2>. QED BY <1>2, <1>8, <2>1, <2>2, SameShard
<1>9. ClientStep(c, s, {}, {}, t, D, {})
  BY <1>3, <1>4, <1>5, <1>6, <1>7, <1>8, StepParts
<1>. QED BY <1>9 DEF NoNewCommit

(* The timestamp is there: everyone is told to commit.                       *)
LEMMA TimestampStep ==
  ASSUME NEW c \in Clients, NEW s, NEW C, NEW A, ClientInv(c, s, C, A), s.pc = "TSS",
         NEW D, Broadcast(D, c, s.all_participants, "COMMIT"),
         NEW t, GoesOn(s, t), t.pc = "COMMIT", t.nreplies = 0,
         t.yes_participants = s.yes_participants,
         t.all_participants = s.all_participants, t.reads = s.reads, t.puts = s.puts
  PROVE  C = {} /\ A = {} /\ ClientStep(c, s, C, A, t, C \cup D, A)
<1>1. C = {} /\ A = {} /\ C \cup D = D
  BY Quiet DEF Ops
<1>2. SameData(s, {}, t, {})
  BY NothingNew
<1>3. ClientTyped(t)
  BY Fields DEF ClientTyped, GoesOn, Pcs, Ops
<1>4. DataOK(t, {})
  BY <1>1, <1>2, SameDataOK DEF ClientInv
<1>5. CallsOK(c, t, D)
  BY DEF CallsOK, RequestOK, Broadcast, Ops
<1>6. AnswersOK(D, {})
  BY DEF AnswersOK
<1>7. VotesOK(t, D)
  <2>1. s.all_participants \ Waiting(D) = {} /\ Cardinality({}) = 0
    BY BroadcastIs, FS_EmptySet
  <2>. QED BY <2>1 DEF VotesOK
<1>8. ASSUME NEW i \in Shards, NEW db, ShardInv(c, i, s, {}, {}, db)
      PROVE  ShardInv(c, i, t, D, {}, db)
  <2>1. ~ToRun(t, D, {}, i)
    BY DEF ToRun
  <2>2. IsPrepared(t, D, {}, i) <=> IsPrepared(s, {}, {}, i)
    <3>1. UnexecutedAt(D, {}, i) <=> i \in s.all_participants
      BY BroadcastIs
    <3>. QED BY <3>1 DEF IsPrepared
  <2>. QED BY <1>2, <1>8, <2>1, <2>2, SameShard
<1>9. ClientStep(c, s, {}, {}, t, D, {})
  BY <1>1, <1>3, <1>4, <1>5, <1>6, <1>7, <1>8, StepParts
<1>. QED BY <1>1, <1>9

(* A commit or an abort has been executed.                                   *)
LEMMA DoneStep ==
  ASSUME NEW c \in Clients, NEW s, NEW C, NEW A, ClientInv(c, s, C, A),
         s.pc \in {"COMMIT", "ABORT"}, NEW a \in A,
         NEW t, GoesOn(s, t), t.nreplies = s.nreplies + 1,
         t.pc = IF t.nreplies = Cardinality(IF s.pc = "COMMIT" THEN s.all_participants
                                            ELSE s.yes_participants)
                THEN "idle" ELSE s.pc,
         t.yes_participants = s.yes_participants,
         t.all_participants = s.all_participants, t.reads = s.reads, t.puts = s.puts
  PROVE  /\ ClientStep(c, s, C, A, t, C \ {a.req}, A \ {a})
         /\ NoNewCommit(s, C, t, C \ {a.req})
<1>. DEFINE D == C \ {a.req}
            B == A \ {a}
            S == IF s.pc = "COMMIT" THEN s.all_participants ELSE s.yes_participants
<1>1. \A b \in A : b.req.op \notin {"GET", "PUT"}
  BY NoDataComing
<1>2. SameData(s, A, t, B)
  BY <1>1, NothingNew
<1>3. \A r \in C : r.shard \in S
  BY DEF ClientInv, CallsOK, RequestOK
<1>4. /\ S \subseteq Shards /\ s.nreplies \in Nat /\ s.txns \in Nat
      /\ s.all_participants \subseteq Shards
      /\ s.yes_participants \subseteq s.all_participants
  BY Fields
<1>5. /\ Cardinality(S \ Waiting(D)) = Cardinality(S \ Waiting(C)) + 1
      /\ Cardinality(S \ Waiting(D)) = Cardinality(S) => D = {} /\ B = {}
  <2>1. Waiting(C) \subseteq S
    BY <1>3 DEF Waiting
  <2>2. a.req.shard \in Waiting(C)
    BY WaitedFor
  <2>3. Waiting(D) = Waiting(C) \ {a.req.shard}
    BY FewerWaiting
  <2>4. Waiting(D) = {} => D = {} /\ B = {}
    BY NobodyLeft
  <2>. DEFINE W == Waiting(C)
              x == a.req.shard
  <2>5. x \in W /\ W \subseteq S /\ S \subseteq Shards
    BY <1>4, <2>1, <2>2
  <2>. HIDE DEF W, x, S
  <2>6. /\ Cardinality(S \ (W \ {x})) = Cardinality(S \ W) + 1
        /\ Cardinality(S \ (W \ {x})) = Cardinality(S) => W \ {x} = {}
    BY <2>5, OneLess
  <2>. QED BY <2>1, <2>2, <2>3, <2>4, <2>5, <2>6 DEF W, x
<1>6. s.nreplies = Cardinality(S \ Waiting(C))
  BY DEF ClientInv, VotesOK
<1>7. t.nreplies = Cardinality(S \ Waiting(D))
  BY <1>5, <1>6
<1>8. t.pc = s.pc \/ (t.pc = "idle" /\ D = {} /\ B = {})
  BY <1>5, <1>7
<1>9. ClientTyped(t)
  BY <1>4 DEF ClientTyped, GoesOn, Pcs, Ops
<1>10. DataOK(t, B)
  BY <1>2, SameDataOK DEF ClientInv
<1>11. CallsOK(c, t, D) /\ AnswersOK(D, B)
  <2>1. CASE t.pc = s.pc
    BY <2>1, FewerCalls
  <2>2. CASE D = {} /\ B = {}
    BY <2>2 DEF CallsOK, AnswersOK
  <2>. QED BY <1>8, <2>1, <2>2
<1>12. VotesOK(t, D)
  BY <1>7, <1>8 DEF VotesOK
<1>13. \A i : UnexecutedAt(D, B, i) <=> UnexecutedAt(C, A, i)
  BY StillUnexecuted DEF ClientInv
<1>14. t.pc = "idle" => \A i : ~UnexecutedAt(C, A, i)
  BY <1>8, <1>13 DEF UnexecutedAt
<1>15. ASSUME NEW i \in Shards, NEW db, ShardInv(c, i, s, C, A, db)
       PROVE  ShardInv(c, i, t, D, B, db)
  <2>1. ~ToRun(t, D, B, i)
    BY DEF ToRun
  <2>2. IsPrepared(t, D, B, i) <=> IsPrepared(s, C, A, i)
    BY <1>8, <1>13, <1>14 DEF IsPrepared
  <2>. QED BY <1>2, <1>15, <2>1, <2>2, SameShard
<1>16. ASSUME NEW txn \in Nat, Decided(s, txn)
       PROVE  /\ Decided(t, txn)
              /\ \A i : PendingOf(t, D, B, i, txn) <=> PendingOf(s, C, A, i, txn)
  BY <1>4, <1>8, <1>13, <1>14, <1>16 DEF Decided, PendingOf, GoesOn
<1>17. ClientStep(c, s, C, A, t, D, B)
  BY <1>9, <1>10, <1>11, <1>12, <1>15, <1>16 DEF ClientStep, ClientInv
<1>18. NoNewCommit(s, C, t, D)
  BY <1>8 DEF NoNewCommit, GoesOn
<1>. QED BY <1>17, <1>18

(* Two steps in one.                                                         *)
LEMMA TwoSteps ==
  ASSUME NEW c, NEW s, NEW C, NEW A, NEW u, NEW E, NEW F, NEW t, NEW D, NEW B,
         ClientStep(c, s, C, A, u, E, F), ClientStep(c, u, E, F, t, D, B),
         u.pc # "COMMIT", NoNewCommit(u, E, t, D)
  PROVE  ClientStep(c, s, C, A, t, D, B) /\ NoNewCommit(s, C, t, D)
BY DEF ClientStep, NoNewCommit

-----------------------------------------------------------------------------
(* A shard executes a request of c.                                          *)

(* What c's operation leaves of the others in d, that was db.                *)
Kept(d, db, c) ==
  /\ DOMAIN d.running \ {c} = DOMAIN db.running \ {c}
  /\ DOMAIN d.prepared \ {c} = DOMAIN db.prepared \ {c}
  /\ \A e \in DOMAIN db.running \ {c} :
       /\ d.running[e] = db.running[e]
       /\ \A key \in DOMAIN db.running[e].reads :
            ReadOf(d, db.running[e], key) = ReadOf(db, db.running[e], key)
  /\ \A e \in DOMAIN db.prepared \ {c} :
       /\ d.prepared[e] = db.prepared[e]
       /\ \A key \in DOMAIN db.prepared[e].reads :
            ReadOf(d, db.prepared[e], key) = ReadOf(db, db.prepared[e], key)

LEMMA KeptLink ==
  ASSUME NEW i, NEW s, NEW A, NEW db, NEW d, NEW t, Linked(i, s, A, db, t),
         \A key \in DOMAIN t.reads : ReadOf(d, t, key) = ReadOf(db, t, key)
  PROVE  Linked(i, s, A, d, t)
BY DEF Linked

LEMMA OthersShardInv ==
  ASSUME NEW d, NEW db, NEW c, Kept(d, db, c), NEW e, e # c,
         NEW i, NEW s, NEW C, NEW A, ShardInv(e, i, s, C, A, db)
  PROVE  ShardInv(e, i, s, C, A, d)
<1>1. ASSUME ToRun(s, C, A, i)
      PROVE  e \in DOMAIN d.running /\ Linked(i, s, A, d, d.running[e])
  <2>1. e \in DOMAIN db.running \ {c} /\ Linked(i, s, A, db, db.running[e])
    BY <1>1 DEF ShardInv
  <2>2. /\ e \in DOMAIN d.running /\ d.running[e] = db.running[e]
        /\ \A key \in DOMAIN db.running[e].reads :
             ReadOf(d, db.running[e], key) = ReadOf(db, db.running[e], key)
    BY <2>1 DEF Kept
  <2>. QED BY <2>1, <2>2, KeptLink
<1>2. e \in DOMAIN d.prepared <=> e \in DOMAIN db.prepared
  BY DEF Kept
<1>3. ASSUME e \in DOMAIN d.prepared
      PROVE  e \notin DOMAIN d.running /\ Linked(i, s, A, d, d.prepared[e])
  <2>1. /\ e \in DOMAIN db.prepared \ {c} /\ Linked(i, s, A, db, db.prepared[e])
        /\ e \notin DOMAIN db.running
    BY <1>2, <1>3 DEF ShardInv
  <2>2. /\ e \notin DOMAIN d.running /\ d.prepared[e] = db.prepared[e]
        /\ \A key \in DOMAIN db.prepared[e].reads :
             ReadOf(d, db.prepared[e], key) = ReadOf(db, db.prepared[e], key)
    BY <2>1 DEF Kept
  <2>. QED BY <2>1, <2>2, KeptLink
<1>. QED BY <1>1, <1>2, <1>3 DEF ShardInv

LEMMA RunningKeeps ==
  ASSUME NEW d, NEW db, NEW c, NEW t, RunningIs(d, db, c, t)
  PROVE  Kept(d, db, c)
<1>1. /\ d.store = db.store /\ d.prepared = db.prepared
      /\ DOMAIN d.running = DOMAIN db.running \cup {c}
      /\ \A e \in DOMAIN db.running \ {c} : d.running[e] = db.running[e]
  BY DEF RunningIs
<1>2. \A u, key : ReadOf(d, u, key) = ReadOf(db, u, key)
  BY <1>1, ReadOfStore
<1>. QED BY <1>1, <1>2 DEF Kept

LEMMA PrepareKeeps ==
  ASSUME NEW o, NEW db, NEW c, PrepareEffect(o, db, c)
  PROVE  Kept(o.db, db, c)
<1>1. \A u, key : ReadOf(o.db, u, key) = ReadOf(db, u, key)
  BY ReadOfStore DEF PrepareEffect
<1>. QED BY <1>1 DEF Kept, PrepareEffect

LEMMA FinishKeeps ==
  ASSUME NEW d, NEW db, NEW c, FinishEffect(d, db, c),
         \A e, t : /\ e # c
                   /\ \/ e \in DOMAIN db.running /\ t = db.running[e]
                      \/ e \in DOMAIN db.prepared /\ t = db.prepared[e]
                   => \A key \in DOMAIN t.reads : ReadOf(d, t, key) = ReadOf(db, t, key)
  PROVE  Kept(d, db, c)
BY DEF Kept, FinishEffect

(* The answer that is new.                                                   *)
NewAnswer(C, A, r, a) == r \in C /\ (\A b \in A : b.req # r) /\ a.req = r

(* The others' shards see nothing of it.                                     *)
LEMMA ElsewhereSame ==
  ASSUME NEW c, NEW s, NEW C, NEW A, ClientInv(c, s, C, A),
         NEW r, NEW a, NewAnswer(C, A, r, a), NEW j, j # r.shard,
         NEW db, ShardInv(c, j, s, C, A, db)
  PROVE  /\ ShardInv(c, j, s, C, A \cup {a}, db)
         /\ \A txn : PendingOf(s, C, A \cup {a}, j, txn) <=> PendingOf(s, C, A, j, txn)
<1>. DEFINE B == A \cup {a}
<1>1. UnexecutedAt(C, B, j) <=> UnexecutedAt(C, A, j)
  BY DEF UnexecutedAt, NewAnswer
<1>2. Voted(B, j) <=> Voted(A, j)
  BY DEF Voted, NewAnswer
<1>3. r.op \in {"GET", "PUT"} => r.shard = key_to_shard(r.arg0)
  BY DEF ClientInv, CallsOK, RequestOK, NewAnswer
<1>4. \A key \in KeysOf(j) : key_to_shard(key) = j
  BY DEF KeysOf
<1>5. \A b \in NewPuts(B) : b \in NewPuts(A) \/ b.req.arg0 \notin KeysOf(j)
  BY <1>3, <1>4 DEF NewPuts, NewAnswer
<1>6. NewPuts(A) \subseteq NewPuts(B)
  BY DEF NewPuts
<1>7. ASSUME NEW key \in KeysOf(j)
      PROVE  /\ key \in PutKeys(s, B) <=> key \in PutKeys(s, A)
             /\ PutOf(s, B, key) = PutOf(s, A, key)
  <2>1. key \in PutKeys(s, B) <=> key \in PutKeys(s, A)
    BY <1>5, <1>6, <1>7 DEF PutKeys
  <2>2. {b \in NewPuts(B) : b.req.arg0 = key} = {b \in NewPuts(A) : b.req.arg0 = key}
    BY <1>5, <1>6, <1>7
  <2>3. PutOf(s, B, key) = PutOf(s, A, key)
    <3>1. \A b : b \in NewPuts(B) /\ b.req.arg0 = key <=> b \in NewPuts(A) /\ b.req.arg0 = key
      BY <2>2
    <3>2. (CHOOSE b : b \in NewPuts(B) /\ b.req.arg0 = key)
            = (CHOOSE b : b \in NewPuts(A) /\ b.req.arg0 = key)
      BY <3>1
    <3>. QED BY <3>1, <3>2, Zenon DEF PutOf
  <2>. QED BY <2>1, <2>3
<1>8. \A rd \in ReadsOf(s, B) : rd.key \in KeysOf(j) => rd \in ReadsOf(s, A)
  BY <1>3, <1>4 DEF ReadsOf, NewReads, NewAnswer
<1>9. ASSUME NEW t, Linked(j, s, A, db, t)
      PROVE  Linked(j, s, B, db, t)
  BY <1>7, <1>8, <1>9 DEF Linked
<1>10. ToRun(s, C, B, j) <=> ToRun(s, C, A, j)
  BY <1>1 DEF ToRun
<1>11. IsPrepared(s, C, B, j) <=> IsPrepared(s, C, A, j)
  BY <1>1, <1>2 DEF IsPrepared
<1>12. ShardInv(c, j, s, C, B, db)
  BY <1>9, <1>10, <1>11 DEF ShardInv
<1>13. \A txn : PendingOf(s, C, B, j, txn) <=> PendingOf(s, C, A, j, txn)
  BY <1>1 DEF PendingOf
<1>. QED BY <1>12, <1>13

(* The parts of the client's invariant that the answer touches.              *)
LEMMA NewAnswerOK ==
  ASSUME NEW c, NEW s, NEW C, NEW A, ClientInv(c, s, C, A),
         NEW r, NEW a, NewAnswer(C, A, r, a), a.status \in Int, DataOK(s, A \cup {a})
  PROVE  ClientInv(c, s, C, A \cup {a})
<1>1. AnswersOK(C, A \cup {a})
  BY DEF ClientInv, AnswersOK, NewAnswer
<1>. QED BY <1>1 DEF ClientInv

LEMMA OnlyAnswer ==
  ASSUME NEW c, NEW s, NEW C, NEW A, ClientInv(c, s, C, A),
         s.pc \in {"BEGIN", "GET", "PUT"}, NEW r, NEW a, NewAnswer(C, A, r, a)
  PROVE  A = {} /\ C = {r}
<1>1. C = {r}
  BY DEF ClientInv, CallsOK, NewAnswer
<1>. QED BY <1>1 DEF ClientInv, AnswersOK, NewAnswer

LEMMA OnlyCallAt ==
  ASSUME NEW c, NEW s, NEW C, NEW A, ClientInv(c, s, C, A),
         NEW r, NEW a, NewAnswer(C, A, r, a)
  PROVE  /\ UnexecutedAt(C, A, r.shard) /\ ~UnexecutedAt(C, A \cup {a}, r.shard)
         /\ ~Voted(A, r.shard) /\ r.shard \in Waiting(C)
         /\ Voted(A \cup {a}, r.shard) <=> a.status >= 0
<1>1. \A q \in C : q.shard = r.shard => q = r
  BY DEF ClientInv, CallsOK, NewAnswer
<1>2. \A b \in A : b.req.shard # r.shard
  BY <1>1 DEF ClientInv, AnswersOK, NewAnswer
<1>3. UnexecutedAt(C, A, r.shard) /\ ~UnexecutedAt(C, A \cup {a}, r.shard)
  BY <1>1 DEF UnexecutedAt, NewAnswer
<1>. QED BY <1>2, <1>3 DEF Voted, Waiting, NewAnswer

(* The state before a shard executes c's request r, and what it makes of it. *)
Executing(c, s, C, A, r, a, db) ==
  /\ ~AsBuilt /\ c \in Clients /\ r.shard \in Shards
  /\ ClientInv(c, s, C, A) /\ NewAnswer(C, A, r, a) /\ DbOK(db, KeysOf(r.shard))
  /\ ShardInv(c, r.shard, s, C, A, db)

Executed(c, s, C, A, r, a, db, d) ==
  /\ ClientInv(c, s, C, A \cup {a}) /\ DbOK(d, KeysOf(r.shard))
  /\ ShardInv(c, r.shard, s, C, A \cup {a}, d) /\ Kept(d, db, c)

LEMMA RequestIs ==
  ASSUME NEW c, NEW s, NEW C, NEW A, NEW r, NEW a, NEW db,
         Executing(c, s, C, A, r, a, db)
  PROVE  RequestOK(c, s, r) /\ r.txnid = c /\ r.op = s.pc /\ r.op \in Ops
BY DEF Executing, ClientInv, CallsOK, NewAnswer, RequestOK

LEMMA ExecuteBegin ==
  ASSUME NEW c, NEW s, NEW C, NEW A, NEW r, NEW a, NEW db,
         Executing(c, s, C, A, r, a, db), r.op = "BEGIN",
         NEW op, NEW o \in ReplicaUpcall(db, op, r), a.status = o.status
  PROVE  Executed(c, s, C, A, r, a, db, o.db) /\ o.db.store = db.store
<1>. DEFINE i == r.shard
            B == A \cup {a}
<1>0. RequestOK(c, s, r) /\ r.txnid = c /\ r.op = s.pc /\ r.op \in Ops
  BY RequestIs
<1>1. RequestOK(c, s, r) /\ r.txnid = c /\ s.pc = "BEGIN" /\ a.req = r
  BY <1>0 DEF Executing, NewAnswer
<1>2. A = {} /\ C = {r} /\ B = {a}
  BY <1>1, OnlyAnswer DEF Executing
<1>3. c \notin DOMAIN db.prepared
  BY <1>1 DEF Executing, ShardInv, IsPrepared
<1>4. DbOK(o.db, KeysOf(i)) /\ RunningIs(o.db, db, c, NewTxn) /\ o.status \in Int
  BY <1>1, <1>3, BeginUpcall DEF Executing
<1>5. SameData(s, A, s, B)
  <2>1. \A b \in B : b.req.op \notin {"GET", "PUT"}
    BY <1>1, <1>2
  <2>2. \A b \in A : b.req.op \notin {"GET", "PUT"}
    BY <1>2
  <2>. QED BY <2>1, <2>2, NothingNew
<1>6. ClientInv(c, s, C, B)
  <2>1. ClientInv(c, s, C, A) /\ NewAnswer(C, A, r, a)
    BY DEF Executing
  <2>2. DataOK(s, B)
    BY <1>5, <2>1, SameDataOK DEF ClientInv
  <2>. QED BY <1>4, <2>1, <2>2, NewAnswerOK
<1>7. ShardInv(c, i, s, C, B, o.db)
  <2>1. c \in DOMAIN o.db.running /\ o.db.running[c] = NewTxn /\ o.db.prepared = db.prepared
    BY <1>4 DEF RunningIs
  <2>2. Linked(i, s, B, o.db, NewTxn)
    <3>1. ReadsOf(s, B) = s.reads /\ PutKeys(s, B) = DOMAIN s.puts
      BY <1>1, <1>2, NoNews
    <3>2. /\ \A key \in DOMAIN s.puts : key_to_shard(key) # i
          /\ \A rd \in s.reads : key_to_shard(rd.key) # i
      BY <1>1 DEF RequestOK
    <3>3. DOMAIN NewTxn.writes = {}
      BY DEF NewTxn
    <3>. QED BY <3>1, <3>2, <3>3 DEF Linked, KeysOf
  <2>3. ~IsPrepared(s, C, B, i)
    BY <1>1 DEF IsPrepared
  <2>. QED BY <1>3, <2>1, <2>2, <2>3 DEF ShardInv
<1>8. Kept(o.db, db, c) /\ o.db.store = db.store
  BY <1>4, RunningKeeps DEF RunningIs
<1>. QED BY <1>4, <1>6, <1>7, <1>8 DEF Executed

(* Before a read or a write.                                                 *)
LEMMA OperatingIs ==
  ASSUME NEW c, NEW s, NEW C, NEW A, NEW r, NEW a, NEW db,
         Executing(c, s, C, A, r, a, db), r.op \in {"GET", "PUT"}
  PROVE  /\ s.pc = r.op /\ r.txnid = c /\ A = {} /\ C = {r} /\ a.req = r
         /\ r.arg0 \in KeysOf(r.shard) /\ r.arg0 \in Keys
         /\ key_to_shard(r.arg0) \in s.all_participants
         /\ r.op = "PUT" => r.arg1 \in Vals
         /\ c \in DOMAIN db.running /\ c \notin DOMAIN db.prepared
         /\ Linked(r.shard, s, {}, db, db.running[c])
         /\ DataOK(s, {}) /\ ReadsOf(s, {}) = s.reads
         /\ PutKeys(s, {}) = DOMAIN s.puts /\ \A key : PutOf(s, {}, key) = s.puts[key]
<1>0. RequestOK(c, s, r) /\ r.txnid = c /\ r.op = s.pc /\ r.op \in Ops
  BY RequestIs
<1>1. RequestOK(c, s, r) /\ r.txnid = c /\ s.pc = r.op /\ a.req = r
  BY <1>0 DEF Executing, NewAnswer
<1>2. A = {} /\ C = {r}
  BY <1>1, OnlyAnswer DEF Executing
<1>3. /\ r.arg0 \in Keys /\ r.shard = key_to_shard(r.arg0)
      /\ r.shard \in s.all_participants
      /\ r.op = "PUT" => r.arg1 \in Vals
  BY <1>1 DEF RequestOK, OperationOK
<1>4. r.arg0 \in KeysOf(r.shard)
  BY <1>3 DEF KeysOf
<1>5. ToRun(s, C, A, r.shard) /\ ~IsPrepared(s, C, A, r.shard)
  BY <1>1, <1>3 DEF ToRun, IsPrepared
<1>6. /\ c \in DOMAIN db.running /\ c \notin DOMAIN db.prepared
      /\ Linked(r.shard, s, {}, db, db.running[c])
  BY <1>2, <1>5 DEF Executing, ShardInv
<1>7. DataOK(s, {})
  BY <1>2 DEF Executing, ClientInv
<1>8. /\ ReadsOf(s, {}) = s.reads /\ PutKeys(s, {}) = DOMAIN s.puts
      /\ \A key : PutOf(s, {}, key) = s.puts[key]
  BY DEF ReadsOf, NewReads, PutKeys, NewPuts, PutOf
<1>. QED BY <1>1, <1>2, <1>3, <1>4, <1>6, <1>7, <1>8

(* Its outcome.                                                              *)
LEMMA OperatedIs ==
  ASSUME NEW c, NEW s, NEW C, NEW A, NEW r, NEW a, NEW db,
         Executing(c, s, C, A, r, a, db), r.op \in {"GET", "PUT"},
         NEW d, NEW t, RunningIs(d, db, c, t), DbOK(d, KeysOf(r.shard)),
         Linked(r.shard, s, {a}, d, t), DataOK(s, {a}), a.status \in Int
  PROVE  Executed(c, s, C, A, r, a, db, d) /\ d.store = db.store
<1>1. s.pc = r.op /\ A = {} /\ A \cup {a} = {a} /\ c \notin DOMAIN db.prepared
  BY OperatingIs
<1>2. ClientInv(c, s, C, A \cup {a})
  BY <1>1, NewAnswerOK DEF Executing
<1>3. /\ c \in DOMAIN d.running /\ d.running[c] = t /\ d.prepared = db.prepared
      /\ d.store = db.store
  BY DEF RunningIs
<1>4. ~IsPrepared(s, C, A \cup {a}, r.shard)
  BY <1>1 DEF IsPrepared
<1>5. ShardInv(c, r.shard, s, C, A \cup {a}, d)
  BY <1>1, <1>3, <1>4 DEF ShardInv
<1>6. Kept(d, db, c)
  BY RunningKeeps
<1>. QED BY <1>2, <1>3, <1>5, <1>6 DEF Executed

LEMMA ExecuteGet ==
  ASSUME NEW c, NEW s, NEW C, NEW A, NEW r, NEW a, NEW db,
         Executing(c, s, C, A, r, a, db), r.op = "GET",
         NEW op, NEW o \in ReplicaUpcall(db, op, r),
         a.status = o.status, a.value = o.value
  PROVE  Executed(c, s, C, A, r, a, db, o.db) /\ o.db.store = db.store
<1>. DEFINE i == r.shard
            u == db.running[c]
            key == r.arg0
            read == [key |-> key, value |-> a.value, own |-> Own(s, key)]
<1>1. /\ r.txnid = c /\ a.req = r /\ key \in KeysOf(i) /\ key \in Keys
      /\ key_to_shard(key) \in s.all_participants
      /\ c \in DOMAIN db.running /\ c \notin DOMAIN db.prepared
      /\ Linked(i, s, {}, db, u) /\ DataOK(s, {}) /\ ReadsOf(s, {}) = s.reads
      /\ PutKeys(s, {}) = DOMAIN s.puts /\ \A k : PutOf(s, {}, k) = s.puts[k]
  BY OperatingIs
<1>2. DbOK(o.db, KeysOf(i)) /\ ReadEffect(o, db, c, key)
  BY <1>1, GetUpcall DEF Executing
<1>3. PICK t :
        /\ RunningIs(o.db, db, c, t)
        /\ t.writes = u.writes /\ DOMAIN u.reads \subseteq DOMAIN t.reads
        /\ \A k \in DOMAIN u.reads : ReadOf(db, t, k) = ReadOf(db, u, k)
        /\ o.status \in Int
        /\ o.status >= 0 =>
             IF key \in DOMAIN t.writes THEN o.value = Last(t.writes[key])
             ELSE key \in DOMAIN t.reads /\ o.value = ReadOf(db, t, key)
  BY <1>2 DEF ReadEffect
<1>4. /\ \A k \in KeysOf(i) : /\ k \in DOMAIN u.writes <=> k \in DOMAIN s.puts
                              /\ k \in DOMAIN u.writes => Last(u.writes[k]) = s.puts[k]
      /\ \A rd \in s.reads : rd.key \in KeysOf(i) /\ rd.own = NoValue =>
           rd.key \in DOMAIN u.reads /\ rd.value = ReadOf(db, u, rd.key)
  BY <1>1 DEF Linked
<1>5. /\ NewPuts({a}) = {} /\ PutKeys(s, {a}) = DOMAIN s.puts
      /\ \A k : PutOf(s, {a}, k) = s.puts[k]
  BY <1>1 DEF NewPuts, PutKeys, PutOf
<1>6. ReadsOf(s, {a}) = IF a.status >= 0 THEN s.reads \cup {read} ELSE s.reads
  BY <1>1 DEF ReadsOf, NewReads
<1>7. /\ \A k \in DOMAIN s.puts : k \in Keys /\ key_to_shard(k) \in s.all_participants
                                  /\ s.puts[k] \in Vals
      /\ \A rd \in s.reads : /\ rd.key \in Keys /\ key_to_shard(rd.key) \in s.all_participants
                             /\ rd.own # NoValue => rd.value = rd.own
  BY <1>1 DEF DataOK
<1>8. key \in DOMAIN s.puts => Own(s, key) = s.puts[key] /\ Own(s, key) # NoValue
  BY <1>7, NiStoreAssumption DEF Own, Vals
<1>9. key \notin DOMAIN s.puts => Own(s, key) = NoValue
  BY DEF Own
<1>10. a.status >= 0 =>
         IF key \in DOMAIN s.puts THEN read.value = read.own /\ read.own # NoValue
         ELSE /\ key \in DOMAIN t.reads /\ read.value = ReadOf(db, t, key)
              /\ read.own = NoValue
  BY <1>1, <1>3, <1>4, <1>8, <1>9
<1>11. DataOK(s, {a})
  <2>1. /\ read.key \in Keys /\ key_to_shard(read.key) \in s.all_participants
        /\ a.status >= 0 => (read.own # NoValue => read.value = read.own)
    BY <1>1, <1>10
  <2>. HIDE DEF read
  <2>2. \A rd \in ReadsOf(s, {a}) :
          /\ rd.key \in Keys /\ key_to_shard(rd.key) \in s.all_participants
          /\ rd.own # NoValue => rd.value = rd.own
    BY <1>6, <1>7, <2>1
  <2>. QED BY <1>5, <1>7, <2>2 DEF DataOK
<1>12. Linked(i, s, {a}, o.db, t)
  <2>1. \A k \in KeysOf(i) :
          /\ k \in DOMAIN t.writes <=> k \in PutKeys(s, {a})
          /\ k \in DOMAIN t.writes => Last(t.writes[k]) = PutOf(s, {a}, k)
    BY <1>3, <1>4, <1>5
  <2>2. \A k : ReadOf(o.db, t, k) = ReadOf(db, t, k)
    BY <1>3, ReadOfStore DEF RunningIs
  <2>3. ASSUME NEW rd \in s.reads, rd.key \in KeysOf(i), rd.own = NoValue
        PROVE  rd.key \in DOMAIN t.reads /\ rd.value = ReadOf(db, t, rd.key)
    BY <1>3, <1>4, <2>3
  <2>4. ASSUME a.status >= 0, read.own = NoValue
        PROVE  read.key \in DOMAIN t.reads /\ read.value = ReadOf(db, t, read.key)
    BY <1>10, <2>4
  <2>5. \A rd \in ReadsOf(s, {a}) : rd.key \in KeysOf(i) /\ rd.own = NoValue =>
          rd.key \in DOMAIN t.reads /\ rd.value = ReadOf(o.db, t, rd.key)
    <3>. HIDE DEF read
    <3>. QED BY <1>6, <2>2, <2>3, <2>4
  <2>. QED BY <2>1, <2>5 DEF Linked
<1>. QED BY <1>2, <1>3, <1>11, <1>12, OperatedIs

LEMMA ExecutePut ==
  ASSUME NEW c, NEW s, NEW C, NEW A, NEW r, NEW a, NEW db,
         Executing(c, s, C, A, r, a, db), r.op = "PUT",
         NEW op, NEW o \in ReplicaUpcall(db, op, r), a.status = o.status
  PROVE  Executed(c, s, C, A, r, a, db, o.db) /\ o.db.store = db.store
<1>. DEFINE i == r.shard
            u == db.running[c]
            key == r.arg0
<1>1. /\ r.txnid = c /\ a.req = r /\ key \in KeysOf(i) /\ key \in Keys
      /\ key_to_shard(key) \in s.all_participants /\ r.arg1 \in Vals
      /\ c \in DOMAIN db.running /\ c \notin DOMAIN db.prepared
      /\ Linked(i, s, {}, db, u) /\ DataOK(s, {}) /\ ReadsOf(s, {}) = s.reads
      /\ PutKeys(s, {}) = DOMAIN s.puts /\ \A k : PutOf(s, {}, k) = s.puts[k]
  BY OperatingIs
<1>2. DbOK(o.db, KeysOf(i)) /\ WriteEffect(o, db, c, key, r.arg1)
  BY <1>1, PutUpcall DEF Executing
<1>3. PICK t :
        /\ RunningIs(o.db, db, c, t) /\ t.reads = u.reads
        /\ o.status \in Int
        /\ IF o.status >= 0
           THEN /\ DOMAIN t.writes = DOMAIN u.writes \cup {key}
                /\ \A k \in DOMAIN u.writes \ {key} : t.writes[k] = u.writes[k]
                /\ Last(t.writes[key]) = r.arg1
           ELSE t.writes = u.writes
  BY <1>2 DEF WriteEffect
<1>4. /\ \A k \in KeysOf(i) : /\ k \in DOMAIN u.writes <=> k \in DOMAIN s.puts
                              /\ k \in DOMAIN u.writes => Last(u.writes[k]) = s.puts[k]
      /\ \A rd \in s.reads : rd.key \in KeysOf(i) /\ rd.own = NoValue =>
           rd.key \in DOMAIN u.reads /\ rd.value = ReadOf(db, u, rd.key)
  BY <1>1 DEF Linked
<1>5. NewReads(s, {a}) = {} /\ ReadsOf(s, {a}) = s.reads
  BY <1>1 DEF ReadsOf, NewReads
<1>6. NewPuts({a}) = IF a.status >= 0 THEN {a} ELSE {}
  BY <1>1 DEF NewPuts
<1>7. /\ PutKeys(s, {a}) = IF a.status >= 0 THEN DOMAIN s.puts \cup {key} ELSE DOMAIN s.puts
      /\ a.status >= 0 => PutOf(s, {a}, key) = r.arg1
      /\ \A k : k # key \/ ~(a.status >= 0) => PutOf(s, {a}, k) = s.puts[k]
  <2>1. CASE a.status >= 0
    <3>1. PutKeys(s, {a}) = DOMAIN s.puts \cup {key}
      BY <1>1, <1>6, <2>1 DEF PutKeys
    <3>2. PutOf(s, {a}, key) = r.arg1
      BY <1>1, <1>6, <2>1 DEF PutOf
    <3>3. \A k : k # key => PutOf(s, {a}, k) = s.puts[k]
      BY <1>1, <1>6, <2>1 DEF PutOf
    <3>. QED BY <2>1, <3>1, <3>2, <3>3
  <2>2. CASE ~(a.status >= 0)
    BY <1>6, <2>2 DEF PutKeys, PutOf
  <2>. QED BY <2>1, <2>2
<1>8. /\ \A k \in DOMAIN s.puts : k \in Keys /\ key_to_shard(k) \in s.all_participants
                                  /\ s.puts[k] \in Vals
      /\ \A rd \in s.reads : /\ rd.key \in Keys /\ key_to_shard(rd.key) \in s.all_participants
                             /\ rd.own # NoValue => rd.value = rd.own
  BY <1>1 DEF DataOK
<1>9. DataOK(s, {a})
  BY <1>1, <1>5, <1>7, <1>8 DEF DataOK
<1>10. Linked(i, s, {a}, o.db, t)
  <2>1. \A k \in KeysOf(i) :
          /\ k \in DOMAIN t.writes <=> k \in PutKeys(s, {a})
          /\ k \in DOMAIN t.writes => Last(t.writes[k]) = PutOf(s, {a}, k)
    <3>1. CASE a.status >= 0
      BY <1>3, <1>4, <1>7, <3>1
    <3>2. CASE ~(a.status >= 0)
      BY <1>3, <1>4, <1>7, <3>2
    <3>. QED BY <3>1, <3>2
  <2>2. \A k : ReadOf(o.db, t, k) = ReadOf(db, u, k)
    <3>1. \A k : ReadOf(o.db, t, k) = ReadOf(db, t, k)
      BY <1>3, ReadOfStore DEF RunningIs
    <3>2. \A k : ReadOf(db, t, k) = ReadOf(db, u, k)
      BY <1>3 DEF ReadOf
    <3>. QED BY <3>1, <3>2
  <2>. QED BY <1>3, <1>4, <1>5, <2>1, <2>2 DEF Linked
<1>. QED BY <1>2, <1>3, <1>9, <1>10, OperatedIs

(* The answers of the two phases leave what was read and written.            *)
LEMMA PhaseAnswer ==
  ASSUME NEW c, NEW s, NEW C, NEW A, NEW r, NEW a, NEW db,
         Executing(c, s, C, A, r, a, db), r.op \in {"PREPARE", "COMMIT", "ABORT"},
         a.status \in Int
  PROVE  SameData(s, A, s, A \cup {a}) /\ ClientInv(c, s, C, A \cup {a})
<1>0. RequestOK(c, s, r) /\ r.txnid = c /\ r.op = s.pc /\ r.op \in Ops
  BY RequestIs
<1>1. ClientInv(c, s, C, A) /\ NewAnswer(C, A, r, a) /\ a.req = r
  BY DEF Executing, NewAnswer
<1>2. \A b \in A : b.req.op \notin {"GET", "PUT"}
  BY <1>0, <1>1, NoDataComing
<1>3. \A b \in A \cup {a} : b.req.op \notin {"GET", "PUT"}
  BY <1>1, <1>2
<1>4. SameData(s, A, s, A \cup {a})
  BY <1>2, <1>3, NothingNew
<1>5. DataOK(s, A \cup {a})
  BY <1>1, <1>4, SameDataOK DEF ClientInv
<1>. QED BY <1>1, <1>4, <1>5, NewAnswerOK

LEMMA ExecutePrepare ==
  ASSUME NEW c, NEW s, NEW C, NEW A, NEW r, NEW a, NEW db,
         Executing(c, s, C, A, r, a, db), r.op = "PREPARE",
         NEW op, NEW o \in ReplicaUpcall(db, op, r), a.status = o.status
  PROVE  Executed(c, s, C, A, r, a, db, o.db) /\ o.db.store = db.store
<1>. DEFINE i == r.shard
            B == A \cup {a}
            u == db.running[c]
<1>0. RequestOK(c, s, r) /\ r.txnid = c /\ r.op = s.pc /\ r.op \in Ops
  BY RequestIs
<1>1. /\ UnexecutedAt(C, A, i) /\ ~UnexecutedAt(C, B, i) /\ ~Voted(A, i)
      /\ i \in Waiting(C) /\ (Voted(B, i) <=> a.status >= 0)
  BY OnlyCallAt DEF Executing
<1>2. i \notin s.yes_participants
  BY <1>0, <1>1 DEF Executing, ClientInv, VotesOK
<1>3. ToRun(s, C, A, i) /\ ~IsPrepared(s, C, A, i)
  BY <1>0, <1>1, <1>2 DEF ToRun, IsPrepared
<1>4. c \in DOMAIN db.running /\ c \notin DOMAIN db.prepared /\ Linked(i, s, A, db, u)
  BY <1>3 DEF Executing, ShardInv
<1>5. DbOK(o.db, KeysOf(i)) /\ PrepareEffect(o, db, c)
  BY <1>0, <1>4, PrepareUpcall DEF Executing
<1>6. o.db.store = db.store /\ o.status \in Int /\ c \notin DOMAIN o.db.running
      /\ (c \in DOMAIN o.db.prepared <=> o.status >= 0)
      /\ (o.status >= 0 => o.db.prepared[c] = u)
  BY <1>4, <1>5 DEF PrepareEffect
<1>7. SameData(s, A, s, B) /\ ClientInv(c, s, C, B)
  BY <1>6, PhaseAnswer
<1>8. ShardInv(c, i, s, C, B, o.db)
  <2>1. \A k : ReadOf(o.db, u, k) = ReadOf(db, u, k)
    BY <1>6, ReadOfStore
  <2>2. Linked(i, s, B, o.db, u)
    BY <1>4, <1>7, <2>1, SameLinked, KeptLink
  <2>3. ~ToRun(s, C, B, i)
    BY <1>0, <1>1 DEF ToRun
  <2>4. IsPrepared(s, C, B, i) <=> o.status >= 0
    BY <1>0, <1>1, <1>2 DEF IsPrepared
  <2>. QED BY <1>6, <2>2, <2>3, <2>4 DEF ShardInv
<1>9. Kept(o.db, db, c)
  BY <1>5, PrepareKeeps
<1>. QED BY <1>5, <1>6, <1>7, <1>8, <1>9 DEF Executed

(* Before the second phase ends at a shard, the transaction is prepared.     *)
LEMMA FinishingIs ==
  ASSUME NEW c, NEW s, NEW C, NEW A, NEW r, NEW a, NEW db,
         Executing(c, s, C, A, r, a, db), r.op \in {"COMMIT", "ABORT"}
  PROVE  /\ s.pc = r.op /\ r.txnid = c
         /\ UnexecutedAt(C, A, r.shard) /\ ~UnexecutedAt(C, A \cup {a}, r.shard)
         /\ c \in DOMAIN db.prepared /\ c \notin DOMAIN db.running
         /\ Linked(r.shard, s, A, db, db.prepared[c])
<1>0. RequestOK(c, s, r) /\ r.txnid = c /\ r.op = s.pc /\ r.op \in Ops
  BY RequestIs
<1>1. UnexecutedAt(C, A, r.shard) /\ ~UnexecutedAt(C, A \cup {a}, r.shard)
  BY OnlyCallAt DEF Executing
<1>2. IsPrepared(s, C, A, r.shard)
  BY <1>0, <1>1 DEF IsPrepared
<1>. QED BY <1>0, <1>1, <1>2 DEF Executing, ShardInv

LEMMA FinishedIs ==
  ASSUME NEW c, NEW s, NEW C, NEW A, NEW r, NEW a, NEW db,
         Executing(c, s, C, A, r, a, db), r.op \in {"COMMIT", "ABORT"},
         NEW d, DbOK(d, KeysOf(r.shard)), FinishEffect(d, db, c), Kept(d, db, c),
         a.status \in Int
  PROVE  Executed(c, s, C, A, r, a, db, d)
<1>1. s.pc = r.op /\ ~UnexecutedAt(C, A \cup {a}, r.shard) /\ c \notin DOMAIN db.running
  <2>0. r.op = s.pc
    BY RequestIs
  <2>1. s.pc = r.op /\ c \notin DOMAIN db.running
    BY <2>0, FinishingIs
  <2>2. ~UnexecutedAt(C, A \cup {a}, r.shard)
    BY OnlyCallAt DEF Executing
  <2>. QED BY <2>1, <2>2
<1>2. SameData(s, A, s, A \cup {a}) /\ ClientInv(c, s, C, A \cup {a})
  BY PhaseAnswer
<1>3. c \notin DOMAIN d.running /\ c \notin DOMAIN d.prepared
  BY <1>1 DEF FinishEffect
<1>4. ~ToRun(s, C, A \cup {a}, r.shard) /\ ~IsPrepared(s, C, A \cup {a}, r.shard)
  BY <1>1 DEF ToRun, IsPrepared
<1>. QED BY <1>2, <1>3, <1>4 DEF Executed, ShardInv

LEMMA ExecuteAbort ==
  ASSUME NEW c, NEW s, NEW C, NEW A, NEW r, NEW a, NEW db,
         Executing(c, s, C, A, r, a, db), r.op = "ABORT",
         NEW op, NEW o \in ReplicaUpcall(db, op, r), a.status = o.status
  PROVE  Executed(c, s, C, A, r, a, db, o.db) /\ o.db.store = db.store
<1>1. r.txnid = c /\ c \in DOMAIN db.prepared /\ c \notin DOMAIN db.running
  BY FinishingIs
<1>2. /\ DbOK(o.db, KeysOf(r.shard)) /\ FinishEffect(o.db, db, c)
      /\ o.db.store = db.store /\ o.status \in Int
  BY <1>1, AbortUpcall DEF Executing
<1>3. \A u, k : ReadOf(o.db, u, k) = ReadOf(db, u, k)
  BY <1>2, ReadOfStore
<1>4. Kept(o.db, db, c)
  BY <1>2, <1>3, FinishKeeps
<1>. QED BY <1>2, <1>4, FinishedIs

(* The versions that are there are older than the commit's.                  *)
LEMMA ExecuteCommit ==
  ASSUME NEW c, NEW s, NEW C, NEW A, NEW r, NEW a, NEW db,
         Executing(c, s, C, A, r, a, db), r.op = "COMMIT", r.arg0 \in Nat,
         \A k \in PutKeys(s, A) \cap KeysOf(r.shard) : ~Locking =>
           \A n \in DOMAIN db.store[k] : db.store[k][n].ts < r.arg0,
         NEW op, NEW o \in ReplicaUpcall(db, op, r), a.status = o.status
  PROVE  /\ Executed(c, s, C, A, r, a, db, o.db)
         /\ \A k \in KeysOf(r.shard) :
              IF k \in DOMAIN s.puts
              THEN Extended(o.db.store[k], db.store[k], r.arg0, s.puts[k])
              ELSE o.db.store[k] = db.store[k]
<1>. DEFINE K == KeysOf(r.shard)
            u == db.prepared[c]
<1>1. /\ s.pc = r.op /\ r.txnid = c /\ c \in DOMAIN db.prepared
      /\ c \notin DOMAIN db.running /\ Linked(r.shard, s, A, db, u)
  <2>0. r.op = s.pc /\ r.txnid = c
    BY RequestIs
  <2>1. c \in DOMAIN db.prepared /\ c \notin DOMAIN db.running
    BY FinishingIs
  <2>2. ShardInv(c, r.shard, s, C, A, db)
    BY DEF Executing
  <2>3. Linked(r.shard, s, A, db, u)
    BY <2>1, <2>2 DEF ShardInv
  <2>. QED BY <2>0, <2>1, <2>3
<1>2. DOMAIN u.writes \subseteq K
  BY <1>1, DbIs DEF Executing, TxnOK
<1>3. \A k \in K : /\ k \in DOMAIN u.writes <=> k \in PutKeys(s, A)
                   /\ k \in DOMAIN u.writes => Last(u.writes[k]) = PutOf(s, A, k)
  BY <1>1 DEF Linked
<1>4. ~Locking => \A k \in DOMAIN u.writes :
                    \A n \in DOMAIN db.store[k] : db.store[k][n].ts < r.arg0
  BY <1>2, <1>3
<1>5. /\ DbOK(o.db, K) /\ FinishEffect(o.db, db, c)
      /\ CommitEffect(o.db, db, c, r.arg0, K) /\ o.status \in Int
  BY <1>1, <1>4, CommitUpcallIs DEF Executing
<1>6. Kept(o.db, db, c)
  <2>1. ASSUME NEW e, e # c, NEW t,
               \/ e \in DOMAIN db.running /\ t = db.running[e]
               \/ e \in DOMAIN db.prepared /\ t = db.prepared[e],
               NEW key \in DOMAIN t.reads
        PROVE  ReadOf(o.db, t, key) = ReadOf(db, t, key)
    BY <1>1, <1>5, <2>1, CommitKeepsReads DEF Executing
  <2>. QED BY <1>5, <2>1, FinishKeeps
<1>7. Executed(c, s, C, A, r, a, db, o.db)
  BY <1>5, <1>6, FinishedIs
<1>8. PutKeys(s, A) = DOMAIN s.puts /\ \A k : PutOf(s, A, k) = s.puts[k]
  <2>1. \A b \in A : b.req.op \notin {"GET", "PUT"}
    BY <1>1, NoDataComing DEF Executing
  <2>. QED BY <2>1 DEF PutKeys, PutOf, NewPuts
<1>9. ASSUME NEW k \in K
      PROVE  IF k \in DOMAIN s.puts
             THEN Extended(o.db.store[k], db.store[k], r.arg0, s.puts[k])
             ELSE o.db.store[k] = db.store[k]
  BY <1>3, <1>5, <1>8 DEF CommitEffect
<1>. QED BY <1>7, <1>9

-----------------------------------------------------------------------------
(* The steps of a client, in the whole system.                               *)

StepOf(c, t, D, B) ==
  /\ client' = [client EXCEPT ![c] = t]
  /\ calls' = (calls \ MyCalls(c)) \cup D
  /\ replies' = (replies \ MyAnswers(c)) \cup B
  /\ shard' = shard /\ mode' = mode

LEMMA SendsIs ==
  ASSUME NEW c, NEW s, NEW requests, Sends(c, s, requests),
         shard' = shard, mode' = mode
  PROVE  StepOf(c, [s EXCEPT !.sent = @ + 1], MyCalls(c) \cup requests, MyAnswers(c))
BY DEF Sends, StepOf, MyCalls, MyAnswers

LEMMA AcceptsIs ==
  ASSUME NEW c, NEW a \in replies, a.req.txnid = c, a.req \in calls,
         NEW s, NEW requests, Accepts(c, a, s, requests),
         shard' = shard, mode' = mode
  PROVE  StepOf(c, [s EXCEPT !.sent = @ + 1], (MyCalls(c) \ {a.req}) \cup requests,
                MyAnswers(c) \ {a})
BY DEF Accepts, StepOf, MyCalls, MyAnswers

LEMMA StepIs ==
  ASSUME Clean, NEW c \in Clients, NEW t, NEW D, NEW B, StepOf(c, t, D, B),
         ClientInv(c, t, D, B)
  PROVE  /\ DOMAIN client' = Clients /\ client'[c] = t
         /\ MyCalls(c)' = D /\ MyAnswers(c)' = B
         /\ \A e \in Clients \ {c} : /\ client'[e] = client[e]
                                     /\ MyCalls(e)' = MyCalls(e)
                                     /\ MyAnswers(e)' = MyAnswers(e)
         /\ \A r \in calls' : r.txnid \in Clients
         /\ \A a \in replies' : a.req \in calls'
<1>1. (\A r \in D : r.txnid = c) /\ (\A a \in B : a.req \in D)
  BY DEF ClientInv, CallsOK, RequestOK, AnswersOK
<1>2. DOMAIN client' = Clients /\ client'[c] = t
      /\ \A e \in Clients \ {c} : client'[e] = client[e]
  BY DEF Clean, StepOf
<1>3. MyCalls(c)' = D
  BY <1>1 DEF StepOf, MyCalls
<1>4. MyAnswers(c)' = B
  BY <1>1 DEF StepOf, MyAnswers
<1>5. \A e \in Clients \ {c} : MyCalls(e)' = MyCalls(e)
  BY <1>1 DEF StepOf, MyCalls
<1>6. \A e \in Clients \ {c} : MyAnswers(e)' = MyAnswers(e)
  BY <1>1 DEF StepOf, MyAnswers
<1>7. \A r \in calls' : r.txnid \in Clients
  BY <1>1 DEF StepOf, Clean
<1>8. \A a \in replies' : a.req \in calls'
  BY <1>1 DEF StepOf, Clean, MyCalls, MyAnswers
<1>. QED BY <1>2, <1>3, <1>4, <1>5, <1>6, <1>7, <1>8

(* The mode stays as it is.                                                  *)
LEMMA ShardInvPrime ==
  ASSUME mode' = mode, NEW c, NEW i
  PROVE  ShardInv(c, i, client[c], MyCalls(c), MyAnswers(c), shard[i].db)'
           <=> ShardInv(c, i, client'[c], MyCalls(c)', MyAnswers(c)', shard'[i].db)
BY DEF ShardInv, Linked, ReadOf, Locking

LEMMA DbOKPrime ==
  ASSUME mode' = mode, NEW i, NEW K
  PROVE  DbOK(shard[i].db, K)' <=> DbOK(shard'[i].db, K)
BY DEF DbOK, Locking

LEMMA StoreIsPrime ==
  ASSUME mode' = mode, NEW i, NEW key, NEW by
  PROVE  StoreIs(shard[i].db.store[key], key, by)'
           <=> StoreIs(shard'[i].db.store[key], key, by)
BY DEF StoreIs, Locking

(* What of each client a step keeps.                                         *)
DecisionsKept ==
  \A e \in Clients, txn \in Nat : Decided(client[e], txn) =>
    /\ Decided(client[e], txn)'
    /\ \A i : PendingOf(client'[e], MyCalls(e)', MyAnswers(e)', i, txn)
                <=> PendingOf(client[e], MyCalls(e), MyAnswers(e), i, txn)

LEMMA LocalsStep ==
  ASSUME Clean, Locals, NEW c \in Clients, NEW t, NEW D, NEW B, StepOf(c, t, D, B),
         ClientStep(c, client[c], MyCalls(c), MyAnswers(c), t, D, B)
  PROVE  Clean' /\ Locals' /\ DecisionsKept
<1>1. ClientInv(c, t, D, B)
  BY DEF ClientStep
<1>2. /\ DOMAIN client' = Clients /\ client'[c] = t
      /\ MyCalls(c)' = D /\ MyAnswers(c)' = B
      /\ \A e \in Clients \ {c} : /\ client'[e] = client[e]
                                  /\ MyCalls(e)' = MyCalls(e)
                                  /\ MyAnswers(e)' = MyAnswers(e)
      /\ \A r \in calls' : r.txnid \in Clients
      /\ \A a \in replies' : a.req \in calls'
  BY <1>1, StepIs
<1>3. mode' = mode /\ shard' = shard
  BY DEF StepOf
<1>4. Clean'
  BY <1>2, <1>3, DbOKPrime DEF Clean
<1>5. ASSUME NEW e \in Clients
      PROVE  /\ ClientInv(e, client'[e], MyCalls(e)', MyAnswers(e)')
             /\ \A i \in Shards :
                  ShardInv(e, i, client'[e], MyCalls(e)', MyAnswers(e)', shard'[i].db)
  <2>1. CASE e = c
    <3>1. ClientInv(c, client'[c], MyCalls(c)', MyAnswers(c)')
      BY <1>1, <1>2
    <3>2. ASSUME NEW i \in Shards
          PROVE  ShardInv(c, i, t, D, B, shard[i].db)
      <4>1. ShardInv(c, i, client[c], MyCalls(c), MyAnswers(c), shard[i].db)
        BY DEF Locals
      <4>. QED BY <4>1 DEF ClientStep
    <3>. QED BY <1>2, <1>3, <2>1, <3>1, <3>2
  <2>2. CASE e # c
    <3>1. /\ ClientInv(e, client[e], MyCalls(e), MyAnswers(e))
          /\ \A i \in Shards :
               ShardInv(e, i, client[e], MyCalls(e), MyAnswers(e), shard[i].db)
      BY DEF Locals
    <3>2. client'[e] = client[e] /\ MyCalls(e)' = MyCalls(e)
          /\ MyAnswers(e)' = MyAnswers(e)
      BY <1>2, <2>2
    <3>. QED BY <1>3, <3>1, <3>2
  <2>. QED BY <2>1, <2>2
<1>6. Locals'
  <2>1. \A e \in Clients, i \in Shards :
          ShardInv(e, i, client[e], MyCalls(e), MyAnswers(e), shard[i].db)'
    BY <1>3, <1>5, ShardInvPrime
  <2>2. \A e \in Clients : ClientInv(e, client[e], MyCalls(e), MyAnswers(e))'
    BY <1>5
  <2>. QED BY <2>1, <2>2 DEF Locals
<1>7. DecisionsKept
  <2>. SUFFICES ASSUME NEW e \in Clients, NEW txn \in Nat, Decided(client[e], txn)
       PROVE  /\ Decided(client'[e], txn)
              /\ \A i : PendingOf(client'[e], MyCalls(e)', MyAnswers(e)', i, txn)
                          <=> PendingOf(client[e], MyCalls(e), MyAnswers(e), i, txn)
    BY DEF DecisionsKept
  <2>1. CASE e = c
    <3>1. /\ Decided(t, txn)
          /\ \A i : PendingOf(t, D, B, i, txn)
                      <=> PendingOf(client[c], MyCalls(c), MyAnswers(c), i, txn)
      BY <2>1 DEF ClientStep
    <3>. QED BY <1>2, <2>1, <3>1
  <2>2. CASE e # c
    BY <1>2, <2>2
  <2>. QED BY <2>1, <2>2
<1>. QED BY <1>4, <1>6, <1>7

HistoryInv == HistoryTyped /\ HistoryFits /\ PendingLast /\ Explained /\ Serializable

LEMMA PendingSame ==
  ASSUME DecisionsKept, HistoryTyped, HistoryFits, NEW h \in history, NEW i
  PROVE  Pending(h, i)' <=> Pending(h, i)
<1>1. h.client \in Clients /\ h.txn \in Nat /\ Decided(client[h.client], h.txn)
  BY DEF HistoryTyped, HistoryFits
<1>2. PendingOf(client'[h.client], MyCalls(h.client)', MyAnswers(h.client)', i, h.txn)
        <=> PendingOf(client[h.client], MyCalls(h.client), MyAnswers(h.client), i, h.txn)
  BY <1>1 DEF DecisionsKept
<1>. QED BY <1>2 DEF Pending

(* The history is as it was.                                                 *)
LEMMA ExplainsSame ==
  ASSUME mode' = mode, history' = history, NEW key,
         \A h \in history : key \in DOMAIN h.writes =>
           (Pending(h, key_to_shard(key))' <=> Pending(h, key_to_shard(key))),
         shard'[key_to_shard(key)].db.store[key]
                    = shard[key_to_shard(key)].db.store[key],
         NEW by, Explains(by, key)
  PROVE  Explains(by, key)'
<1>. DEFINE i == key_to_shard(key)
<1>1. /\ by \in Seq(history)
      /\ \A m, n \in DOMAIN by : m < n => by[m].ts < by[n].ts
      /\ \A h \in history :
           key \in DOMAIN h.writes /\ ~Pending(h, i) <=> \E n \in DOMAIN by : by[n] = h
      /\ StoreIs(shard[i].db.store[key], key, by)
  BY DEF Explains
<1>2. \A h \in history' :
        key \in DOMAIN h.writes /\ ~Pending(h, i)' <=> \E n \in DOMAIN by : by[n] = h
  BY <1>1
<1>3. StoreIs(shard[i].db.store[key], key, by)'
  BY <1>1, StoreIsPrime
<1>. QED BY <1>1, <1>2, <1>3 DEF Explains

LEMMA HistoryStep ==
  ASSUME Clean, HistoryInv, NEW c \in Clients, NEW t, NEW D, NEW B, StepOf(c, t, D, B),
         ClientStep(c, client[c], MyCalls(c), MyAnswers(c), t, D, B), DecisionsKept,
         NoNewCommit(client[c], MyCalls(c), t, D), ts' = ts, history' = history
  PROVE  HistoryInv'
<1>1. mode' = mode /\ shard' = shard
  BY DEF StepOf
<1>2. HistoryTyped'
  BY DEF HistoryInv, HistoryTyped
<1>3. HistoryFits'
  <2>1. \A h \in history : Decided(client[h.client], h.txn)'
    BY DEF HistoryInv, HistoryFits, HistoryTyped, DecisionsKept
  <2>2. ASSUME NEW e \in Clients, client'[e].pc = "COMMIT"
        PROVE  \E h \in history :
                 /\ h.client = e /\ h.txn = client'[e].txns /\ h.writes = client'[e].puts
                 /\ \A r \in MyCalls(e)' : r.arg0 = h.ts
    <3>1. /\ client'[c] = t /\ MyCalls(c)' = D
          /\ \A f \in Clients \ {c} : client'[f] = client[f] /\ MyCalls(f)' = MyCalls(f)
      <4>1. ClientInv(c, t, D, B)
        BY DEF ClientStep
      <4>. QED BY <4>1, StepIs
    <3>2. /\ client[e].pc = "COMMIT" /\ client'[e].txns = client[e].txns
          /\ client'[e].puts = client[e].puts /\ MyCalls(e)' \subseteq MyCalls(e)
      BY <2>2, <3>1 DEF NoNewCommit
    <3>3. PICK h \in history :
            /\ h.client = e /\ h.txn = client[e].txns /\ h.writes = client[e].puts
            /\ \A r \in MyCalls(e) : r.arg0 = h.ts
      BY <3>2 DEF HistoryInv, HistoryFits
    <3>. QED BY <3>2, <3>3
  <2>. QED BY <2>1, <2>2 DEF HistoryFits
<1>4. PendingLast'
  <2>1. \A h \in history : \A i : Pending(h, i)' <=> Pending(h, i)
    BY PendingSame DEF HistoryInv
  <2>. QED BY <2>1 DEF HistoryInv, PendingLast
<1>5. Explained'
  <2>1. HistoryTyped /\ HistoryFits
    BY DEF HistoryInv
  <2>2. ASSUME NEW key \in Keys
        PROVE  \E by \in Seq(history) : Explains(by, key)'
    <3>1. PICK by \in Seq(history) : Explains(by, key)
      BY DEF HistoryInv, Explained
    <3>2. \A h \in history : Pending(h, key_to_shard(key))' <=> Pending(h, key_to_shard(key))
      BY <2>1, PendingSame
    <3>. QED BY <1>1, <3>1, <3>2, ExplainsSame
  <2>. QED BY <2>2 DEF Explained
<1>6. Serializable'
  <2>1. ASSUME NEW key, NEW time
        PROVE  ValueBefore(key, time)' = ValueBefore(key, time)
    BY DEF ValueBefore
  <2>2. (AsBuilt' <=> AsBuilt) /\ history' = history
    BY <1>1 DEF AsBuilt
  <2>. QED BY <2>1, <2>2 DEF HistoryInv, Serializable
<1>. QED BY <1>2, <1>3, <1>4, <1>5, <1>6 DEF HistoryInv

SysInv == Clean /\ Locals /\ HistoryInv

LEMMA ClientGoes ==
  ASSUME SysInv, NEW c \in Clients, NEW t, NEW D, NEW B, StepOf(c, t, D, B),
         ClientStep(c, client[c], MyCalls(c), MyAnswers(c), t, D, B),
         NoNewCommit(client[c], MyCalls(c), t, D), ts' = ts, history' = history
  PROVE  SysInv'
<1>1. Clean' /\ Locals' /\ DecisionsKept
  BY LocalsStep DEF SysInv
<1>2. HistoryInv'
  BY <1>1, HistoryStep DEF SysInv
<1>. QED BY <1>1, <1>2 DEF SysInv

LEMMA MyInv ==
  ASSUME SysInv, NEW c \in Clients
  PROVE  ClientInv(c, client[c], MyCalls(c), MyAnswers(c))
BY DEF SysInv, Locals

LEMMA BeginKeeps ==
  ASSUME SysInv, NEW c \in Clients, Begin(c)
  PROVE  SysInv'
<1>. DEFINE s == [IdleClient EXCEPT !.pc = "open", !.sent = client[c].sent,
                                    !.txns = client[c].txns + 1]
            t == [s EXCEPT !.sent = @ + 1]
<1>1. client[c].pc = "idle" /\ Sends(c, s, {}) /\ shard' = shard /\ mode' = mode
      /\ ts' = ts /\ history' = history
  BY DEF Begin
<1>2. ClientInv(c, client[c], MyCalls(c), MyAnswers(c)) /\ client[c].sent \in Nat
  BY MyInv, Fields
<1>3. /\ DOMAIN t = ClientFields /\ t.pc = "open" /\ t.txns = client[c].txns + 1
      /\ t.sent \in Nat
      /\ t.all_participants = {} /\ t.yes_participants = {} /\ t.nreplies = 0
      /\ t.reads = {} /\ DOMAIN t.puts = {}
  BY <1>2 DEF IdleClient, ClientFields
<1>4. StepOf(c, t, MyCalls(c), MyAnswers(c))
  <2>. HIDE DEF s
  <2>1. StepOf(c, [s EXCEPT !.sent = @ + 1], MyCalls(c) \cup {}, MyAnswers(c))
    BY <1>1, SendsIs
  <2>. QED BY <2>1
<1>. HIDE DEF t
<1>5. /\ ClientStep(c, client[c], MyCalls(c), MyAnswers(c), t, MyCalls(c), MyAnswers(c))
      /\ NoNewCommit(client[c], MyCalls(c), t, MyCalls(c))
  BY <1>1, <1>2, <1>3, BeginStep
<1>. QED BY <1>1, <1>4, <1>5, ClientGoes

LEMMA OperateKeeps ==
  ASSUME SysInv, NEW c \in Clients, NEW op, NEW key, NEW value,
         OperationOK(op, key, value), Operate(c, op, key, value)
  PROVE  SysInv'
<1>. DEFINE i == key_to_shard(key)
            s == [client[c] EXCEPT !.ops = @ + 1]
<1>1. /\ client[c].pc = "open" /\ shard' = shard /\ mode' = mode
      /\ ts' = ts /\ history' = history
  BY DEF Operate
<1>2. ClientInv(c, client[c], MyCalls(c), MyAnswers(c))
  BY MyInv
<1>3. DOMAIN client[c] = ClientFields /\ client[c].sent \in Nat /\ client[c].nreplies \in Nat
  BY <1>2, Fields
<1>4. CASE i \in s.all_participants /\ Sends(c, [s EXCEPT !.pc = op],
                                              {Request(c, s, i, op, key, value)})
  <2>. DEFINE q == [s EXCEPT !.pc = op]
              t == [q EXCEPT !.sent = @ + 1]
              r == Request(c, s, i, op, key, value)
  <2>1. /\ GoesOn(client[c], t) /\ t.pc = op /\ t.nreplies \in Nat
        /\ t.all_participants = client[c].all_participants
        /\ t.yes_participants = client[c].yes_participants
        /\ t.reads = client[c].reads /\ t.puts = client[c].puts
        /\ i \in client[c].all_participants
    BY <1>3, <1>4 DEF ClientFields, GoesOn
  <2>2. /\ r.txnid = c /\ r.shard = key_to_shard(key) /\ r.op = op
        /\ r.arg0 = key /\ r.arg1 = value
    BY DEF Request
  <2>3. StepOf(c, t, MyCalls(c) \cup {r}, MyAnswers(c))
    <3>. HIDE DEF q, r
    <3>. QED BY <1>1, <1>4, SendsIs DEF q, r
  <2>. HIDE DEF t, r
  <2>4. /\ ClientStep(c, client[c], MyCalls(c), MyAnswers(c), t, MyCalls(c) \cup {r},
                      MyAnswers(c))
        /\ NoNewCommit(client[c], MyCalls(c), t, MyCalls(c) \cup {r})
    BY <1>1, <1>2, <2>1, <2>2, OperateStep
  <2>. QED BY <1>1, <2>3, <2>4, ClientGoes
<1>5. CASE /\ i \notin s.all_participants
           /\ Sends(c, [s EXCEPT !.pc = "BEGIN",
                           !.all_participants = @ \cup {i},
                           !.next = [op |-> op, arg0 |-> key, arg1 |-> value]],
                     {Request(c, s, i, "BEGIN", 0, NoValue)})
  <2>. DEFINE q == [s EXCEPT !.pc = "BEGIN",
                           !.all_participants = @ \cup {i},
                           !.next = [op |-> op, arg0 |-> key, arg1 |-> value]]
              t == [q EXCEPT !.sent = @ + 1]
              r == Request(c, s, i, "BEGIN", 0, NoValue)
  <2>1. /\ GoesOn(client[c], t) /\ t.pc = "BEGIN" /\ t.nreplies \in Nat
        /\ t.next.op = op /\ t.next.arg0 = key /\ t.next.arg1 = value
        /\ t.all_participants = client[c].all_participants \cup {key_to_shard(key)}
        /\ t.yes_participants = client[c].yes_participants
        /\ t.reads = client[c].reads /\ t.puts = client[c].puts
        /\ i \notin client[c].all_participants
    BY <1>3, <1>5 DEF ClientFields, GoesOn
  <2>2. r.txnid = c /\ r.shard = key_to_shard(key) /\ r.op = "BEGIN"
    BY DEF Request
  <2>3. StepOf(c, t, MyCalls(c) \cup {r}, MyAnswers(c))
    <3>. HIDE DEF q, r
    <3>. QED BY <1>1, <1>5, SendsIs DEF q, r
  <2>. HIDE DEF t, r
  <2>4. /\ ClientStep(c, client[c], MyCalls(c), MyAnswers(c), t, MyCalls(c) \cup {r},
                      MyAnswers(c))
        /\ NoNewCommit(client[c], MyCalls(c), t, MyCalls(c) \cup {r})
    BY <1>1, <1>2, <2>1, <2>2, EnlistStep
  <2>. QED BY <1>1, <2>3, <2>4, ClientGoes
<1>. QED BY <1>4, <1>5 DEF Operate

LEMMA GetKeeps ==
  ASSUME SysInv, NEW c \in Clients, Get(c)
  PROVE  SysInv'
<1>1. PICK key \in Keys : Operate(c, "GET", key, NoValue)
  BY DEF Get
<1>. QED BY <1>1, OperateKeeps DEF OperationOK

LEMMA PutKeeps ==
  ASSUME SysInv, NEW c \in Clients, Put(c)
  PROVE  SysInv'
<1>1. PICK key \in Keys : Operate(c, "PUT", key, <<c, client[c].sent>>)
  BY DEF Put
<1>2. client[c].sent \in Nat
  BY MyInv, Fields
<1>3. OperationOK("PUT", key, <<c, client[c].sent>>)
  BY <1>2 DEF OperationOK, Vals
<1>. QED BY <1>1, <1>3, OperateKeeps

LEMMA AnswerIs ==
  ASSUME SysInv, NEW c \in Clients, NEW op, NEW a \in Answers(c, op)
  PROVE  /\ a \in replies /\ a \in MyAnswers(c) /\ a.req.txnid = c /\ a.req \in calls
         /\ client[c].pc = op /\ a.req.op = op
<1>1. a \in replies /\ a \in MyAnswers(c) /\ a.req.txnid = c /\ a.req.op = op
  BY DEF Answers, MyAnswers
<1>2. a.req \in calls
  BY <1>1 DEF SysInv, Clean
<1>3. client[c].pc = op
  BY <1>1, MyInv DEF ClientInv, AnswersOK, CallsOK, RequestOK
<1>. QED BY <1>1, <1>2, <1>3

LEMMA BegunKeeps ==
  ASSUME SysInv, NEW c \in Clients, beginCallback(c)
  PROVE  SysInv'
<1>. DEFINE s == client[c]
            q == [s EXCEPT !.pc = s.next.op, !.next = NoOp]
            t == [q EXCEPT !.sent = @ + 1]
<1>1. PICK a \in Answers(c, "BEGIN") :
        /\ Accepts(c, a, q, {Request(c, s, a.req.shard, s.next.op, s.next.arg0,
                                     s.next.arg1)})
        /\ UNCHANGED <<mode, shard, ts, rollbacks, history>>
  BY DEF beginCallback
<1>. DEFINE r == Request(c, s, a.req.shard, s.next.op, s.next.arg0, s.next.arg1)
<1>2. /\ a \in replies /\ a \in MyAnswers(c) /\ a.req.txnid = c /\ a.req \in calls
      /\ client[c].pc = "BEGIN"
  BY AnswerIs
<1>3. ClientInv(c, client[c], MyCalls(c), MyAnswers(c))
  BY MyInv
<1>4. DOMAIN client[c] = ClientFields /\ client[c].sent \in Nat /\ client[c].nreplies \in Nat
  BY <1>3, Fields
<1>5. /\ GoesOn(client[c], t) /\ t.pc = client[c].next.op /\ t.nreplies \in Nat
      /\ t.all_participants = client[c].all_participants
      /\ t.yes_participants = client[c].yes_participants
      /\ t.reads = client[c].reads /\ t.puts = client[c].puts
  BY <1>4 DEF ClientFields, GoesOn
<1>6. /\ r.txnid = c /\ r.shard = a.req.shard /\ r.op = client[c].next.op
      /\ r.arg0 = client[c].next.arg0 /\ r.arg1 = client[c].next.arg1
  BY DEF Request
<1>7. StepOf(c, t, (MyCalls(c) \ {a.req}) \cup {r}, MyAnswers(c) \ {a})
  <2>. HIDE DEF q, r
  <2>. QED BY <1>1, <1>2, AcceptsIs DEF r
<1>. HIDE DEF t, r
<1>8. /\ ClientStep(c, client[c], MyCalls(c), MyAnswers(c), t,
                    (MyCalls(c) \ {a.req}) \cup {r}, MyAnswers(c) \ {a})
      /\ NoNewCommit(client[c], MyCalls(c), t, (MyCalls(c) \ {a.req}) \cup {r})
  BY <1>2, <1>3, <1>5, <1>6, BegunStep
<1>. QED BY <1>1, <1>7, <1>8, ClientGoes

LEMMA GotKeeps ==
  ASSUME SysInv, NEW c \in Clients, getCallback(c)
  PROVE  SysInv'
<1>. DEFINE s == client[c]
<1>1. PICK a \in Answers(c, "GET") :
        /\ Accepts(c, a, [s EXCEPT !.pc = "open", !.status = a.status >= 0,
              !.reads = IF a.status >= 0
                        THEN @ \cup {[key |-> a.req.arg0, value |-> a.value,
                                      own |-> Own(s, a.req.arg0)]} ELSE @], {})
        /\ UNCHANGED <<mode, shard, ts, rollbacks, history>>
  BY DEF getCallback
<1>. DEFINE read == [key |-> a.req.arg0, value |-> a.value, own |-> Own(s, a.req.arg0)]
            reads == IF a.status >= 0 THEN s.reads \cup {read} ELSE s.reads
            q == [s EXCEPT !.pc = "open", !.status = a.status >= 0, !.reads = reads]
            t == [q EXCEPT !.sent = @ + 1]
<1>2. /\ a \in replies /\ a \in MyAnswers(c) /\ a.req.txnid = c /\ a.req \in calls
      /\ client[c].pc = "GET" /\ a.req.op = "GET"
  BY AnswerIs
<1>3. ClientInv(c, client[c], MyCalls(c), MyAnswers(c))
  BY MyInv
<1>4. DOMAIN client[c] = ClientFields /\ client[c].sent \in Nat /\ client[c].nreplies \in Nat
  BY <1>3, Fields
<1>5. /\ GoesOn(client[c], t) /\ t.pc = "open" /\ t.nreplies \in Nat
      /\ t.all_participants = client[c].all_participants
      /\ t.yes_participants = client[c].yes_participants
      /\ t.reads = reads /\ t.puts = client[c].puts
  <2>. HIDE DEF reads
  <2>. QED BY <1>4 DEF ClientFields, GoesOn
<1>6. MyAnswers(c) = {a}
  BY <1>2, <1>3, Alone
<1>7. SameData(client[c], MyAnswers(c), t, MyAnswers(c) \ {a})
  <2>1. MyAnswers(c) \ {a} = {}
    BY <1>6
  <2>. HIDE DEF t
  <2>2. SameData(client[c], {a}, t, {})
    BY <1>2, <1>5, GotData
  <2>. QED BY <1>6, <2>1, <2>2
<1>8. StepOf(c, t, MyCalls(c) \ {a.req}, MyAnswers(c) \ {a})
  <2>1. Accepts(c, a, q, {})
    BY <1>1
  <2>. HIDE DEF q
  <2>2. StepOf(c, t, (MyCalls(c) \ {a.req}) \cup {}, MyAnswers(c) \ {a})
    BY <1>1, <1>2, <2>1, AcceptsIs
  <2>. QED BY <2>2
<1>. HIDE DEF t
<1>9. /\ ClientStep(c, client[c], MyCalls(c), MyAnswers(c), t,
                    MyCalls(c) \ {a.req}, MyAnswers(c) \ {a})
      /\ NoNewCommit(client[c], MyCalls(c), t, MyCalls(c) \ {a.req})
  BY <1>2, <1>3, <1>5, <1>7, AnsweredStep
<1>. QED BY <1>1, <1>8, <1>9, ClientGoes

LEMMA PuttedKeeps ==
  ASSUME SysInv, NEW c \in Clients, putCallback(c)
  PROVE  SysInv'
<1>. DEFINE s == client[c]
<1>1. PICK a \in Answers(c, "PUT") :
        /\ Accepts(c, a, [s EXCEPT !.pc = "open",
                            !.puts = IF a.status >= 0
                                     THEN With(@, a.req.arg0, a.req.arg1)
                                     ELSE @], {})
        /\ UNCHANGED <<mode, shard, ts, rollbacks, history>>
  BY DEF putCallback
<1>. DEFINE puts == IF a.status >= 0 THEN With(s.puts, a.req.arg0, a.req.arg1) ELSE s.puts
            q == [s EXCEPT !.pc = "open", !.puts = puts]
            t == [q EXCEPT !.sent = @ + 1]
<1>2. /\ a \in replies /\ a \in MyAnswers(c) /\ a.req.txnid = c /\ a.req \in calls
      /\ client[c].pc = "PUT" /\ a.req.op = "PUT"
  BY AnswerIs
<1>3. ClientInv(c, client[c], MyCalls(c), MyAnswers(c))
  BY MyInv
<1>4. DOMAIN client[c] = ClientFields /\ client[c].sent \in Nat /\ client[c].nreplies \in Nat
  BY <1>3, Fields
<1>5. /\ GoesOn(client[c], t) /\ t.pc = "open" /\ t.nreplies \in Nat
      /\ t.all_participants = client[c].all_participants
      /\ t.yes_participants = client[c].yes_participants
      /\ t.reads = client[c].reads /\ t.puts = puts
  <2>. HIDE DEF puts
  <2>. QED BY <1>4 DEF ClientFields, GoesOn
<1>6. MyAnswers(c) = {a}
  BY <1>2, <1>3, Alone
<1>7. SameData(client[c], MyAnswers(c), t, MyAnswers(c) \ {a})
  <2>1. MyAnswers(c) \ {a} = {}
    BY <1>6
  <2>. HIDE DEF t
  <2>2. SameData(client[c], {a}, t, {})
    BY <1>2, <1>5, PutData
  <2>. QED BY <1>6, <2>1, <2>2
<1>8. StepOf(c, t, MyCalls(c) \ {a.req}, MyAnswers(c) \ {a})
  <2>1. Accepts(c, a, q, {})
    BY <1>1
  <2>. HIDE DEF q
  <2>2. StepOf(c, t, (MyCalls(c) \ {a.req}) \cup {}, MyAnswers(c) \ {a})
    BY <1>1, <1>2, <2>1, AcceptsIs
  <2>. QED BY <2>2
<1>. HIDE DEF t
<1>9. /\ ClientStep(c, client[c], MyCalls(c), MyAnswers(c), t,
                    MyCalls(c) \ {a.req}, MyAnswers(c) \ {a})
      /\ NoNewCommit(client[c], MyCalls(c), t, MyCalls(c) \ {a.req})
  BY <1>2, <1>3, <1>5, <1>7, AnsweredStep
<1>. QED BY <1>1, <1>8, <1>9, ClientGoes

LEMMA CommitKeeps ==
  ASSUME SysInv, NEW c \in Clients, Commit(c)
  PROVE  SysInv'
<1>. DEFINE s == client[c]
            q == [s EXCEPT !.pc = "PREPARE", !.nreplies = 0, !.status = TRUE]
            t == [q EXCEPT !.sent = @ + 1]
            D == ToAll(c, s, s.all_participants, "PREPARE", 0)
<1>1. /\ s.pc = "open" /\ Sends(c, q, D)
      /\ UNCHANGED <<mode, shard, ts, rollbacks, history>>
  BY DEF Commit
<1>2. ClientInv(c, client[c], MyCalls(c), MyAnswers(c))
  BY MyInv
<1>3. DOMAIN client[c] = ClientFields /\ client[c].sent \in Nat
  BY <1>2, Fields
<1>4. /\ GoesOn(client[c], t) /\ t.pc = "PREPARE" /\ t.nreplies = 0
      /\ t.all_participants = client[c].all_participants
      /\ t.yes_participants = client[c].yes_participants
      /\ t.reads = client[c].reads /\ t.puts = client[c].puts
  BY <1>3 DEF ClientFields, GoesOn
<1>5. StepOf(c, t, MyCalls(c) \cup D, MyAnswers(c))
  <2>. HIDE DEF q, D
  <2>. QED BY <1>1, SendsIs
<1>6. Broadcast(D, c, s.all_participants, "PREPARE")
  BY ToAllIs
<1>. HIDE DEF t, D
<1>7. /\ ClientStep(c, client[c], MyCalls(c), MyAnswers(c), t, MyCalls(c) \cup D,
                    MyAnswers(c))
      /\ NoNewCommit(client[c], MyCalls(c), t, MyCalls(c) \cup D)
  BY <1>1, <1>2, <1>4, <1>6, AskStep
<1>. QED BY <1>1, <1>5, <1>7, ClientGoes

LEMMA AbortKeeps ==
  ASSUME SysInv, NEW c \in Clients, Abort(c)
  PROVE  SysInv'
<1>. DEFINE s == client[c]
            q == AbortTo(s)
            t == [q EXCEPT !.sent = @ + 1]
            D == ToAll(c, s, s.yes_participants, "ABORT", 0)
<1>1. /\ s.pc = "open" /\ Sends(c, q, D)
      /\ UNCHANGED <<mode, shard, ts, rollbacks, history>>
  BY DEF Abort, Aborts
<1>2. ClientInv(c, client[c], MyCalls(c), MyAnswers(c))
  BY MyInv
<1>3. DOMAIN client[c] = ClientFields /\ client[c].sent \in Nat
  BY <1>2, Fields
<1>4. /\ GoesOn(client[c], t) /\ t.nreplies = 0
      /\ t.pc = IF client[c].yes_participants = {} THEN "idle" ELSE "ABORT"
      /\ t.all_participants = client[c].all_participants
      /\ t.yes_participants = client[c].yes_participants
      /\ t.reads = client[c].reads /\ t.puts = client[c].puts
  BY <1>3 DEF ClientFields, GoesOn, AbortTo
<1>5. StepOf(c, t, MyCalls(c) \cup D, MyAnswers(c))
  <2>. HIDE DEF q, D
  <2>. QED BY <1>1, SendsIs
<1>6. Broadcast(D, c, s.yes_participants, "ABORT")
  BY ToAllIs
<1>7. MyCalls(c) = {} /\ MyAnswers(c) = {}
  BY <1>1, <1>2, Quiet DEF Ops
<1>. HIDE DEF t, D
<1>8. ClientInv(c, client[c], {}, {})
  BY <1>2, <1>7
<1>9. /\ ClientStep(c, client[c], {}, {}, t, D, {})
      /\ NoNewCommit(client[c], {}, t, D)
  BY <1>1, <1>4, <1>6, <1>8, VetoStep
<1>10. MyCalls(c) \cup D = D
  BY <1>7
<1>. QED BY <1>1, <1>5, <1>7, <1>9, <1>10, ClientGoes

LEMMA VotedKeeps ==
  ASSUME SysInv, NEW c \in Clients, prepareCallback(c)
  PROVE  SysInv'
<1>1. PICK a \in Answers(c, "PREPARE") :
        LET yes == a.status >= 0
            s   == [client[c] EXCEPT
                      !.nreplies = @ + 1, !.status = @ /\ yes,
                      !.yes_participants = IF yes THEN @ \cup {a.req.shard} ELSE @]
            last == s.nreplies = Cardinality(s.all_participants)
        IN  /\ \/ /\ ~last
                  /\ Accepts(c, a, s, {})
               \/ /\ last /\ s.status
                  /\ Accepts(c, a, [s EXCEPT !.pc = "TSS"], {})
               \/ /\ last /\ ~s.status
                  /\ Accepts(c, a, AbortTo(s), Aborts(c, s))
            /\ UNCHANGED <<mode, shard, ts, rollbacks, history>>
  BY DEF prepareCallback
<1>. DEFINE yes == a.status >= 0
            u == [client[c] EXCEPT
                    !.nreplies = @ + 1, !.status = @ /\ yes,
                    !.yes_participants = IF yes THEN @ \cup {a.req.shard} ELSE @]
            last == u.nreplies = Cardinality(u.all_participants)
            E == MyCalls(c) \ {a.req}
            F == MyAnswers(c) \ {a}
<1>2. /\ mode' = mode /\ shard' = shard /\ ts' = ts /\ history' = history
      /\ \/ ~last /\ Accepts(c, a, u, {})
         \/ last /\ u.status /\ Accepts(c, a, [u EXCEPT !.pc = "TSS"], {})
         \/ last /\ ~u.status /\ Accepts(c, a, AbortTo(u), Aborts(c, u))
  BY <1>1
<1>3. /\ a \in replies /\ a \in MyAnswers(c) /\ a.req.txnid = c /\ a.req \in calls
      /\ client[c].pc = "PREPARE"
  BY AnswerIs
<1>4. ClientInv(c, client[c], MyCalls(c), MyAnswers(c))
  BY MyInv
<1>5. DOMAIN client[c] = ClientFields /\ client[c].sent \in Nat /\ client[c].nreplies \in Nat
  BY <1>4, Fields
<1>6. /\ DOMAIN u = ClientFields /\ u.sent \in Nat /\ u.txns = client[c].txns
      /\ u.pc = "PREPARE" /\ u.nreplies = client[c].nreplies + 1
      /\ u.status = (client[c].status /\ a.status >= 0)
      /\ u.yes_participants = IF a.status >= 0
                              THEN client[c].yes_participants \cup {a.req.shard}
                              ELSE client[c].yes_participants
      /\ u.all_participants = client[c].all_participants
      /\ u.reads = client[c].reads /\ u.puts = client[c].puts
  BY <1>3, <1>5 DEF ClientFields
<1>. HIDE DEF u
<1>7. CASE ~last /\ Accepts(c, a, u, {})
  <2>. DEFINE t == [u EXCEPT !.sent = @ + 1]
  <2>1. StepOf(c, t, E, F)
    <3>1. StepOf(c, t, E \cup {}, F)
      BY <1>2, <1>3, <1>7, AcceptsIs
    <3>. QED BY <3>1
  <2>2. /\ GoesOn(client[c], t) /\ t.pc = "PREPARE"
        /\ t.nreplies = client[c].nreplies + 1
        /\ t.status = (client[c].status /\ a.status >= 0)
        /\ t.yes_participants = IF a.status >= 0
                                THEN client[c].yes_participants \cup {a.req.shard}
                                ELSE client[c].yes_participants
        /\ t.all_participants = client[c].all_participants
        /\ t.reads = client[c].reads /\ t.puts = client[c].puts
    BY <1>6 DEF ClientFields, GoesOn
  <2>. HIDE DEF t
  <2>3. /\ ClientStep(c, client[c], MyCalls(c), MyAnswers(c), t, E, F)
        /\ NoNewCommit(client[c], MyCalls(c), t, E)
    BY <1>3, <1>4, <2>2, VoteStep
  <2>. QED BY <1>2, <2>1, <2>3, ClientGoes
<1>8. ASSUME last
      PROVE  /\ ClientStep(c, client[c], MyCalls(c), MyAnswers(c), u, {}, {})
             /\ E = {} /\ F = {} /\ ClientInv(c, u, {}, {})
  <2>1. GoesOn(client[c], u)
    BY <1>6 DEF GoesOn
  <2>2. ClientStep(c, client[c], MyCalls(c), MyAnswers(c), u, E, F)
    BY <1>3, <1>4, <1>6, <2>1, VoteStep
  <2>3. client[c].nreplies + 1 = Cardinality(client[c].all_participants)
    BY <1>6, <1>8
  <2>4. E = {} /\ F = {}
    BY <1>3, <1>4, <2>3, LastVote
  <2>. QED BY <2>2, <2>4 DEF ClientStep
<1>9. CASE last /\ u.status /\ Accepts(c, a, [u EXCEPT !.pc = "TSS"], {})
  <2>. DEFINE q == [u EXCEPT !.pc = "TSS"]
              t == [q EXCEPT !.sent = @ + 1]
  <2>0. E = {} /\ F = {} /\ ClientInv(c, u, {}, {})
        /\ ClientStep(c, client[c], MyCalls(c), MyAnswers(c), u, {}, {})
    BY <1>8, <1>9
  <2>1. StepOf(c, t, {}, {})
    <3>. HIDE DEF q
    <3>1. StepOf(c, t, E \cup {}, F)
      BY <1>2, <1>3, <1>9, AcceptsIs DEF q
    <3>2. E \cup {} = {} /\ F = {}
      BY <2>0
    <3>. QED BY <3>1, <3>2
  <2>2. /\ GoesOn(u, t) /\ t.pc = "TSS" /\ t.nreplies \in Nat
        /\ t.yes_participants = u.yes_participants
        /\ t.all_participants = u.all_participants /\ t.reads = u.reads /\ t.puts = u.puts
    BY <1>5, <1>6 DEF ClientFields, GoesOn
  <2>. HIDE DEF t
  <2>3. ClientStep(c, u, {}, {}, t, {}, {}) /\ NoNewCommit(u, {}, t, {})
    BY <1>6, <1>9, <2>0, <2>2, DecideStep
  <2>4. /\ ClientStep(c, client[c], MyCalls(c), MyAnswers(c), t, {}, {})
        /\ NoNewCommit(client[c], MyCalls(c), t, {})
    BY <1>6, <2>0, <2>3, TwoSteps
  <2>. QED BY <1>2, <2>1, <2>4, ClientGoes
<1>10. CASE last /\ ~u.status /\ Accepts(c, a, AbortTo(u), Aborts(c, u))
  <2>. DEFINE q == AbortTo(u)
              t == [q EXCEPT !.sent = @ + 1]
              D == ToAll(c, u, u.yes_participants, "ABORT", 0)
  <2>0. E = {} /\ F = {} /\ ClientInv(c, u, {}, {})
        /\ ClientStep(c, client[c], MyCalls(c), MyAnswers(c), u, {}, {})
    BY <1>8, <1>10
  <2>1. StepOf(c, t, D, {})
    <3>. HIDE DEF q, D
    <3>1. Accepts(c, a, q, D)
      BY <1>10 DEF q, D, Aborts
    <3>2. StepOf(c, t, E \cup D, F)
      BY <1>2, <1>3, <3>1, AcceptsIs
    <3>3. E \cup D = D /\ F = {}
      BY <2>0
    <3>. QED BY <3>2, <3>3
  <2>2. /\ GoesOn(u, t) /\ t.nreplies = 0
        /\ t.pc = IF u.yes_participants = {} THEN "idle" ELSE "ABORT"
        /\ t.yes_participants = u.yes_participants
        /\ t.all_participants = u.all_participants /\ t.reads = u.reads /\ t.puts = u.puts
    BY <1>6 DEF ClientFields, GoesOn, AbortTo
  <2>3. Broadcast(D, c, u.yes_participants, "ABORT")
    BY ToAllIs
  <2>. HIDE DEF t, D
  <2>4. ClientStep(c, u, {}, {}, t, D, {}) /\ NoNewCommit(u, {}, t, D)
    BY <1>6, <2>0, <2>2, <2>3, VetoStep
  <2>5. /\ ClientStep(c, client[c], MyCalls(c), MyAnswers(c), t, D, {})
        /\ NoNewCommit(client[c], MyCalls(c), t, D)
    BY <1>6, <2>0, <2>4, TwoSteps
  <2>. QED BY <1>2, <2>1, <2>5, ClientGoes
<1>. QED BY <1>2, <1>7, <1>9, <1>10

LEMMA DoneKeeps ==
  ASSUME SysInv, NEW c \in Clients, commitCallback(c) \/ abortCallback(c)
  PROVE  SysInv'
<1>. DEFINE u == [client[c] EXCEPT !.nreplies = @ + 1]
            S == IF client[c].pc = "COMMIT" THEN client[c].all_participants
                 ELSE client[c].yes_participants
            q == IF u.nreplies = Cardinality(S) THEN [u EXCEPT !.pc = "idle"] ELSE u
            t == [q EXCEPT !.sent = @ + 1]
<1>1. PICK a \in Answers(c, "COMMIT") \cup Answers(c, "ABORT") :
        /\ Accepts(c, a, q, {})
        /\ mode' = mode /\ shard' = shard /\ ts' = ts /\ history' = history
  <2>1. ClientInv(c, client[c], MyCalls(c), MyAnswers(c))
    BY MyInv
  <2>2. DOMAIN client[c] = ClientFields
    BY <2>1, Fields
  <2>3. /\ u.all_participants = client[c].all_participants
        /\ u.yes_participants = client[c].yes_participants
    BY <2>2 DEF ClientFields
  <2>4. CASE commitCallback(c)
    <3>1. PICK a \in Answers(c, "COMMIT") :
            /\ Accepts(c, a, IF u.nreplies = Cardinality(u.all_participants)
                             THEN [u EXCEPT !.pc = "idle"] ELSE u, {})
            /\ UNCHANGED <<mode, shard, ts, rollbacks, history>>
      BY <2>4 DEF commitCallback
    <3>2. client[c].pc = "COMMIT"
      BY <3>1, AnswerIs
    <3>. HIDE DEF u
    <3>. QED BY <2>3, <3>1, <3>2
  <2>5. CASE abortCallback(c)
    <3>1. PICK a \in Answers(c, "ABORT") :
            /\ Accepts(c, a, IF u.nreplies = Cardinality(u.yes_participants)
                             THEN [u EXCEPT !.pc = "idle"] ELSE u, {})
            /\ UNCHANGED <<mode, shard, ts, rollbacks, history>>
      BY <2>5 DEF abortCallback
    <3>2. client[c].pc = "ABORT"
      BY <3>1, AnswerIs
    <3>. HIDE DEF u
    <3>. QED BY <2>3, <3>1, <3>2
  <2>. QED BY <2>4, <2>5
<1>2. /\ a \in replies /\ a \in MyAnswers(c) /\ a.req.txnid = c /\ a.req \in calls
      /\ client[c].pc \in {"COMMIT", "ABORT"}
  <2>1. CASE a \in Answers(c, "COMMIT")
    BY <2>1, AnswerIs
  <2>2. CASE a \in Answers(c, "ABORT")
    BY <2>2, AnswerIs
  <2>. QED BY <1>1, <2>1, <2>2
<1>3. ClientInv(c, client[c], MyCalls(c), MyAnswers(c))
  BY MyInv
<1>4. DOMAIN client[c] = ClientFields /\ client[c].sent \in Nat /\ client[c].nreplies \in Nat
  BY <1>3, Fields
<1>5. /\ GoesOn(client[c], t) /\ t.nreplies = client[c].nreplies + 1
      /\ t.pc = IF t.nreplies = Cardinality(IF client[c].pc = "COMMIT"
                                            THEN client[c].all_participants
                                            ELSE client[c].yes_participants)
                THEN "idle" ELSE client[c].pc
      /\ t.yes_participants = client[c].yes_participants
      /\ t.all_participants = client[c].all_participants
      /\ t.reads = client[c].reads /\ t.puts = client[c].puts
  <2>. DEFINE n == Cardinality(S)
  <2>1. /\ DOMAIN u = ClientFields /\ u.sent \in Nat /\ u.nreplies = client[c].nreplies + 1
        /\ u.pc = client[c].pc /\ u.txns = client[c].txns
        /\ u.yes_participants = client[c].yes_participants
        /\ u.all_participants = client[c].all_participants
        /\ u.reads = client[c].reads /\ u.puts = client[c].puts
    BY <1>4 DEF ClientFields
  <2>2. q = IF u.nreplies = n THEN [u EXCEPT !.pc = "idle"] ELSE u
    OBVIOUS
  <2>. HIDE DEF u, n
  <2>3. /\ DOMAIN q = ClientFields /\ q.sent \in Nat /\ q.nreplies = client[c].nreplies + 1
        /\ q.pc = (IF client[c].nreplies + 1 = n THEN "idle" ELSE client[c].pc)
        /\ q.txns = client[c].txns
        /\ q.yes_participants = client[c].yes_participants
        /\ q.all_participants = client[c].all_participants
        /\ q.reads = client[c].reads /\ q.puts = client[c].puts
    BY <2>1, <2>2 DEF ClientFields
  <2>. HIDE DEF q
  <2>4. /\ DOMAIN t = ClientFields /\ t.sent \in Nat /\ t.nreplies = client[c].nreplies + 1
        /\ t.pc = (IF client[c].nreplies + 1 = n THEN "idle" ELSE client[c].pc)
        /\ t.txns = client[c].txns
        /\ t.yes_participants = client[c].yes_participants
        /\ t.all_participants = client[c].all_participants
        /\ t.reads = client[c].reads /\ t.puts = client[c].puts
    BY <2>3 DEF ClientFields
  <2>. HIDE DEF t
  <2>. QED BY <2>4 DEF n, GoesOn
<1>6. StepOf(c, t, MyCalls(c) \ {a.req}, MyAnswers(c) \ {a})
  <2>1. Accepts(c, a, q, {}) /\ mode' = mode /\ shard' = shard
    BY <1>1
  <2>. HIDE DEF q
  <2>2. StepOf(c, t, (MyCalls(c) \ {a.req}) \cup {}, MyAnswers(c) \ {a})
    BY <1>2, <2>1, AcceptsIs
  <2>. QED BY <2>2
<1>. HIDE DEF t
<1>7. /\ ClientStep(c, client[c], MyCalls(c), MyAnswers(c), t,
                    MyCalls(c) \ {a.req}, MyAnswers(c) \ {a})
      /\ NoNewCommit(client[c], MyCalls(c), t, MyCalls(c) \ {a.req})
  <2>. HIDE DEF S, q
  <2>. QED BY <1>2, <1>3, <1>5, DoneStep
<1>. QED BY <1>1, <1>6, <1>7, ClientGoes

-----------------------------------------------------------------------------
(* A timestamp is given.                                                     *)

(* A transaction whose commit a shard has not executed is prepared there.    *)
LEMMA PendingIsPrepared ==
  ASSUME SysInv, NEW h \in history, NEW i \in Shards, Pending(h, i)
  PROVE  /\ h.client \in DOMAIN shard[i].db.prepared
         /\ client[h.client].pc = "COMMIT"
         /\ \A key \in KeysOf(i) : key \in DOMAIN h.writes =>
              key \in DOMAIN shard[i].db.prepared[h.client].writes
<1>. DEFINE e == h.client
            s == client[e]
            db == shard[i].db
<1>1. e \in Clients /\ HistoryTyped /\ HistoryFits
  BY DEF SysInv, HistoryInv, HistoryTyped
<1>2. s.pc = "COMMIT" /\ s.txns = h.txn /\ UnexecutedAt(MyCalls(e), MyAnswers(e), i)
  BY DEF Pending, PendingOf
<1>3. IsPrepared(s, MyCalls(e), MyAnswers(e), i)
  BY <1>2 DEF IsPrepared
<1>4. ShardInv(e, i, s, MyCalls(e), MyAnswers(e), db)
  BY <1>1 DEF SysInv, Locals
<1>5. e \in DOMAIN db.prepared /\ Linked(i, s, MyAnswers(e), db, db.prepared[e])
  BY <1>3, <1>4 DEF ShardInv
<1>6. PICK g \in history : g.client = e /\ g.txn = s.txns /\ g.writes = s.puts
  BY <1>1, <1>2 DEF HistoryFits
<1>7. h.writes = s.puts
  BY <1>1, <1>2, <1>6 DEF HistoryTyped
<1>8. PutKeys(s, MyAnswers(e)) = DOMAIN s.puts
  <2>1. ClientInv(e, s, MyCalls(e), MyAnswers(e))
    BY <1>1, MyInv
  <2>2. \A b \in MyAnswers(e) : b.req.op \notin {"GET", "PUT"}
    BY <1>2, <2>1, NoDataComing
  <2>. QED BY <2>2, NoNews
<1>. QED BY <1>2, <1>5, <1>7, <1>8 DEF Linked

(* It has not written what another has prepared.                             *)
LEMMA NoPendingWriter ==
  ASSUME SysInv, NEW i \in Shards, NEW c \in DOMAIN shard[i].db.prepared,
         client[c].pc # "COMMIT",
         NEW h \in history, NEW key \in KeysOf(i), key \in DOMAIN h.writes,
         \/ key \in DOMAIN shard[i].db.prepared[c].reads
         \/ key \in DOMAIN shard[i].db.prepared[c].writes
  PROVE  ~Pending(h, i)
<1>. SUFFICES ASSUME Pending(h, i) PROVE FALSE
  OBVIOUS
<1>1. /\ h.client \in DOMAIN shard[i].db.prepared /\ client[h.client].pc = "COMMIT"
      /\ key \in DOMAIN shard[i].db.prepared[h.client].writes
  BY PendingIsPrepared
<1>2. DbOK(shard[i].db, KeysOf(i))
  BY DEF SysInv, Clean
<1>3. WritesApart(shard[i].db.prepared[h.client], shard[i].db.prepared[c])
  BY <1>1, <1>2, PreparedApart
<1>. QED BY <1>1, <1>3 DEF WritesApart

(* What a store has for a key, when no commit of one that has written it is  *)
(* left to execute.                                                            *)
LEMMA CurrentIs ==
  ASSUME HistoryTyped, NEW key, NEW by, Explains(by, key),
         \A h \in history : key \in DOMAIN h.writes => ~Pending(h, key_to_shard(key))
  PROVE  Current(shard[key_to_shard(key)].db, key) = ValueBefore(key, ts + 1)
<1>. DEFINE i == key_to_shard(key)
            values == shard[i].db.store[key]
            n == Len(by)
            writers == {h \in history : h.ts < ts + 1 /\ key \in DOMAIN h.writes}
<1>1. /\ by \in Seq(history)
      /\ \A m, k \in DOMAIN by : m < k => by[m].ts < by[k].ts
      /\ \A h \in history :
           key \in DOMAIN h.writes /\ ~Pending(h, i) <=> \E k \in DOMAIN by : by[k] = h
      /\ StoreIs(values, key, by)
  BY DEF Explains
<1>2. n \in Nat /\ DOMAIN by = 1 .. n /\ \A k \in 1 .. n : by[k] \in history
  BY <1>1, LenProperties, ElementOfSeq
<1>3. ts \in Nat /\ \A h \in history : h.ts \in 1 .. ts
  BY DEF HistoryTyped
<1>4. \A h : h \in writers <=> \E k \in 1 .. n : by[k] = h
  BY <1>1, <1>2, <1>3
<1>5. CASE n = 0
  <2>1. writers = {}
    BY <1>4, <1>5
  <2>2. ValueBefore(key, ts + 1) = Loaded
    BY <2>1 DEF ValueBefore
  <2>3. Current(shard[i].db, key) = Loaded
    <3>1. CASE Locking
      BY <1>1, <1>5, <3>1 DEF StoreIs, Current, Last
    <3>2. CASE ~Locking
      BY <1>1, <1>5, <3>2 DEF StoreIs, Current
    <3>. QED BY <3>1, <3>2
  <2>. QED BY <2>2, <2>3
<1>6. CASE n # 0
  <2>1. n \in 1 .. n /\ by[n] \in writers
    BY <1>2, <1>4, <1>6
  <2>2. \A h \in writers : h.ts <= by[n].ts
    <3>. SUFFICES ASSUME NEW h \in writers PROVE h.ts <= by[n].ts
      OBVIOUS
    <3>1. PICK k \in 1 .. n : by[k] = h
      BY <1>4
    <3>2. k = n \/ by[k].ts < by[n].ts
      <4>0. n \in Nat /\ k \in 1 .. n /\ n \in 1 .. n /\ DOMAIN by = 1 .. n
        BY <1>2, <2>1
      <4>1. k \in DOMAIN by /\ n \in DOMAIN by /\ (k = n \/ k < n)
        <5>. HIDE DEF n
        <5>. QED BY <4>0
      <4>2. \A m, j \in DOMAIN by : m < j => by[m].ts < by[j].ts
        BY DEF Explains
      <4>. QED BY <4>1, <4>2
    <3>3. by[n].ts \in Nat /\ h.ts \in Nat
      BY <1>2, <1>3, <2>1
    <3>. QED BY <3>1, <3>2, <3>3
  <2>3. \A h \in writers : (\A g \in writers : g.ts <= h.ts) => h = by[n]
    <3>. SUFFICES ASSUME NEW h \in writers, \A g \in writers : g.ts <= h.ts
         PROVE  h = by[n]
      OBVIOUS
    <3>1. by[n].ts <= h.ts /\ h.ts <= by[n].ts
      BY <2>1, <2>2
    <3>2. h \in history /\ by[n] \in history
      BY <2>1
    <3>3. h.ts = by[n].ts
      BY <1>3, <3>1, <3>2
    <3>. QED BY <3>2, <3>3 DEF HistoryTyped
  <2>4. (CHOOSE h \in writers : \A g \in writers : g.ts <= h.ts) = by[n]
    <3>. HIDE DEF writers
    <3>. QED BY <2>1, <2>2, <2>3
  <2>5. ValueBefore(key, ts + 1) = by[n].writes[key]
    <3>1. writers # {}
      BY <2>1
    <3>2. ValueBefore(key, ts + 1) =
            IF writers = {} THEN Loaded
            ELSE (CHOOSE h \in writers : \A g \in writers : g.ts <= h.ts).writes[key]
      BY DEF ValueBefore
    <3>. HIDE DEF writers
    <3>. QED BY <2>4, <3>1, <3>2
  <2>6. Current(shard[i].db, key) = by[n].writes[key]
    <3>1. CASE Locking
      <4>1. Len(values) = n + 1 /\ values[n + 1] = by[n].writes[key]
        BY <1>1, <2>1, <3>1 DEF StoreIs
      <4>. QED BY <3>1, <4>1 DEF Current, Last
    <3>2. CASE ~Locking
      <4>1. values[n + 1 - n] = [ts |-> by[n].ts, value |-> by[n].writes[key]]
        BY <1>1, <2>1, <3>2 DEF StoreIs
      <4>2. n + 1 - n = 1
        BY <1>2
      <4>. QED BY <3>2, <4>1, <4>2 DEF Current
    <3>. QED BY <3>1, <3>2
  <2>. QED BY <2>5, <2>6
<1>. QED BY <1>5, <1>6

(* What was written before is as it was.                                     *)
LEMMA ValueBeforeSame ==
  ASSUME NEW h0, history' = history \cup {h0}, NEW key, NEW time, ~(h0.ts < time)
  PROVE  ValueBefore(key, time)' = ValueBefore(key, time)
<1>. DEFINE new == {h \in history' : h.ts < time /\ key \in DOMAIN h.writes}
            old == {h \in history : h.ts < time /\ key \in DOMAIN h.writes}
<1>1. new = old
  OBVIOUS
<1>2. ValueBefore(key, time)' =
        IF new = {} THEN Loaded
        ELSE (CHOOSE h \in new : \A g \in new : g.ts <= h.ts).writes[key]
  BY DEF ValueBefore
<1>3. ValueBefore(key, time) =
        IF old = {} THEN Loaded
        ELSE (CHOOSE h \in old : \A g \in old : g.ts <= h.ts).writes[key]
  BY DEF ValueBefore
<1>. HIDE DEF new, old
<1>. QED BY <1>1, <1>2, <1>3

LEMMA SeqOfMore ==
  ASSUME NEW S, NEW T, S \subseteq T, NEW s \in Seq(S)
  PROVE  s \in Seq(T)
<1>1. /\ Len(s) \in Nat /\ s \in [1 .. Len(s) -> S]
  BY LenProperties
<1>2. s \in [1 .. Len(s) -> T]
  BY <1>1
<1>. QED BY <1>1, <1>2, SeqDef

(* The client that has just got its timestamp: all shards have it prepared,  *)
(* nobody else that is to commit has written what it has read or written, and *)
(* what it has read is what was written last.                                  *)
LEMMA TimedIs ==
  ASSUME SysInv, NEW c \in Clients, client[c].pc = "TSS"
  PROVE  /\ \A key \in DOMAIN client[c].puts :
              /\ key \in Keys /\ key_to_shard(key) \in client[c].all_participants
              /\ client[c].puts[key] \in Vals
              /\ \A h \in history : key \in DOMAIN h.writes =>
                   ~Pending(h, key_to_shard(key))
         /\ \A rd \in client[c].reads :
              /\ rd.key \in Keys
              /\ rd.value = IF rd.own # NoValue THEN rd.own
                            ELSE ValueBefore(rd.key, ts + 1)
<1>. DEFINE s == client[c]
            C == MyCalls(c)
            A == MyAnswers(c)
<1>1. ClientInv(c, s, C, A)
  BY MyInv
<1>2. C = {} /\ A = {}
  BY <1>1, Quiet DEF Ops
<1>3. ReadsOf(s, A) = s.reads /\ PutKeys(s, A) = DOMAIN s.puts
      /\ \A key : PutOf(s, A, key) = s.puts[key]
  BY <1>2 DEF ReadsOf, NewReads, PutKeys, PutOf, NewPuts
<1>4. /\ \A key \in DOMAIN s.puts :
           /\ key \in Keys /\ key_to_shard(key) \in s.all_participants
           /\ s.puts[key] \in Vals
      /\ \A rd \in s.reads :
           /\ rd.key \in Keys /\ key_to_shard(rd.key) \in s.all_participants
           /\ rd.own # NoValue => rd.value = rd.own
  BY <1>1, <1>3 DEF ClientInv, DataOK
<1>5. s.all_participants \subseteq Shards
  BY <1>1, Fields
<1>6. ASSUME NEW i \in s.all_participants
      PROVE  /\ c \in DOMAIN shard[i].db.prepared
             /\ Linked(i, s, A, shard[i].db, shard[i].db.prepared[c])
  <2>1. ShardInv(c, i, s, C, A, shard[i].db)
    BY <1>5 DEF SysInv, Locals
  <2>2. IsPrepared(s, C, A, i)
    BY DEF IsPrepared
  <2>. QED BY <2>1, <2>2 DEF ShardInv
<1>7. ASSUME NEW key \in DOMAIN s.puts, NEW h \in history, key \in DOMAIN h.writes
      PROVE  ~Pending(h, key_to_shard(key))
  <2>. DEFINE i == key_to_shard(key)
  <2>1. i \in s.all_participants /\ i \in Shards /\ key \in KeysOf(i)
    BY <1>4, <1>5 DEF KeysOf
  <2>2. c \in DOMAIN shard[i].db.prepared
        /\ key \in DOMAIN shard[i].db.prepared[c].writes
    BY <1>3, <1>6, <2>1 DEF Linked
  <2>3. client[c].pc # "COMMIT"
    OBVIOUS
  <2>. HIDE DEF i
  <2>4. ~Pending(h, i)
    BY <1>7, <2>1, <2>2, <2>3, NoPendingWriter
  <2>. QED BY <2>4 DEF i
<1>8. ASSUME NEW rd \in s.reads
      PROVE  rd.value = IF rd.own # NoValue THEN rd.own ELSE ValueBefore(rd.key, ts + 1)
  <2>1. CASE rd.own # NoValue
    BY <1>4, <2>1
  <2>2. CASE rd.own = NoValue
    <3>. DEFINE key == rd.key
                i == key_to_shard(key)
                db == shard[i].db
    <3>1. i \in s.all_participants /\ i \in Shards /\ key \in KeysOf(i) /\ key \in Keys
      BY <1>4, <1>5 DEF KeysOf
    <3>2. c \in DOMAIN db.prepared /\ key \in DOMAIN db.prepared[c].reads
          /\ rd.value = ReadOf(db, db.prepared[c], key)
      BY <1>3, <1>6, <2>2, <3>1 DEF Linked
    <3>3. ReadOf(db, db.prepared[c], key) = Current(db, key)
      <4>1. DbOK(db, KeysOf(i))
        BY <3>1 DEF SysInv, Clean
      <4>. HIDE DEF db, key
      <4>. QED BY <4>1, <3>2, PreparedCurrent
    <3>4. \A h \in history : key \in DOMAIN h.writes => ~Pending(h, i)
      <4>1. client[c].pc # "COMMIT"
        OBVIOUS
      <4>. HIDE DEF i, key
      <4>. QED BY <3>1, <3>2, <4>1, NoPendingWriter DEF db
    <3>5. PICK by \in Seq(history) : Explains(by, key)
      BY <3>1 DEF SysInv, HistoryInv, Explained
    <3>6. Current(db, key) = ValueBefore(key, ts + 1)
      <4>1. HistoryTyped
        BY DEF SysInv, HistoryInv
      <4>. HIDE DEF key
      <4>. QED BY <3>4, <3>5, <4>1, CurrentIs DEF db, i
    <3>. QED BY <2>2, <3>2, <3>3, <3>6
  <2>. QED BY <2>1, <2>2
<1>. QED BY <1>4, <1>7, <1>8

LEMMA TimestampKeeps ==
  ASSUME SysInv, NEW c \in Clients, tssCallback(c)
  PROVE  SysInv'
<1>. DEFINE s == client[c]
            n == ts + 1
            q == [s EXCEPT !.pc = "COMMIT", !.nreplies = 0]
            t == [q EXCEPT !.sent = @ + 1]
            D == ToAll(c, s, s.all_participants, "COMMIT", n)
            new == [client |-> c, txn |-> s.txns, ts |-> n, reads |-> s.reads,
                    writes |-> s.puts]
<1>0. /\ s.pc = "TSS" /\ ts' = n /\ Sends(c, q, D)
      /\ history' = history \cup {new} /\ mode' = mode /\ shard' = shard
  BY DEF tssCallback, newTimeStamp
<1>. PICK h0 : h0 = new
  OBVIOUS
<1>1. /\ s.pc = "TSS" /\ ts' = n /\ Sends(c, q, D)
      /\ history' = history \cup {h0} /\ mode' = mode /\ shard' = shard
  BY <1>0
<1>2. ClientInv(c, client[c], MyCalls(c), MyAnswers(c))
  BY MyInv
<1>3. /\ DOMAIN client[c] = ClientFields /\ client[c].sent \in Nat
      /\ client[c].txns \in Nat
  BY <1>2, Fields
<1>4. /\ GoesOn(client[c], t) /\ t.pc = "COMMIT" /\ t.nreplies = 0
      /\ t.all_participants = client[c].all_participants
      /\ t.yes_participants = client[c].yes_participants
      /\ t.reads = client[c].reads /\ t.puts = client[c].puts
      /\ t.txns = client[c].txns
  BY <1>3 DEF ClientFields, GoesOn
<1>5. StepOf(c, t, MyCalls(c) \cup D, MyAnswers(c))
  <2>. HIDE DEF q, D
  <2>. QED BY <1>1, SendsIs
<1>6. Broadcast(D, c, s.all_participants, "COMMIT") /\ \A r \in D : r.arg0 = n
  BY ToAllIs
<1>7. /\ h0.client = c /\ h0.txn = s.txns /\ h0.ts = n /\ h0.reads = s.reads
      /\ h0.writes = s.puts
  OBVIOUS
<1>. HIDE DEF q, t, D, new
<1>8. MyCalls(c) = {} /\ MyAnswers(c) = {}
      /\ ClientStep(c, client[c], MyCalls(c), MyAnswers(c), t, MyCalls(c) \cup D,
                    MyAnswers(c))
  BY <1>1, <1>2, <1>4, <1>6, TimestampStep
<1>9. MyCalls(c) \cup D = D
  BY <1>8
<1>10. Clean' /\ Locals' /\ DecisionsKept
  BY <1>5, <1>8, LocalsStep DEF SysInv
<1>11. /\ client'[c] = t /\ MyCalls(c)' = D /\ MyAnswers(c)' = {}
       /\ \A e \in Clients \ {c} : client'[e] = client[e] /\ MyCalls(e)' = MyCalls(e)
  <2>1. Clean /\ ClientInv(c, t, MyCalls(c) \cup D, MyAnswers(c))
    BY <1>8 DEF SysInv, ClientStep
  <2>. QED BY <1>5, <1>8, <1>9, <2>1, StepIs
<1>12. HistoryTyped /\ HistoryFits /\ PendingLast /\ Explained /\ Serializable
  BY DEF SysInv, HistoryInv
<1>13. /\ \A key \in DOMAIN s.puts :
            /\ key \in Keys /\ key_to_shard(key) \in s.all_participants
            /\ s.puts[key] \in Vals
            /\ \A h \in history : key \in DOMAIN h.writes =>
                 ~Pending(h, key_to_shard(key))
       /\ \A rd \in s.reads :
            /\ rd.key \in Keys
            /\ rd.value = IF rd.own # NoValue THEN rd.own ELSE ValueBefore(rd.key, n)
  BY <1>1, TimedIs
<1>14. ts \in Nat /\ n = ts + 1 /\ \A h \in history : h.ts \in 1 .. ts /\ h.ts < n
  BY <1>12 DEF HistoryTyped
<1>. HIDE DEF n
<1>15. \A h \in history : ~(h.client = c /\ h.txn = s.txns)
  BY <1>1, <1>12, <1>3 DEF HistoryFits, Decided
<1>16. HistoryTyped'
  <2>1. ts' \in Nat
    BY <1>1, <1>14
  <2>2. ASSUME NEW h \in history'
        PROVE  /\ h.client \in Clients /\ h.ts \in 1 .. ts' /\ h.txn \in Nat
               /\ DOMAIN h.writes \subseteq Keys
               /\ \A key \in DOMAIN h.writes : h.writes[key] \in Vals
               /\ \A rd \in h.reads : rd.key \in Keys
    <3>1. CASE h \in history
      BY <1>1, <1>12, <1>14, <3>1 DEF HistoryTyped
    <3>2. CASE h = h0
      BY <1>1, <1>3, <1>7, <1>13, <1>14, <3>2
    <3>. QED BY <1>1, <3>1, <3>2
  <2>3. ASSUME NEW h \in history', NEW g \in history',
               h.ts = g.ts \/ (h.client = g.client /\ h.txn = g.txn)
        PROVE  h = g
    <3>1. CASE h \in history /\ g \in history
      BY <1>12, <2>3, <3>1 DEF HistoryTyped
    <3>2. CASE h = h0 /\ g \in history
      BY <1>7, <1>14, <1>15, <2>3, <3>2
    <3>3. CASE h \in history /\ g = h0
      BY <1>7, <1>14, <1>15, <2>3, <3>3
    <3>. QED BY <1>1, <3>1, <3>2, <3>3
  <2>. QED BY <2>1, <2>2, <2>3 DEF HistoryTyped
<1>17. HistoryFits'
  <2>1. \A h \in history : Decided(client[h.client], h.txn)'
    BY <1>10, <1>12 DEF HistoryFits, HistoryTyped, DecisionsKept
  <2>2. Decided(client[h0.client], h0.txn)'
    BY <1>3, <1>4, <1>7, <1>11 DEF Decided
  <2>3. ASSUME NEW e \in Clients, client'[e].pc = "COMMIT"
        PROVE  \E h \in history' :
                 /\ h.client = e /\ h.txn = client'[e].txns /\ h.writes = client'[e].puts
                 /\ \A r \in MyCalls(e)' : r.arg0 = h.ts
    <3>1. CASE e = c
      BY <1>1, <1>4, <1>6, <1>7, <1>11, <3>1
    <3>2. CASE e # c
      <4>1. client'[e] = client[e] /\ MyCalls(e)' = MyCalls(e)
        BY <1>11, <3>2
      <4>. QED BY <1>1, <1>12, <2>3, <4>1 DEF HistoryFits
    <3>. QED BY <3>1, <3>2
  <2>. QED BY <1>1, <2>1, <2>2, <2>3 DEF HistoryFits
<1>18. \A h \in history : \A i : Pending(h, i)' <=> Pending(h, i)
  BY <1>10, <1>12, PendingSame
<1>19. \A i \in s.all_participants : Pending(h0, i)'
  <2>1. \A i \in s.all_participants : UnexecutedAt(D, {}, i)
    BY <1>6, BroadcastIs
  <2>. QED BY <1>4, <1>7, <1>11, <2>1 DEF Pending, PendingOf
<1>20. PendingLast'
  <2>. SUFFICES ASSUME NEW h \in history', NEW g \in history',
                       NEW key \in DOMAIN h.writes \cap DOMAIN g.writes,
                       Pending(h, key_to_shard(key))', g # h
       PROVE  g.ts < h.ts
    BY DEF PendingLast
  <2>1. CASE h = h0
    BY <1>1, <1>7, <1>14, <2>1
  <2>2. CASE h \in history /\ g = h0
    BY <1>7, <1>13, <1>18, <2>2
  <2>3. CASE h \in history /\ g \in history
    BY <1>12, <1>18, <2>3 DEF PendingLast
  <2>. QED BY <1>1, <2>1, <2>2, <2>3
<1>21. Explained'
  <2>. SUFFICES ASSUME NEW key \in Keys
       PROVE  \E by \in Seq(history') : Explains(by, key)'
    BY DEF Explained
  <2>. DEFINE i == key_to_shard(key)
  <2>1. PICK by \in Seq(history) : Explains(by, key)
    BY <1>12 DEF Explained
  <2>2. /\ \A m, k \in DOMAIN by : m < k => by[m].ts < by[k].ts
        /\ \A h \in history :
             key \in DOMAIN h.writes /\ ~Pending(h, i) <=> \E k \in DOMAIN by : by[k] = h
        /\ StoreIs(shard[i].db.store[key], key, by)
    BY <2>1 DEF Explains
  <2>3. by \in Seq(history')
    BY <1>1, SeqOfMore
  <2>4. ASSUME NEW h \in history'
        PROVE  key \in DOMAIN h.writes /\ ~Pending(h, i)' <=> \E k \in DOMAIN by : by[k] = h
    <3>1. CASE h \in history
      BY <1>18, <2>2, <3>1
    <3>2. CASE h = h0
      <4>1. \A k \in DOMAIN by : by[k] # h0
        <5>1. \A k \in DOMAIN by : by[k] \in history
          BY <2>1, LenProperties, ElementOfSeq
        <5>. QED BY <1>7, <1>14, <5>1
      <4>2. ~(key \in DOMAIN h.writes /\ ~Pending(h, i)')
        BY <1>7, <1>13, <1>19, <3>2
      <4>. QED BY <3>2, <4>1, <4>2
    <3>. QED BY <1>1, <3>1, <3>2
  <2>5. StoreIs(shard[i].db.store[key], key, by)'
    BY <1>1, <2>2, StoreIsPrime
  <2>. QED BY <2>2, <2>3, <2>4, <2>5 DEF Explains
<1>22. Serializable'
  <2>. SUFFICES ASSUME ~AsBuilt', NEW h \in history', NEW rd \in h.reads
       PROVE  rd.value = IF rd.own # NoValue THEN rd.own
                         ELSE ValueBefore(rd.key, h.ts)'
    BY DEF Serializable
  <2>1. ValueBefore(rd.key, h.ts)' = ValueBefore(rd.key, h.ts)
    <3>1. ~(h0.ts < h.ts)
      BY <1>1, <1>7, <1>14
    <3>. QED BY <1>1, <3>1, ValueBeforeSame
  <2>2. CASE h \in history
    BY <1>1, <1>12, <2>1, <2>2 DEF Serializable, AsBuilt
  <2>3. CASE h = h0
    BY <1>7, <1>13, <2>1, <2>3
  <2>. QED BY <1>1, <2>2, <2>3
<1>. QED BY <1>10, <1>16, <1>17, <1>20, <1>21, <1>22 DEF SysInv, HistoryInv

-----------------------------------------------------------------------------
(* A shard executes a request.                                               *)

LEMMA ExtendedIs ==
  ASSUME NEW S, NEW by \in Seq(S), NEW h \in S, NEW key, NEW old, StoreIs(old, key, by),
         NEW new, Extended(new, old, h.ts, h.writes[key])
  PROVE  StoreIs(new, key, Append(by, h))
<1>. DEFINE n == Len(by)
            b == Append(by, h)
<1>1. n \in Nat
  BY LenProperties
<1>2. Len(b) = n + 1 /\ b[n + 1] = h /\ \A k \in 1 .. n : b[k] = by[k]
  BY AppendProperties, LenProperties
<1>. HIDE DEF b
<1>3. Len(old) = n + 1 /\ Len(new) = n + 2
  BY <1>1 DEF StoreIs, Extended
<1>4. CASE Locking
  <2>1. /\ old[1] = Loaded /\ \A k \in 1 .. n : old[k + 1] = by[k].writes[key]
        /\ new[n + 2] = h.writes[key] /\ \A k \in 1 .. n + 1 : new[k] = old[k]
    BY <1>1, <1>3, <1>4 DEF StoreIs, Extended
  <2>2. new[1] = Loaded
    BY <1>1, <2>1
  <2>3. ASSUME NEW k \in 1 .. n + 1 PROVE new[k + 1] = b[k].writes[key]
    <3>1. CASE k = n + 1
      BY <1>1, <1>2, <2>1, <3>1
    <3>2. CASE k \in 1 .. n
      <4>1. k + 1 \in 1 .. n + 1
        BY <1>1, <3>2
      <4>. QED BY <1>2, <2>1, <3>2, <4>1
    <3>. QED BY <1>1, <3>1, <3>2
  <2>. QED BY <1>1, <1>2, <1>3, <1>4, <2>2, <2>3 DEF StoreIs
<1>5. CASE ~Locking
  <2>1. /\ old[n + 1] = [ts |-> 0, value |-> Loaded]
        /\ \A k \in 1 .. n : old[n + 1 - k] = [ts |-> by[k].ts, value |-> by[k].writes[key]]
        /\ new[1] = [ts |-> h.ts, value |-> h.writes[key]]
        /\ \A k \in 1 .. n + 1 : new[k + 1] = old[k]
    BY <1>1, <1>3, <1>5 DEF StoreIs, Extended
  <2>2. new[n + 2] = [ts |-> 0, value |-> Loaded]
    <3>1. n + 1 \in 1 .. n + 1 /\ n + 1 + 1 = n + 2
      BY <1>1
    <3>. QED BY <2>1, <3>1
  <2>3. ASSUME NEW k \in 1 .. n + 1
        PROVE  new[n + 2 - k] = [ts |-> b[k].ts, value |-> b[k].writes[key]]
    <3>1. CASE k = n + 1
      <4>1. n + 2 - k = 1
        BY <1>1, <3>1
      <4>. QED BY <1>2, <2>1, <3>1, <4>1
    <3>2. CASE k \in 1 .. n
      <4>1. n + 1 - k \in 1 .. n + 1 /\ n + 1 - k + 1 = n + 2 - k
        BY <1>1, <3>2
      <4>2. new[n + 2 - k] = old[n + 1 - k]
        BY <2>1, <4>1
      <4>. QED BY <1>2, <2>1, <3>2, <4>2
    <3>. QED BY <1>1, <3>1, <3>2
  <2>4. n + 1 + 1 = n + 2
    BY <1>1
  <2>. QED BY <1>2, <1>3, <1>5, <2>2, <2>3, <2>4 DEF StoreIs
<1>. QED BY <1>4, <1>5 DEF b

(* The versions of a key that a pending transaction writes are older.        *)
LEMMA OlderVersions ==
  ASSUME HistoryTyped, PendingLast, NEW key, NEW by, Explains(by, key),
         NEW h \in history, key \in DOMAIN h.writes, Pending(h, key_to_shard(key))
  PROVE  /\ \A m \in DOMAIN by : by[m].ts < h.ts /\ by[m] \in history
         /\ ~Locking =>
              LET versions == shard[key_to_shard(key)].db.store[key]
              IN  \A n \in 1 .. Len(versions) : versions[n].ts < h.ts
<1>. DEFINE i == key_to_shard(key)
            versions == shard[i].db.store[key]
<1>1. /\ by \in Seq(history)
      /\ \A g \in history :
           key \in DOMAIN g.writes /\ ~Pending(g, i) <=> \E m \in DOMAIN by : by[m] = g
      /\ StoreIs(versions, key, by)
  BY DEF Explains
<1>2. Len(by) \in Nat /\ DOMAIN by = 1 .. Len(by) /\ \A m \in DOMAIN by : by[m] \in history
  BY <1>1, LenProperties, ElementOfSeq
<1>3. ASSUME NEW m \in DOMAIN by PROVE by[m].ts < h.ts
  <2>1. by[m] \in history /\ key \in DOMAIN by[m].writes /\ ~Pending(by[m], i)
    BY <1>1, <1>2
  <2>2. by[m] # h
    BY <2>1
  <2>. QED BY <2>1, <2>2 DEF PendingLast
<1>4. ASSUME ~Locking, NEW n \in 1 .. Len(versions) PROVE versions[n].ts < h.ts
  <2>1. /\ Len(versions) = Len(by) + 1
        /\ versions[Len(by) + 1] = [ts |-> 0, value |-> Loaded]
        /\ \A k \in 1 .. Len(by) :
             versions[Len(by) + 1 - k] = [ts |-> by[k].ts, value |-> by[k].writes[key]]
    BY <1>1, <1>4 DEF StoreIs
  <2>2. CASE n = Len(by) + 1
    <3>1. ts \in Nat /\ h.ts \in 1 .. ts
      BY DEF HistoryTyped
    <3>2. h.ts \in Nat /\ 0 < h.ts
      BY <3>1
    <3>3. versions[n].ts = 0
      <4>. HIDE DEF versions
      <4>. QED BY <2>1, <2>2
    <3>. QED BY <3>2, <3>3
  <2>3. CASE n \in 1 .. Len(by)
    <3>. DEFINE k == Len(by) + 1 - n
    <3>1. k \in 1 .. Len(by) /\ Len(by) + 1 - k = n
      BY <1>2, <2>3
    <3>. HIDE DEF k
    <3>2. versions[n].ts = by[k].ts
      <4>. HIDE DEF versions
      <4>1. versions[Len(by) + 1 - k]
              = [ts |-> by[k].ts, value |-> by[k].writes[key]]
        BY <2>1, <3>1
      <4>2. versions[n] = [ts |-> by[k].ts, value |-> by[k].writes[key]]
        BY <4>1, <3>1
      <4>. QED BY <4>2
    <3>3. k \in DOMAIN by
      BY <1>2, <3>1
    <3>4. by[k].ts < h.ts
      BY <1>3, <3>3
    <3>. QED BY <3>2, <3>4
  <2>4. n = Len(by) + 1 \/ n \in 1 .. Len(by)
    <3>1. Len(versions) = Len(by) + 1 /\ Len(by) \in Nat
      BY <1>2, <2>1
    <3>. HIDE DEF versions
    <3>. QED BY <1>4, <3>1
  <2>. QED BY <2>2, <2>3, <2>4
<1>. QED BY <1>2, <1>3, <1>4

(* Shard i has executed request r, its answer is a, its database now d.      *)
Executes(i, r, a, d) ==
  /\ mode' = mode /\ client' = client /\ calls' = calls /\ ts' = ts
  /\ history' = history /\ replies' = replies \cup {a}
  /\ r \in calls /\ r.shard = i /\ i \in Shards
  /\ DOMAIN shard' = Shards /\ DOMAIN shard'[i] = {"db", "log", "opnum"}
  /\ shard'[i].db = d /\ shard'[i].log = << >>
  /\ \A j \in Shards \ {i} : shard'[j] = shard[j]
  /\ NewAnswer(MyCalls(r.txnid), MyAnswers(r.txnid), r, a)
  /\ Executed(r.txnid, client[r.txnid], MyCalls(r.txnid), MyAnswers(r.txnid), r, a,
              shard[i].db, d)

LEMMA AnswersAre ==
  ASSUME SysInv, NEW i, NEW r, NEW a, NEW d, Executes(i, r, a, d)
  PROVE  /\ r.txnid \in Clients /\ a.req = r
         /\ MyAnswers(r.txnid)' = MyAnswers(r.txnid) \cup {a}
         /\ \A e \in Clients \ {r.txnid} : MyAnswers(e)' = MyAnswers(e)
         /\ \A e : MyCalls(e)' = MyCalls(e) /\ client'[e] = client[e]
<1>1. r.txnid \in Clients /\ a.req = r
  BY DEF Executes, SysInv, Clean, NewAnswer
<1>2. MyAnswers(r.txnid)' = MyAnswers(r.txnid) \cup {a}
  BY <1>1 DEF MyAnswers, Executes
<1>3. \A e \in Clients \ {r.txnid} : MyAnswers(e)' = MyAnswers(e)
  BY <1>1 DEF MyAnswers, Executes
<1>4. \A e : MyCalls(e)' = MyCalls(e) /\ client'[e] = client[e]
  BY DEF MyCalls, Executes
<1>. QED BY <1>1, <1>2, <1>3, <1>4

LEMMA ExecutesLocals ==
  ASSUME SysInv, NEW i, NEW r, NEW a, NEW d, Executes(i, r, a, d)
  PROVE  Clean' /\ Locals'
<1>. DEFINE c == r.txnid
<1>1. /\ c \in Clients /\ a.req = r
      /\ MyAnswers(c)' = MyAnswers(c) \cup {a}
      /\ \A e \in Clients \ {c} : MyAnswers(e)' = MyAnswers(e)
      /\ \A e : MyCalls(e)' = MyCalls(e) /\ client'[e] = client[e]
  BY AnswersAre
<1>2. /\ mode' = mode /\ client' = client /\ calls' = calls
      /\ replies' = replies \cup {a} /\ r \in calls /\ r.shard = i /\ i \in Shards
      /\ DOMAIN shard' = Shards /\ DOMAIN shard'[i] = {"db", "log", "opnum"}
      /\ shard'[i].db = d /\ shard'[i].log = << >>
      /\ \A j \in Shards \ {i} : shard'[j] = shard[j]
      /\ NewAnswer(MyCalls(c), MyAnswers(c), r, a)
  BY DEF Executes
<1>3. /\ ClientInv(c, client[c], MyCalls(c), MyAnswers(c) \cup {a})
      /\ DbOK(d, KeysOf(i)) /\ Kept(d, shard[i].db, c)
      /\ ShardInv(c, i, client[c], MyCalls(c), MyAnswers(c) \cup {a}, d)
  BY <1>2 DEF Executes, Executed
<1>. HIDE DEF c
<1>4. Clean'
  <2>1. /\ DOMAIN client = Clients /\ \A q \in calls : q.txnid \in Clients
        /\ \A b \in replies : b.req \in calls
        /\ \A j \in Shards : /\ DOMAIN shard[j] = {"db", "log", "opnum"}
                             /\ DbOK(shard[j].db, KeysOf(j)) /\ shard[j].log = << >>
    BY DEF SysInv, Clean
  <2>2. DOMAIN client' = Clients /\ \A q \in calls' : q.txnid \in Clients
    BY <1>2, <2>1
  <2>3. \A b \in replies' : b.req \in calls'
    BY <1>1, <1>2, <2>1
  <2>4. ASSUME NEW j \in Shards
        PROVE  /\ DOMAIN shard'[j] = {"db", "log", "opnum"}
               /\ DbOK(shard'[j].db, KeysOf(j)) /\ shard'[j].log = << >>
    <3>1. CASE j = i
      BY <1>2, <1>3, <3>1
    <3>2. CASE j # i
      BY <1>2, <2>1, <3>2
    <3>. QED BY <3>1, <3>2
  <2>5. \A j \in Shards : DbOK(shard[j].db, KeysOf(j))'
    BY <1>2, <2>4, DbOKPrime DEF KeysOf
  <2>. QED BY <1>2, <2>2, <2>3, <2>4, <2>5 DEF Clean
<1>5. ASSUME NEW e \in Clients
      PROVE  ClientInv(e, client'[e], MyCalls(e)', MyAnswers(e)')
  <2>1. CASE e = c
    BY <1>1, <1>3, <2>1
  <2>2. CASE e # c
    <3>1. ClientInv(e, client[e], MyCalls(e), MyAnswers(e))
      BY MyInv
    <3>. QED BY <1>1, <2>2, <3>1
  <2>. QED BY <2>1, <2>2
<1>6. ASSUME NEW e \in Clients, NEW j \in Shards
      PROVE  ShardInv(e, j, client'[e], MyCalls(e)', MyAnswers(e)', shard'[j].db)
  <2>1. ShardInv(e, j, client[e], MyCalls(e), MyAnswers(e), shard[j].db)
    BY DEF SysInv, Locals
  <2>2. CASE e = c /\ j = i
    BY <1>1, <1>2, <1>3, <2>2
  <2>3. CASE e = c /\ j # i
    <3>1. ClientInv(c, client[c], MyCalls(c), MyAnswers(c))
      BY <1>1, MyInv
    <3>2. ShardInv(c, j, client[c], MyCalls(c), MyAnswers(c) \cup {a}, shard[j].db)
      BY <1>2, <2>1, <2>3, <3>1, ElsewhereSame
    <3>. QED BY <1>1, <1>2, <2>3, <3>2
  <2>4. CASE e # c /\ j = i
    <3>1. ShardInv(e, i, client[e], MyCalls(e), MyAnswers(e), d)
      BY <1>3, <2>1, <2>4, OthersShardInv
    <3>. QED BY <1>1, <1>2, <2>4, <3>1
  <2>5. CASE e # c /\ j # i
    BY <1>1, <1>2, <2>1, <2>5
  <2>. QED BY <2>2, <2>3, <2>4, <2>5
<1>7. Locals'
  <2>1. \A e \in Clients, j \in Shards :
          ShardInv(e, j, client[e], MyCalls(e), MyAnswers(e), shard[j].db)'
    BY <1>2, <1>6, ShardInvPrime
  <2>2. \A e \in Clients : ClientInv(e, client[e], MyCalls(e), MyAnswers(e))'
    BY <1>5
  <2>. QED BY <2>1, <2>2 DEF Locals
<1>. QED BY <1>4, <1>7

(* Only a commit is no longer pending, and only of c at i.                   *)
LEMMA PendingLess ==
  ASSUME SysInv, NEW i, NEW r, NEW a, NEW d, Executes(i, r, a, d),
         NEW h \in history, NEW j
  PROVE  /\ h.client = r.txnid /\ j = i => ~Pending(h, j)'
         /\ ~(h.client = r.txnid /\ j = i) => (Pending(h, j)' <=> Pending(h, j))
<1>. DEFINE c == r.txnid
<1>1. /\ c \in Clients /\ a.req = r
      /\ MyAnswers(c)' = MyAnswers(c) \cup {a}
      /\ \A e \in Clients \ {c} : MyAnswers(e)' = MyAnswers(e)
      /\ \A e : MyCalls(e)' = MyCalls(e) /\ client'[e] = client[e]
  BY AnswersAre
<1>2. NewAnswer(MyCalls(c), MyAnswers(c), r, a) /\ r.shard = i
  BY DEF Executes
<1>3. h.client \in Clients
  BY DEF SysInv, HistoryInv, HistoryTyped
<1>4. ClientInv(c, client[c], MyCalls(c), MyAnswers(c))
  BY <1>1, MyInv
<1>5. ~UnexecutedAt(MyCalls(c), MyAnswers(c) \cup {a}, i)
  BY <1>2, <1>4, OnlyCallAt
<1>. HIDE DEF c
<1>6. CASE h.client # c
  BY <1>1, <1>3, <1>6 DEF Pending, c
<1>7. CASE h.client = c /\ j = i
  BY <1>1, <1>5, <1>7 DEF Pending, PendingOf, c
<1>8. CASE h.client = c /\ j # i
  <2>1. UnexecutedAt(MyCalls(c), MyAnswers(c) \cup {a}, j)
          <=> UnexecutedAt(MyCalls(c), MyAnswers(c), j)
    BY <1>2, <1>8 DEF UnexecutedAt, NewAnswer
  <2>. QED BY <1>1, <1>8, <2>1 DEF Pending, PendingOf, c
<1>. QED BY <1>6, <1>7, <1>8 DEF c

(* What of the history does not depend on the stores.                        *)
LEMMA ExecutesHistory ==
  ASSUME SysInv, NEW i, NEW r, NEW a, NEW d, Executes(i, r, a, d)
  PROVE  HistoryTyped' /\ HistoryFits' /\ PendingLast' /\ Serializable'
<1>1. /\ client' = client /\ calls' = calls /\ ts' = ts /\ history' = history
      /\ mode' = mode
  BY DEF Executes
<1>2. HistoryTyped /\ HistoryFits /\ PendingLast /\ Serializable
  BY DEF SysInv, HistoryInv
<1>3. HistoryTyped'
  BY <1>1, <1>2 DEF HistoryTyped
<1>4. HistoryFits'
  <2>1. \A e : MyCalls(e)' = MyCalls(e)
    BY <1>1 DEF MyCalls
  <2>. QED BY <1>1, <1>2, <2>1 DEF HistoryFits
<1>5. PendingLast'
  <2>1. ASSUME NEW h \in history, NEW j, Pending(h, j)'
        PROVE  Pending(h, j)
    <3>1. ~(h.client = r.txnid /\ j = i)
      BY <2>1, PendingLess
    <3>. QED BY <2>1, <3>1, PendingLess
  <2>. QED BY <1>1, <1>2, <2>1 DEF PendingLast
<1>6. Serializable'
  <2>1. \A key, time : ValueBefore(key, time)' = ValueBefore(key, time)
    BY <1>1 DEF ValueBefore
  <2>. QED BY <1>1, <1>2, <2>1 DEF Serializable, AsBuilt
<1>. QED BY <1>3, <1>4, <1>5, <1>6

LEMMA ExecutesNoCommit ==
  ASSUME SysInv, NEW i, NEW r, NEW a, NEW d, Executes(i, r, a, d),
         client[r.txnid].pc # "COMMIT", d.store = shard[i].db.store
  PROVE  SysInv'
<1>1. /\ mode' = mode /\ history' = history /\ shard'[i].db = d
      /\ \A j \in Shards \ {i} : shard'[j] = shard[j]
  BY DEF Executes
<1>2. \A h \in history : \A j : Pending(h, j)' <=> Pending(h, j)
  <2>. SUFFICES ASSUME NEW h \in history, NEW j PROVE Pending(h, j)' <=> Pending(h, j)
    OBVIOUS
  <2>1. CASE h.client = r.txnid /\ j = i
    <3>1. ~Pending(h, j)'
      BY <2>1, PendingLess
    <3>2. ~Pending(h, j)
      BY <2>1 DEF Pending, PendingOf
    <3>. QED BY <3>1, <3>2
  <2>2. CASE ~(h.client = r.txnid /\ j = i)
    BY <2>2, PendingLess
  <2>. QED BY <2>1, <2>2
<1>3. Explained'
  <2>. SUFFICES ASSUME NEW key \in Keys
       PROVE  \E by \in Seq(history') : Explains(by, key)'
    BY DEF Explained
  <2>1. PICK by \in Seq(history) : Explains(by, key)
    BY DEF SysInv, HistoryInv, Explained
  <2>2. key_to_shard(key) \in Shards
    BY ShardOfKey
  <2>3. shard'[key_to_shard(key)].db.store[key] = shard[key_to_shard(key)].db.store[key]
    BY <1>1, <2>2
  <2>4. Explains(by, key)'
    BY <1>1, <1>2, <2>1, <2>3, ExplainsSame
  <2>. QED BY <1>1, <2>4
<1>. QED BY <1>3, ExecutesLocals, ExecutesHistory DEF SysInv, HistoryInv

(* A commit that shard i has executed is the last of those that have written *)
(* the keys there, and the next of their stores' values is its own.           *)
LEMMA ExecutesCommit ==
  ASSUME SysInv, NEW i, NEW r, NEW a, NEW d, Executes(i, r, a, d),
         NEW h0 \in history, h0.client = r.txnid, Pending(h0, i),
         \A key \in KeysOf(i) :
           IF key \in DOMAIN h0.writes
           THEN Extended(d.store[key], shard[i].db.store[key], h0.ts, h0.writes[key])
           ELSE d.store[key] = shard[i].db.store[key]
  PROVE  SysInv'
<1>1. /\ mode' = mode /\ history' = history /\ shard'[i].db = d /\ i \in Shards
      /\ \A j \in Shards \ {i} : shard'[j] = shard[j]
  BY DEF Executes
<1>2. HistoryTyped /\ PendingLast /\ Explained
  BY DEF SysInv, HistoryInv
<1>3. ~Pending(h0, i)'
  BY PendingLess
<1>4. ASSUME NEW h \in history, h # h0, NEW j
      PROVE  Pending(h, j)' <=> Pending(h, j)
  <2>1. CASE h.client = r.txnid /\ j = i
    <3>1. ~Pending(h, j)'
      BY <2>1, PendingLess
    <3>2. ~Pending(h, j)
      <4>1. ~(h.client = h0.client /\ h.txn = h0.txn)
        BY <1>2, <1>4 DEF HistoryTyped
      <4>2. client[h0.client].txns = h0.txn
        BY DEF Pending, PendingOf
      <4>. QED BY <2>1, <4>1, <4>2 DEF Pending, PendingOf
    <3>. QED BY <3>1, <3>2
  <2>2. CASE ~(h.client = r.txnid /\ j = i)
    BY <2>2, PendingLess
  <2>. QED BY <2>1, <2>2
<1>5. Explained'
  <2>. SUFFICES ASSUME NEW key \in Keys
       PROVE  \E by \in Seq(history') : Explains(by, key)'
    BY DEF Explained
  <2>1. PICK by \in Seq(history) : Explains(by, key)
    BY <1>2 DEF Explained
  <2>2. key_to_shard(key) \in Shards /\ (key \in KeysOf(i) <=> key_to_shard(key) = i)
    BY <1>1, ShardOfKey
  <2>3. CASE key_to_shard(key) # i
    <3>1. shard'[key_to_shard(key)].db.store[key] = shard[key_to_shard(key)].db.store[key]
      BY <1>1, <2>2, <2>3
    <3>2. ASSUME NEW h \in history
          PROVE  Pending(h, key_to_shard(key))' <=> Pending(h, key_to_shard(key))
      BY <2>3, PendingLess
    <3>3. Explains(by, key)'
      BY <1>1, <2>1, <3>1, <3>2, ExplainsSame
    <3>. QED BY <1>1, <3>3
  <2>4. CASE key_to_shard(key) = i /\ key \notin DOMAIN h0.writes
    <3>1. shard'[key_to_shard(key)].db.store[key] = shard[key_to_shard(key)].db.store[key]
      BY <1>1, <2>2, <2>4
    <3>2. ASSUME NEW h \in history, key \in DOMAIN h.writes
          PROVE  Pending(h, key_to_shard(key))' <=> Pending(h, key_to_shard(key))
      BY <1>4, <2>4, <3>2
    <3>3. Explains(by, key)'
      BY <1>1, <2>1, <3>1, <3>2, ExplainsSame
    <3>. QED BY <1>1, <3>3
  <2>5. CASE key_to_shard(key) = i /\ key \in DOMAIN h0.writes
    <3>. PICK b : b = Append(by, h0)
      OBVIOUS
    <3>1. /\ \A m, n \in DOMAIN by : m < n => by[m].ts < by[n].ts
          /\ \A h \in history :
               key \in DOMAIN h.writes /\ ~Pending(h, i) <=> \E n \in DOMAIN by : by[n] = h
          /\ StoreIs(shard[i].db.store[key], key, by)
      BY <2>1, <2>5 DEF Explains
    <3>2. \A m \in DOMAIN by : by[m].ts < h0.ts /\ by[m] \in history
      BY <1>2, <2>1, <2>5, OlderVersions
    <3>3. /\ b \in Seq(history) /\ DOMAIN by = 1 .. Len(by) /\ Len(by) \in Nat
          /\ DOMAIN b = 1 .. Len(by) + 1 /\ b[Len(by) + 1] = h0
          /\ \A n \in 1 .. Len(by) : b[n] = by[n]
      BY AppendProperties, LenProperties
    <3>4. ASSUME NEW m \in DOMAIN b, NEW n \in DOMAIN b, m < n
          PROVE  b[m].ts < b[n].ts
      <4>1. m \in DOMAIN by /\ (n = Len(by) + 1 \/ n \in DOMAIN by)
        BY <3>3, <3>4
      <4>. QED BY <3>1, <3>2, <3>3, <3>4, <4>1
    <3>5. ASSUME NEW h \in history
          PROVE  key \in DOMAIN h.writes /\ ~Pending(h, i)' <=> \E n \in DOMAIN b : b[n] = h
      <4>1. CASE h = h0
        <5>1. Len(by) + 1 \in DOMAIN b
          BY <3>3
        <5>. QED BY <1>3, <2>5, <3>3, <4>1, <5>1
      <4>2. CASE h # h0
        <5>1. (\E n \in DOMAIN b : b[n] = h) <=> \E n \in DOMAIN by : by[n] = h
          <6>1. ASSUME NEW n \in DOMAIN b, b[n] = h
                PROVE  n \in DOMAIN by /\ by[n] = h
            BY <3>3, <4>2, <6>1
          <6>2. ASSUME NEW n \in DOMAIN by, by[n] = h
                PROVE  n \in DOMAIN b /\ b[n] = h
            BY <3>3, <6>2
          <6>. QED BY <6>1, <6>2
        <5>2. Pending(h, i)' <=> Pending(h, i)
          BY <1>4, <4>2
        <5>. QED BY <3>1, <5>1, <5>2
      <4>. QED BY <4>1, <4>2
    <3>6. StoreIs(d.store[key], key, b)
      <4>1. Extended(d.store[key], shard[i].db.store[key], h0.ts, h0.writes[key])
        BY <2>2, <2>5
      <4>2. StoreIs(d.store[key], key, Append(by, h0))
        BY <3>1, <4>1, ExtendedIs
      <4>. QED BY <4>2
    <3>7. StoreIs(shard[i].db.store[key], key, b)'
      BY <1>1, <3>6, StoreIsPrime
    <3>8. Explains(b, key)'
      BY <1>1, <2>5, <3>3, <3>4, <3>5, <3>7 DEF Explains
    <3>. QED BY <1>1, <3>3, <3>8
  <2>. QED BY <2>3, <2>4, <2>5
<1>. QED BY <1>5, ExecutesLocals, ExecutesHistory DEF SysInv, HistoryInv

LEMMA ExecuteKeeps ==
  ASSUME SysInv, ~AsBuilt, ~Speculative, NEW i \in Shards, Execute(i)
  PROVE  SysInv'
<1>. DEFINE op == shard[i].opnum + 1
            db == shard[i].db
<1>1. PICK r \in calls :
        /\ r.shard = i /\ \A a \in replies : a.req # r
        /\ \E o \in ReplicaUpcall(db, op, r) :
             /\ shard' = [shard EXCEPT ![i] =
                  [db |-> o.db, opnum |-> op,
                   log |-> IF Speculative
                           THEN Append(shard[i].log, [opnum |-> op, req |-> r,
                                                      before |-> Visible(db)])
                           ELSE << >>]]
             /\ replies' = replies \cup {[req |-> r, status |-> o.status,
                                          value |-> o.value]}
        /\ UNCHANGED <<mode, client, calls, ts, rollbacks, history>>
  BY DEF Execute
<1>2. PICK o \in ReplicaUpcall(db, op, r) :
        /\ shard' = [shard EXCEPT ![i] = [db |-> o.db, opnum |-> op, log |-> << >>]]
        /\ replies' = replies \cup {[req |-> r, status |-> o.status, value |-> o.value]}
  BY <1>1
<1>. PICK a : a = [req |-> r, status |-> o.status, value |-> o.value]
  OBVIOUS
<1>. PICK c : c = r.txnid
  OBVIOUS
<1>3. a.req = r /\ a.status = o.status /\ a.value = o.value
  OBVIOUS
<1>. DEFINE s == client[c]
            C == MyCalls(c)
            A == MyAnswers(c)
<1>4. c \in Clients /\ NewAnswer(C, A, r, a)
  BY <1>1, <1>3 DEF SysInv, Clean, MyCalls, MyAnswers, NewAnswer
<1>5. ClientInv(c, s, C, A)
  BY <1>4, MyInv
<1>6. Executing(c, s, C, A, r, a, db)
  <2>1. ShardInv(c, i, s, C, A, db)
    BY <1>4 DEF SysInv, Locals
  <2>2. DbOK(db, KeysOf(i))
    BY DEF SysInv, Clean
  <2>. HIDE DEF s, C, A, db
  <2>. QED BY <1>1, <1>4, <1>5, <2>1, <2>2 DEF Executing
<1>7. Executed(c, s, C, A, r, a, db, o.db) => Executes(i, r, a, o.db)
  <2>1. /\ mode' = mode /\ client' = client /\ calls' = calls /\ ts' = ts
        /\ history' = history /\ r \in calls /\ r.shard = i /\ i \in Shards
    BY <1>1
  <2>2. replies' = replies \cup {a}
    BY <1>2
  <2>3. /\ DOMAIN shard' = Shards /\ DOMAIN shard'[i] = {"db", "log", "opnum"}
        /\ shard'[i].db = o.db /\ shard'[i].log = << >>
        /\ \A j \in Shards \ {i} : shard'[j] = shard[j]
    BY <1>2 DEF SysInv, Clean
  <2>. QED BY <1>4, <2>1, <2>2, <2>3 DEF Executes
<1>8. r.op = s.pc /\ r.op \in Ops
  BY <1>6, RequestIs
<1>. HIDE DEF s, C, A, op
<1>9. CASE r.op # "COMMIT"
  <2>1. Executed(c, s, C, A, r, a, db, o.db) /\ o.db.store = db.store
    <3>. HIDE DEF db
    <3>1. CASE r.op = "BEGIN"
      BY <1>2, <1>3, <1>6, <3>1, ExecuteBegin
    <3>2. CASE r.op = "GET"
      BY <1>2, <1>3, <1>6, <3>2, ExecuteGet
    <3>3. CASE r.op = "PUT"
      BY <1>2, <1>3, <1>6, <3>3, ExecutePut
    <3>4. CASE r.op = "PREPARE"
      BY <1>2, <1>3, <1>6, <3>4, ExecutePrepare
    <3>5. CASE r.op = "ABORT"
      BY <1>2, <1>3, <1>6, <3>5, ExecuteAbort
    <3>. QED BY <1>8, <1>9, <3>1, <3>2, <3>3, <3>4, <3>5 DEF Ops
  <2>2. Executes(i, r, a, o.db) /\ client[r.txnid].pc # "COMMIT"
    BY <1>7, <1>8, <1>9, <2>1 DEF s
  <2>. QED BY <2>1, <2>2, ExecutesNoCommit
<1>10. CASE r.op = "COMMIT"
  <2>1. PICK h0 \in history :
          /\ h0.client = c /\ h0.txn = s.txns /\ h0.writes = s.puts
          /\ \A q \in C : q.arg0 = h0.ts
    BY <1>4, <1>8, <1>10 DEF SysInv, HistoryInv, HistoryFits, s, C
  <2>2. r.arg0 = h0.ts /\ h0.ts \in Nat
    <3>1. r.arg0 = h0.ts
      BY <1>4, <2>1 DEF NewAnswer
    <3>2. ts \in Nat /\ h0.ts \in 1 .. ts
      BY DEF SysInv, HistoryInv, HistoryTyped
    <3>. QED BY <3>1, <3>2
  <2>3. Pending(h0, i)
    <3>1. UnexecutedAt(C, A, i)
      <4>1. UnexecutedAt(C, A, r.shard)
        <5>. HIDE DEF db
        <5>. QED BY <1>4, <1>5, OnlyCallAt
      <4>. QED BY <1>1, <4>1
    <3>. QED BY <1>8, <1>10, <2>1, <3>1 DEF Pending, PendingOf, s, C, A
  <2>4. PutKeys(s, A) = DOMAIN s.puts
    <3>1. s.pc \notin {"GET", "PUT"}
      BY <1>8, <1>10
    <3>2. \A b \in A : b.req.op \notin {"GET", "PUT"}
      BY <1>5, <3>1, NoDataComing
    <3>. QED BY <3>2 DEF PutKeys, NewPuts
  <2>5. ASSUME NEW key \in PutKeys(s, A) \cap KeysOf(i), ~Locking,
               NEW n \in DOMAIN db.store[key]
        PROVE  db.store[key][n].ts < h0.ts
    <3>1. key \in Keys /\ key_to_shard(key) = i /\ key \in DOMAIN h0.writes
      BY <2>1, <2>4 DEF KeysOf
    <3>2. PICK by \in Seq(history) : Explains(by, key)
      BY <3>1 DEF SysInv, HistoryInv, Explained
    <3>3. HistoryTyped /\ PendingLast
      BY DEF SysInv, HistoryInv
    <3>4. \A k \in 1 .. Len(shard[key_to_shard(key)].db.store[key]) :
            shard[key_to_shard(key)].db.store[key][k].ts < h0.ts
      BY <2>3, <2>5, <3>1, <3>2, <3>3, OlderVersions
    <3>5. DOMAIN db.store[key] = 1 .. Len(db.store[key])
      <4>1. OCCDbOK(db, KeysOf(i))
        BY <2>5 DEF SysInv, Clean, DbOK
      <4>2. db.store[key] \in Seq(Versions)
        BY <4>1 DEF OCCDbOK, VersionsOK
      <4>. QED BY <4>2, LenProperties
    <3>. QED BY <3>1, <3>4, <3>5
  <2>6. /\ Executed(c, s, C, A, r, a, db, o.db)
        /\ \A k \in KeysOf(r.shard) :
             IF k \in DOMAIN s.puts
             THEN Extended(o.db.store[k], db.store[k], r.arg0, s.puts[k])
             ELSE o.db.store[k] = db.store[k]
    <3>. HIDE DEF db
    <3>1. \A k \in PutKeys(s, A) \cap KeysOf(r.shard) : ~Locking =>
            \A n \in DOMAIN db.store[k] : db.store[k][n].ts < r.arg0
      BY <1>1, <2>2, <2>5
    <3>. QED BY <1>2, <1>3, <1>6, <1>10, <2>2, <3>1, ExecuteCommit
  <2>7. \A key \in KeysOf(i) :
          IF key \in DOMAIN h0.writes
          THEN Extended(o.db.store[key], shard[i].db.store[key], h0.ts, h0.writes[key])
          ELSE o.db.store[key] = shard[i].db.store[key]
    BY <1>1, <2>1, <2>2, <2>6
  <2>8. Executes(i, r, a, o.db) /\ h0.client = r.txnid
    BY <1>7, <2>1, <2>6
  <2>. QED BY <2>3, <2>7, <2>8, ExecutesCommit
<1>. QED BY <1>9, <1>10

-----------------------------------------------------------------------------
(* Without speculation nothing is undone, and nothing waits to be committed. *)

LEMMA NothingRolledBack ==
  ASSUME SysInv, NEW i \in Shards
  PROVE  ~RollbackUpcall(i)
<1>1. shard[i].log = << >>
  BY DEF SysInv, Clean
<1>2. Len(shard[i].log) = 0
  BY <1>1
<1>3. 0 .. Len(shard[i].log) - 1 = {}
  BY <1>2
<1>. QED BY <1>3 DEF RollbackUpcall

LEMMA NothingToCommit ==
  ASSUME SysInv, NEW i \in Shards
  PROVE  ~CommitUpcall(i)
<1>. DEFINE log == shard[i].log
            S == {0} \cup {k \in DOMAIN log : Accepted(log[k])}
<1>1. log = << >>
  BY DEF SysInv, Clean
<1>2. DOMAIN log = {}
  BY <1>1
<1>3. S = {0}
  BY <1>2
<1>4. Max(S) = 0
  BY <1>3 DEF Max
<1>5. CommitUpcall(i) => Max(S) > 0
  BY DEF CommitUpcall
<1>. QED BY <1>4, <1>5

LEMMA NothingHappens ==
  ASSUME SysInv, UNCHANGED vars
  PROVE  SysInv'
<1>1. /\ mode' = mode /\ client' = client /\ calls' = calls /\ replies' = replies
      /\ shard' = shard /\ ts' = ts /\ history' = history
  BY DEF vars
<1>2. \A c : MyCalls(c)' = MyCalls(c) /\ MyAnswers(c)' = MyAnswers(c)
  BY <1>1 DEF MyCalls, MyAnswers
<1>3. Clean'
  BY <1>1, DbOKPrime DEF SysInv, Clean
<1>4. Locals'
  <2>1. ASSUME NEW c \in Clients, NEW i \in Shards
        PROVE  ShardInv(c, i, client[c], MyCalls(c), MyAnswers(c), shard[i].db)'
    <3>1. ShardInv(c, i, client[c], MyCalls(c), MyAnswers(c), shard[i].db)
      BY DEF SysInv, Locals
    <3>2. ShardInv(c, i, client'[c], MyCalls(c)', MyAnswers(c)', shard'[i].db)
      BY <1>1, <1>2, <3>1
    <3>. QED BY <1>1, <3>2, ShardInvPrime
  <2>2. \A c \in Clients : ClientInv(c, client[c], MyCalls(c), MyAnswers(c))'
    BY <1>1, <1>2, MyInv
  <2>. QED BY <2>1, <2>2 DEF Locals
<1>5. \A h, i : Pending(h, i)' <=> Pending(h, i)
  BY <1>1, <1>2 DEF Pending
<1>6. HistoryTyped' /\ HistoryFits'
  BY <1>1, <1>2 DEF SysInv, HistoryInv, HistoryTyped, HistoryFits
<1>7. PendingLast'
  BY <1>1, <1>5 DEF SysInv, HistoryInv, PendingLast
<1>8. Explained'
  <2>. SUFFICES ASSUME NEW key \in Keys
       PROVE  \E by \in Seq(history') : Explains(by, key)'
    BY DEF Explained
  <2>1. PICK by \in Seq(history) : Explains(by, key)
    BY DEF SysInv, HistoryInv, Explained
  <2>2. Explains(by, key)'
    BY <1>1, <1>5, <2>1, ExplainsSame
  <2>. QED BY <1>1, <2>2
<1>9. Serializable'
  <2>1. \A key, time : ValueBefore(key, time)' = ValueBefore(key, time)
    BY <1>1 DEF ValueBefore
  <2>. QED BY <1>1, <2>1 DEF SysInv, HistoryInv, Serializable, AsBuilt
<1>. QED BY <1>3, <1>4, <1>6, <1>7, <1>8, <1>9 DEF SysInv, HistoryInv

LEMMA ClientKeeps ==
  ASSUME SysInv, NEW c \in Clients, ClientNext(c)
  PROVE  SysInv'
<1>1. CASE Begin(c)
  BY <1>1, BeginKeeps
<1>2. CASE Get(c)
  BY <1>2, GetKeeps
<1>3. CASE Put(c)
  BY <1>3, PutKeeps
<1>4. CASE Commit(c)
  BY <1>4, CommitKeeps
<1>5. CASE Abort(c)
  BY <1>5, AbortKeeps
<1>6. CASE beginCallback(c)
  BY <1>6, BegunKeeps
<1>7. CASE getCallback(c)
  BY <1>7, GotKeeps
<1>8. CASE putCallback(c)
  BY <1>8, PuttedKeeps
<1>9. CASE prepareCallback(c)
  BY <1>9, VotedKeeps
<1>10. CASE tssCallback(c)
  BY <1>10, TimestampKeeps
<1>11. CASE commitCallback(c) \/ abortCallback(c)
  BY <1>11, DoneKeeps
<1>. QED BY <1>1, <1>2, <1>3, <1>4, <1>5, <1>6, <1>7, <1>8, <1>9, <1>10, <1>11
         DEF ClientNext

LEMMA ModeStays ==
  ASSUME [Next]_vars
  PROVE  mode' = mode
<1>1. CASE UNCHANGED vars
  BY <1>1 DEF vars
<1>2. ASSUME NEW c \in Clients, ClientNext(c)
      PROVE  mode' = mode
  BY <1>2 DEF ClientNext, Begin, Get, Put, Operate, Commit, Abort, beginCallback,
     getCallback, putCallback, prepareCallback, tssCallback, commitCallback,
     abortCallback
<1>3. ASSUME NEW i \in Shards, Execute(i) \/ RollbackUpcall(i) \/ CommitUpcall(i)
      PROVE  mode' = mode
  BY <1>3 DEF Execute, RollbackUpcall, CommitUpcall
<1>. QED BY <1>1, <1>2, <1>3 DEF Next

-----------------------------------------------------------------------------
(* At first.                                                                 *)

LEMMA InitClients ==
  ASSUME Init, NEW c \in Clients
  PROVE  client[c] = IdleClient /\ MyCalls(c) = {} /\ MyAnswers(c) = {}
BY DEF Init, MyCalls, MyAnswers

LEMMA InitDbs ==
  ASSUME Init, ~AsBuilt, ~Speculative, NEW i \in Shards
  PROVE  /\ DbOK(shard[i].db, KeysOf(i))
         /\ DOMAIN shard[i].db.running = {} /\ DOMAIN shard[i].db.prepared = {}
         /\ \A key \in KeysOf(i) : StoreIs(shard[i].db.store[key], key, << >>)
<1>. DEFINE db == shard[i].db
            K == KeysOf(i)
<1>1. db = InitDb(mode, i)
  BY DEF Init
<1>2. mode \in {"vr-l", "vr-occ"}
  BY NiStoreAssumption DEF Init, AsBuilt, Speculative
<1>3. CASE mode = "vr-l"
  <2>1. Locking
    BY <1>3 DEF Locking
  <2>2. db = Lock!InitDb([key \in K |-> <<Loaded>>])
    BY <1>1, <1>3 DEF InitDb
  <2>3. /\ DOMAIN db = {"store", "locks", "running", "prepared", "retired"}
        /\ db.store = [key \in K |-> <<Loaded>>]
        /\ db.locks = [key \in K |-> Lock!Free]
        /\ db.running = << >> /\ db.prepared = << >>
    BY <2>2 DEF Lock!InitDb
  <2>4. DOMAIN db.running = {} /\ DOMAIN db.prepared = {}
    BY <2>3
  <2>. HIDE DEF db, K
  <2>5. \A key \in K : /\ db.store[key] = <<Loaded>> /\ db.locks[key] = Lock!Free
    BY <2>3
  <2>6. TxnsOK(db, K)
    BY <2>3, <2>4 DEF TxnsOK
  <2>7. <<Loaded>> \in Seq(Stored) /\ <<Loaded>> # << >>
    <3>1. Loaded \in Stored
      BY DEF Stored
    <3>. QED BY <3>1
  <2>8. Lock!Free \in Locks(Clients) /\ Lock!LockOK(Lock!Free)
    BY DEF Lock!Free, Locks, Waiters, Lock!LockOK
  <2>9. LockDbOK(db, K)
    BY <2>3, <2>4, <2>5, <2>6, <2>7, <2>8 DEF LockDbOK
  <2>10. \A key \in K : StoreIs(db.store[key], key, << >>)
    BY <2>1, <2>5 DEF StoreIs
  <2>. QED BY <2>1, <2>4, <2>9, <2>10 DEF DbOK, db, K
<1>4. CASE mode = "vr-occ"
  <2>. DEFINE first == [ts |-> 0, value |-> Loaded]
  <2>1. ~Locking
    BY <1>4 DEF Locking
  <2>2. db = OCC!InitDb([key \in K |-> <<first>>])
    BY <1>1, <1>4 DEF InitDb
  <2>3. /\ DOMAIN db = {"store", "running", "prepared", "retired"}
        /\ db.store = [key \in K |-> <<first>>]
        /\ db.running = << >> /\ db.prepared = << >>
    BY <2>2 DEF OCC!InitDb
  <2>4. DOMAIN db.running = {} /\ DOMAIN db.prepared = {}
    BY <2>3
  <2>5. first \in Versions
    BY DEF Versions, Stored
  <2>. HIDE DEF db, K
  <2>6. \A key \in K : db.store[key] = <<first>>
    BY <2>3
  <2>7. TxnsOK(db, K)
    BY <2>3, <2>4 DEF TxnsOK
  <2>8. VersionsOK(<<first>>)
    <3>. HIDE DEF first
    <3>1. <<first>> \in Seq(Versions) /\ <<first>> # << >> /\ DOMAIN <<first>> = {1}
      BY <2>5
    <3>. QED BY <3>1 DEF VersionsOK
  <2>9. OCCDbOK(db, K)
    BY <2>3, <2>4, <2>6, <2>7, <2>8 DEF OCCDbOK
  <2>10. \A key \in K : StoreIs(db.store[key], key, << >>)
    <3>1. Len(<<first>>) = 1 /\ <<first>>[1] = first /\ Len(<< >>) = 0
      OBVIOUS
    <3>2. StoreIs(<<first>>, 0, << >>) /\ \A key : StoreIs(<<first>>, key, << >>)
      BY <2>1, <3>1 DEF StoreIs
    <3>. QED BY <2>6, <3>2
  <2>. QED BY <2>1, <2>4, <2>9, <2>10 DEF DbOK, db, K
<1>. QED BY <1>2, <1>3, <1>4

LEMMA InitSys ==
  ASSUME Init, ~AsBuilt, ~Speculative
  PROVE  SysInv
<1>1. /\ DOMAIN client = Clients /\ calls = {} /\ replies = {} /\ ts = 0
      /\ history = {} /\ DOMAIN shard = Shards
      /\ \A i \in Shards : /\ DOMAIN shard[i] = {"db", "log", "opnum"}
                           /\ shard[i].log = << >>
  BY DEF Init
<1>2. Clean
  BY <1>1, InitDbs DEF Clean
<1>3. ASSUME NEW c \in Clients
      PROVE  ClientInv(c, client[c], MyCalls(c), MyAnswers(c))
  <2>1. client[c] = IdleClient /\ MyCalls(c) = {} /\ MyAnswers(c) = {}
    BY InitClients
  <2>2. ClientTyped(IdleClient)
    BY DEF ClientTyped, IdleClient, ClientFields, Pcs
  <2>3. DataOK(IdleClient, {})
    BY DEF DataOK, IdleClient, PutKeys, NewPuts, ReadsOf, NewReads
  <2>4. CallsOK(c, IdleClient, {}) /\ AnswersOK({}, {})
    BY DEF CallsOK, AnswersOK
  <2>5. VotesOK(IdleClient, {})
    BY DEF VotesOK, IdleClient
  <2>. QED BY <2>1, <2>2, <2>3, <2>4, <2>5 DEF ClientInv
<1>4. ASSUME NEW c \in Clients, NEW i \in Shards
      PROVE  ShardInv(c, i, client[c], MyCalls(c), MyAnswers(c), shard[i].db)
  <2>1. client[c] = IdleClient /\ IdleClient.pc = "idle"
    BY InitClients DEF IdleClient
  <2>2. DOMAIN shard[i].db.running = {} /\ DOMAIN shard[i].db.prepared = {}
    BY InitDbs
  <2>3. /\ ~ToRun(client[c], MyCalls(c), MyAnswers(c), i)
        /\ ~IsPrepared(client[c], MyCalls(c), MyAnswers(c), i)
    BY <2>1 DEF ToRun, IsPrepared
  <2>. QED BY <2>2, <2>3 DEF ShardInv
<1>5. HistoryTyped /\ PendingLast /\ Serializable
  BY <1>1 DEF HistoryTyped, PendingLast, Serializable
<1>6. HistoryFits
  <2>1. \A c \in Clients : client[c].pc = "idle"
    BY InitClients DEF IdleClient
  <2>. QED BY <1>1, <2>1 DEF HistoryFits
<1>7. Explained
  <2>. SUFFICES ASSUME NEW key \in Keys
       PROVE  \E by \in Seq(history) : Explains(by, key)
    BY DEF Explained
  <2>1. key_to_shard(key) \in Shards /\ key \in KeysOf(key_to_shard(key))
    BY ShardOfKey
  <2>2. StoreIs(shard[key_to_shard(key)].db.store[key], key, << >>)
    BY <2>1, InitDbs
  <2>3. << >> \in Seq(history) /\ DOMAIN << >> = {}
    OBVIOUS
  <2>4. Explains(<< >>, key)
    BY <1>1, <2>2, <2>3 DEF Explains
  <2>. QED BY <2>3, <2>4
<1>. QED BY <1>2, <1>3, <1>4, <1>5, <1>6, <1>7 DEF SysInv, Locals, HistoryInv

-----------------------------------------------------------------------------
(* What the stores have is what the invariant says.                          *)

LEMMA StoredAre ==
  ASSUME SysInv, ~AsBuilt, NEW key \in Keys, NEW by, Explains(by, key)
  PROVE  /\ DOMAIN StoredValues(key) = 1 .. Len(by)
         /\ \A k \in 1 .. Len(by) : StoredValues(key)[k] = by[k].writes[key]
<1>. DEFINE i == key_to_shard(key)
            db == shard[i].db
            v == db.store[key]
            n == Len(by)
<1>1. i \in Shards /\ key \in KeysOf(i)
  BY ShardOfKey
<1>2. DbOK(db, KeysOf(i))
  BY <1>1 DEF SysInv, Clean
<1>3. n \in Nat /\ StoreIs(v, key, by)
  BY LenProperties DEF Explains
<1>4. Len(v) = n + 1
  BY <1>3 DEF StoreIs
<1>5. CASE Locking
  <2>1. v \in Seq(Stored) /\ v # << >>
    BY <1>1, <1>2, <1>5 DEF DbOK, LockDbOK
  <2>2. StoredValues(key) = Tail(v)
    BY <1>5 DEF StoredValues
  <2>3. \A k \in 1 .. n : v[k + 1] = by[k].writes[key]
    BY <1>3, <1>5 DEF StoreIs
  <2>. HIDE DEF v, n
  <2>4. /\ Len(Tail(v)) = n /\ Tail(v) \in Seq(Stored)
        /\ \A k \in 1 .. n : Tail(v)[k] = v[k + 1]
    BY <1>3, <1>4, <2>1, HeadTailProperties
  <2>5. DOMAIN Tail(v) = 1 .. n
    BY <2>4, LenProperties
  <2>. QED BY <2>2, <2>3, <2>4, <2>5 DEF n
<1>6. CASE ~Locking
  <2>. DEFINE f == [k \in DOMAIN v |-> v[k].value]
  <2>1. v \in Seq(Versions)
    BY <1>1, <1>2, <1>6 DEF DbOK, OCCDbOK, VersionsOK
  <2>2. StoredValues(key) = Reverse(Front(f))
    BY <1>6 DEF StoredValues
  <2>3. \A k \in 1 .. n : v[n + 1 - k] = [ts |-> by[k].ts, value |-> by[k].writes[key]]
    BY <1>3, <1>6 DEF StoreIs
  <2>. HIDE DEF v, n
  <2>4. DOMAIN v = 1 .. n + 1
    BY <1>4, <2>1, LenProperties
  <2>5. f \in [1 .. n + 1 -> Stored]
    <3>1. \A k \in 1 .. n + 1 : v[k] \in Versions
      BY <1>4, <2>1, ElementOfSeq
    <3>. QED BY <2>4, <3>1 DEF Versions
  <2>6. f \in Seq(Stored) /\ Len(f) = n + 1
    <3>1. n + 1 \in Nat
      BY <1>3
    <3>. HIDE DEF f
    <3>. QED BY <2>5, <3>1, SeqDef, LenProperties
  <2>7. \A k \in 1 .. n : f[n + 1 - k] = by[k].writes[key]
    <3>. SUFFICES ASSUME NEW k \in 1 .. n PROVE f[n + 1 - k] = by[k].writes[key]
      OBVIOUS
    <3>1. n + 1 - k \in DOMAIN v
      BY <1>3, <2>4
    <3>2. f[n + 1 - k] = v[n + 1 - k].value
      BY <3>1
    <3>. HIDE DEF f
    <3>3. v[n + 1 - k] = [ts |-> by[k].ts, value |-> by[k].writes[key]]
      BY <2>3
    <3>. QED BY <3>2, <3>3
  <2>. HIDE DEF f
  <2>8. Len(Front(f)) = n /\ \A k \in 1 .. n : Front(f)[k] = f[k]
    <3>1. Front(f) = SubSeq(f, 1, n)
      BY <1>3, <2>6 DEF Front
    <3>2. n \in 0 .. Len(f) /\ 1 \in 1 .. Len(f) + 1
      BY <1>3, <2>6
    <3>3. Len(SubSeq(f, 1, n)) = n /\ \A k \in 1 .. n : SubSeq(f, 1, n)[k] = f[k]
      BY <1>3, <2>6
    <3>. QED BY <3>1, <3>3
  <2>9. Reverse(Front(f)) = [k \in 1 .. n |-> Front(f)[(n - k) + 1]]
    BY <2>8 DEF Reverse
  <2>10. ASSUME NEW k \in 1 .. n PROVE Reverse(Front(f))[k] = f[n + 1 - k]
    <3>1. (n - k) + 1 \in 1 .. n /\ (n - k) + 1 = n + 1 - k
      BY <1>3
    <3>. QED BY <2>8, <2>9, <3>1
  <2>. QED BY <2>2, <2>7, <2>9, <2>10 DEF n
<1>. QED BY <1>5, <1>6

LEMMA AtomicIs ==
  ASSUME SysInv, ~AsBuilt
  PROVE  AtomicCommit
<1>. SUFFICES ASSUME NEW key \in Keys, NEW values, values = StoredValues(key)
     PROVE  /\ \E by \in [DOMAIN values -> history] :
                 \A i \in DOMAIN values :
                   /\ key \in DOMAIN by[i].writes /\ by[i].writes[key] = values[i]
                   /\ \A j \in 1 .. i - 1 : by[j].ts < by[i].ts
            /\ \A h \in history :
                 client[h.client].pc # "COMMIT" /\ key \in DOMAIN h.writes =>
                   \E i \in DOMAIN values : values[i] = h.writes[key]
  BY DEF AtomicCommit
<1>1. PICK by \in Seq(history) : Explains(by, key)
  BY DEF SysInv, HistoryInv, Explained
<1>2. /\ DOMAIN values = 1 .. Len(by)
      /\ \A k \in 1 .. Len(by) : values[k] = by[k].writes[key]
  BY <1>1, StoredAre
<1>3. /\ Len(by) \in Nat /\ DOMAIN by = 1 .. Len(by) /\ by \in [1 .. Len(by) -> history]
  BY <1>1, LenProperties
<1>4. /\ \A m, n \in DOMAIN by : m < n => by[m].ts < by[n].ts
      /\ \A h \in history :
           key \in DOMAIN h.writes /\ ~Pending(h, key_to_shard(key))
             <=> \E n \in DOMAIN by : by[n] = h
  BY <1>1 DEF Explains
<1>5. ASSUME NEW i \in DOMAIN values
      PROVE  /\ key \in DOMAIN by[i].writes /\ by[i].writes[key] = values[i]
             /\ \A j \in 1 .. i - 1 : by[j].ts < by[i].ts
  <2>1. by[i] \in history /\ i \in DOMAIN by
    BY <1>2, <1>3
  <2>2. key \in DOMAIN by[i].writes
    BY <1>4, <2>1
  <2>3. \A j \in 1 .. i - 1 : j \in DOMAIN by /\ j < i
    BY <1>3, <2>1
  <2>. QED BY <1>2, <1>4, <2>1, <2>2, <2>3
<1>6. ASSUME NEW h \in history, client[h.client].pc # "COMMIT", key \in DOMAIN h.writes
      PROVE  \E i \in DOMAIN values : values[i] = h.writes[key]
  <2>1. ~Pending(h, key_to_shard(key))
    BY <1>6 DEF Pending, PendingOf
  <2>2. PICK n \in DOMAIN by : by[n] = h
    BY <1>4, <1>6, <2>1
  <2>. QED BY <1>2, <1>3, <2>2
<1>7. by \in [DOMAIN values -> history]
  BY <1>2, <1>3
<1>. QED BY <1>5, <1>6, <1>7

-----------------------------------------------------------------------------
(* The theorems.                                                             *)

Invariant == ~AsBuilt /\ ~Speculative => SysInv

LEMMA NextKeeps ==
  ASSUME Invariant, [Next]_vars
  PROVE  Invariant'
<1>1. mode' = mode
  BY ModeStays
<1>2. SUFFICES ASSUME ~AsBuilt, ~Speculative, SysInv PROVE SysInv'
  BY <1>1 DEF Invariant, AsBuilt, Speculative
<1>3. CASE UNCHANGED vars
  BY <1>2, <1>3, NothingHappens
<1>4. ASSUME NEW c \in Clients, ClientNext(c) PROVE SysInv'
  BY <1>2, <1>4, ClientKeeps
<1>5. ASSUME NEW i \in Shards, Execute(i) PROVE SysInv'
  BY <1>2, <1>5, ExecuteKeeps
<1>6. ASSUME NEW i \in Shards, RollbackUpcall(i) \/ CommitUpcall(i) PROVE SysInv'
  BY <1>2, <1>6, NothingRolledBack, NothingToCommit
<1>. QED BY <1>3, <1>4, <1>5, <1>6 DEF Next

(* The invariant, for servers that run a store and do not speculate.         *)
THEOREM Invariance == Spec => []Invariant
<1>1. Init => Invariant
  BY InitSys DEF Invariant
<1>. QED BY <1>1, NextKeeps, PTL DEF Spec

(* Where servers do not speculate, every transaction that commits has read   *)
(* what those with earlier timestamps have written, over all shards (two-phase *)
(* locking; OCCStore::prepare; Client::Commit).                                *)
THEOREM SerializableUnderVR == Spec => [](~Speculative => Serializable)
<1>1. Invariant => (~Speculative => Serializable)
  BY DEF Invariant, SysInv, HistoryInv, Serializable
<1>. QED BY <1>1, Invariance, PTL

(* Where servers do not speculate, a shard has stored, in the order of their *)
(* timestamps, only what transactions that commit have written, and all of it *)
(* once the client's second phase has ended (Client::Commit, server.cc).       *)
THEOREM AtomicCommitUnderVR == Spec => [](~Speculative => AtomicCommit)
<1>1. Invariant => (~Speculative => AtomicCommit)
  BY AtomicIs DEF Invariant, AtomicCommit
<1>. QED BY <1>1, Invariance, PTL
-----------------------------------------------------------------------------
(* Types, whether servers speculate or not: the locks.                       *)

(* The locks of a database, whatever else is in it.                          *)
LocksOK(db, K) ==
  /\ "locks" \in DOMAIN db /\ K \subseteq DOMAIN db.locks
  /\ \A key \in DOMAIN db.locks :
       db.locks[key] \in Locks(Clients) /\ Lock!LockOK(db.locks[key])

SameLocks(d, db) == DOMAIN d = DOMAIN db /\ d.locks = db.locks

LEMMA SameLocksOK ==
  ASSUME NEW K, NEW db, LocksOK(db, K), NEW d, SameLocks(d, db)
  PROVE  LocksOK(d, K)
BY DEF LocksOK, SameLocks

(* One lock has changed, or there is one more.                                *)
LEMMA OneLockOK ==
  ASSUME NEW K, NEW db, LocksOK(db, K), NEW key, NEW l \in Locks(Clients),
         Lock!LockOK(l), NEW d, "locks" \in DOMAIN d, d.locks = With(db.locks, key, l)
  PROVE  LocksOK(d, K)
<1>1. \A f : /\ DOMAIN With(f, key, l) = DOMAIN f \cup {key} /\ With(f, key, l)[key] = l
             /\ \A k \in DOMAIN f \ {key} : With(f, key, l)[k] = f[k]
  BY DEF With, Overridden
<1>2. /\ DOMAIN d.locks = DOMAIN db.locks \cup {key} /\ d.locks[key] = l
      /\ \A k \in DOMAIN db.locks \ {key} : d.locks[k] = db.locks[k]
  <2>. DEFINE f == db.locks
              g == d.locks
  <2>1. g = With(f, key, l)
    OBVIOUS
  <2>. HIDE DEF f, g
  <2>2. /\ DOMAIN g = DOMAIN f \cup {key} /\ g[key] = l
        /\ \A k \in DOMAIN f \ {key} : g[k] = f[k]
    BY <1>1, <2>1
  <2>. QED BY <2>2 DEF f, g
<1>3. \A k \in DOMAIN d.locks : k = key \/ (k \in DOMAIN db.locks \ {key})
  BY <1>2
<1>4. \A k \in DOMAIN d.locks : d.locks[k] \in Locks(Clients) /\ Lock!LockOK(d.locks[k])
  BY <1>2, <1>3 DEF LocksOK
<1>. QED BY <1>2, <1>4 DEF LocksOK

LEMMA LockOfIs ==
  ASSUME NEW K, NEW db, LocksOK(db, K), NEW key
  PROVE  Lock!LockOf(db, key) \in Locks(Clients) /\ Lock!LockOK(Lock!LockOf(db, key))
<1>1. << >> \in Waiters(Clients)
  BY EmptySeq DEF Waiters
<1>2. Lock!Free \in Locks(Clients) /\ Lock!LockOK(Lock!Free)
  BY <1>1 DEF Lock!Free, Locks, Lock!LockOK
<1>. QED BY <1>2 DEF Lock!LockOf, LocksOK

(* What of a database an operation changes besides the locks.                *)
LEMMA RunsLocks ==
  ASSUME NEW db, "locks" \in DOMAIN db, NEW c, NEW t
  PROVE  /\ SameLocks(Runs(db, c, t), db) /\ SameLocks(Lock!Runs(db, c, t), db)
         /\ SameLocks(unbegin(db, c), db) /\ SameLocks(Lock!PreparedTxn(db, c), db)
         /\ SameLocks(unprepare(db, c), db)
BY DEF SameLocks, Runs, Lock!Runs, unbegin, Lock!PreparedTxn, unprepare, Unretired

LEMMA RetiresLocks ==
  ASSUME NEW db, "locks" \in DOMAIN db, NEW c, NEW op, NEW t
  PROVE  /\ SameLocks(Lock!abortTxn(db, op, c), db)
         /\ SameLocks(Lock!CommittedTxn(db, op, c), db)
         /\ SameLocks(Lock!uncommit(db, c), db) /\ SameLocks(Lock!unabort(db, c), db)
         /\ SameLocks(specCommit(db, op), db)
<1>1. SameLocks(Lock!Unretired(db), db)
  BY DEF SameLocks, Lock!Unretired
<1>3. SameLocks(Lock!unabort(db, c), db)
  <2>. DEFINE last == Lock!Last(db.retired)
              d == Lock!Unretired(db)
  <2>1. ASSUME last.state = "ABORTED_PREPARED"
        PROVE  Lock!unabort(db, c) =
                 [d EXCEPT !.prepared = Lock!With(@, c, last.txn)]
    BY <2>1 DEF Lock!unabort
  <2>2. ASSUME last.state = "ABORTED_RUNNING"
        PROVE  Lock!unabort(db, c) = Lock!Runs(d, c, last.txn)
    BY <2>2 DEF Lock!unabort
  <2>3. ASSUME last.state \notin {"ABORTED_PREPARED", "ABORTED_RUNNING"}
        PROVE  Lock!unabort(db, c) = d
    BY <2>3 DEF Lock!unabort
  <2>. HIDE DEF last, d
  <2>4. "locks" \in DOMAIN d
    BY <1>1 DEF d, SameLocks
  <2>5. /\ SameLocks(Lock!Runs(d, c, last.txn), d) /\ SameLocks(d, d)
        /\ SameLocks([d EXCEPT !.prepared = Lock!With(@, c, last.txn)], d)
    BY <2>4 DEF SameLocks, Lock!Runs
  <2>6. SameLocks(Lock!unabort(db, c), d)
    BY <2>1, <2>2, <2>3, <2>5
  <2>. QED BY <1>1, <2>6 DEF SameLocks, d
<1>. QED BY <1>1, <1>3 DEF SameLocks, Lock!abortTxn, Lock!CommittedTxn, Lock!Retired,
           Lock!uncommit, specCommit

(* A lock that is asked for (lockForRead, lockForWrite).                      *)
LEMMA TriedOK ==
  ASSUME NEW K, NEW db, LocksOK(db, K), NEW c \in Clients, NEW key,
         NEW a \in Lock!lockForRead(Lock!LockOf(db, key), c)
                     \cup Lock!lockForWrite(Lock!LockOf(db, key), c),
         NEW d, "locks" \in DOMAIN d, d.locks = Lock!With(db.locks, key, a.lock)
  PROVE  LocksOK(d, K)
<1>1. a.lock \in Locks(Clients) /\ Lock!LockOK(a.lock)
  BY LockOfIs, AttemptKeeps
<1>2. d.locks = With(db.locks, key, a.lock)
  BY SameOperators
<1>. QED BY <1>1, <1>2, OneLockOK

(* A lock that is released.                                                   *)
LEMMA ReleasedOK ==
  ASSUME NEW K, NEW db, LocksOK(db, K), NEW key, NEW c, NEW l,
         key \in DOMAIN db.locks => l \in {Lock!releaseForRead(db.locks[key], c),
                                           Lock!releaseForWrite(db.locks[key], c)},
         NEW d, "locks" \in DOMAIN d, d.locks = [db.locks EXCEPT ![key] = l]
  PROVE  LocksOK(d, K)
<1>1. key \in DOMAIN db.locks => l \in Locks(Clients) /\ Lock!LockOK(l)
  BY ReleaseSound DEF LocksOK
<1>2. /\ DOMAIN d.locks = DOMAIN db.locks
      /\ \A k \in DOMAIN db.locks : d.locks[k] = IF k = key THEN l ELSE db.locks[k]
  OBVIOUS
<1>. QED BY <1>1, <1>2 DEF LocksOK

(* GET and PUT (LockStore::get, put).                                         *)
LEMMA GetLocks ==
  ASSUME NEW K, NEW db, LocksOK(db, K), NEW c \in Clients, NEW key,
         NEW o \in Lock!get(db, c, key)
  PROVE  LocksOK(o.db, K)
<1>. DEFINE txn == Lock!getTxn(db, c)
            run == Lock!Runs(db, c, txn)
            tried(a) == [run EXCEPT !.locks = Lock!With(@, key, a.lock)]
            more == [run EXCEPT !.running[c].reads[key] = @ + 1]
            with(a) == [tried(a) EXCEPT !.running[c].reads = Lock!With(@, key, 1)]
<1>1. \/ o.db = run \/ o.db = more
      \/ \E a \in Lock!lockForRead(Lock!LockOf(db, key), c) :
           o.db = with(a) \/ o.db = tried(a)
  <2>1. CASE key \in DOMAIN txn.writes
    <3>1. o \in {Lock!Result(run, 0, Lock!Last(values)) :
                   values \in {txn.writes[key]} \ {<< >>}}
      BY <2>1 DEF Lock!get
    <3>. HIDE DEF run, more, tried, with
    <3>. QED BY <3>1 DEF Lock!Result
  <2>2. CASE key \notin DOMAIN txn.writes /\ ~Lock!Has(db, key)
    <3>1. o \in {Lock!Result(run, -1, NoValue)}
      BY <2>2 DEF Lock!get
    <3>. HIDE DEF run, more, tried, with
    <3>. QED BY <3>1 DEF Lock!Result
  <2>3. CASE key \notin DOMAIN txn.writes /\ Lock!Has(db, key) /\ key \in DOMAIN txn.reads
    <3>1. o \in {Lock!Result(more, 0, Lock!Last(db.store[key]))}
      BY <2>3 DEF Lock!get
    <3>. HIDE DEF run, more, tried, with
    <3>. QED BY <3>1 DEF Lock!Result
  <2>4. CASE key \notin DOMAIN txn.writes /\ Lock!Has(db, key) /\ key \notin DOMAIN txn.reads
    <3>1. o \in {IF a.granted THEN Lock!Result(with(a), 0, Lock!Last(db.store[key]))
                 ELSE Lock!Result(tried(a), -2, NoValue) :
                   a \in Lock!lockForRead(Lock!LockOf(db, key), c)}
      BY <2>4 DEF Lock!get
    <3>2. PICK a \in Lock!lockForRead(Lock!LockOf(db, key), c) :
            o = IF a.granted THEN Lock!Result(with(a), 0, Lock!Last(db.store[key]))
                ELSE Lock!Result(tried(a), -2, NoValue)
      BY <3>1
    <3>3. o.db = with(a) \/ o.db = tried(a)
      <4>. HIDE DEF with, tried
      <4>. QED BY <3>2 DEF Lock!Result
    <3>. QED BY <3>3
  <2>. QED BY <2>1, <2>2, <2>3, <2>4
<1>2. "locks" \in DOMAIN run /\ run.locks = db.locks /\ SameLocks(run, db)
  BY RunsLocks DEF LocksOK, SameLocks
<1>. HIDE DEF run
<1>3. CASE o.db = run \/ o.db = more
  <2>1. SameLocks(o.db, db)
    BY <1>2, <1>3 DEF SameLocks
  <2>. QED BY <2>1, SameLocksOK
<1>4. CASE \E a \in Lock!lockForRead(Lock!LockOf(db, key), c) :
             o.db = with(a) \/ o.db = tried(a)
  <2>1. PICK a \in Lock!lockForRead(Lock!LockOf(db, key), c) :
          o.db = with(a) \/ o.db = tried(a)
    BY <1>4
  <2>2. "locks" \in DOMAIN o.db /\ o.db.locks = Lock!With(db.locks, key, a.lock)
    BY <1>2, <2>1
  <2>. HIDE DEF with, tried
  <2>. QED BY <2>2, TriedOK
<1>. QED BY <1>1, <1>3, <1>4

LEMMA PutLocks ==
  ASSUME NEW K, NEW db, LocksOK(db, K), NEW c \in Clients, NEW key, NEW value,
         NEW o \in Lock!put(db, c, key, value)
  PROVE  LocksOK(o.db, K)
<1>. DEFINE txn == Lock!getTxn(db, c)
            run == Lock!Runs(db, c, txn)
            w == Lock!With(txn.writes, key, Append(Lock!Written(txn, key), value))
            tried(a) == [run EXCEPT !.locks = Lock!With(@, key, a.lock)]
            with(a) == [tried(a) EXCEPT !.running[c].writes = w]
<1>1. PICK a \in Lock!lockForWrite(Lock!LockOf(db, key), c) :
        o.db = with(a) \/ o.db = tried(a)
  <2>1. PICK a \in Lock!lockForWrite(Lock!LockOf(db, key), c) :
          o = IF a.granted THEN Lock!Result(with(a), 0, NoValue)
              ELSE Lock!Result(tried(a), -2, NoValue)
    BY DEF Lock!put
  <2>2. o.db = with(a) \/ o.db = tried(a)
    <3>. HIDE DEF with, tried
    <3>. QED BY <2>1 DEF Lock!Result
  <2>. QED BY <2>2
<1>2. "locks" \in DOMAIN run /\ run.locks = db.locks
  BY RunsLocks DEF LocksOK, SameLocks
<1>. HIDE DEF run, w
<1>3. "locks" \in DOMAIN o.db /\ o.db.locks = Lock!With(db.locks, key, a.lock)
  BY <1>1, <1>2
<1>. HIDE DEF with, tried
<1>. QED BY <1>3, TriedOK

(* Undone (LockStore::unget, unput).                                          *)
LEMMA UngetLocks ==
  ASSUME NEW K, NEW db, LocksOK(db, K), NEW c, NEW key,
         NEW d \in Lock!unget(db, c, key)
  PROVE  LocksOK(d, K)
<1>. DEFINE less == [db EXCEPT !.running[c].reads[key] = @ - 1]
            none == [db EXCEPT !.running[c].reads = Lock!Without(@, key),
                               !.locks[key] = Lock!releaseForRead(@, c)]
            reads == db.running[c].reads
<1>1. d = db \/ d = less \/ d = none
  <2>1. d = CASE key \notin DOMAIN reads -> db
              [] key \in DOMAIN reads /\ reads[key] > 1 -> less
              [] key \in DOMAIN reads /\ ~(reads[key] > 1) -> none
    BY DEF Lock!unget
  <2>. HIDE DEF less, none, reads
  <2>. QED BY <2>1
<1>2. "locks" \in DOMAIN db
  BY DEF LocksOK
<1>3. SameLocks(less, db)
  BY <1>2 DEF SameLocks
<1>4. LocksOK(none, K)
  <2>. DEFINE l == Lock!releaseForRead(db.locks[key], c)
  <2>1. "locks" \in DOMAIN none /\ none.locks = [db.locks EXCEPT ![key] = l]
    BY <1>2
  <2>. HIDE DEF none
  <2>. QED BY <2>1, ReleasedOK
<1>. QED BY <1>1, <1>3, <1>4, SameLocksOK

LEMMA UnputLocks ==
  ASSUME NEW K, NEW db, LocksOK(db, K), NEW c, NEW key, NEW value,
         NEW d \in Lock!unput(db, c, key, value)
  PROVE  LocksOK(d, K)
<1>. DEFINE left == Lock!Front(db.running[c].writes[key])
            less == [db EXCEPT !.running[c].writes[key] = left]
            none == [less EXCEPT !.locks[key] = Lock!releaseForWrite(@, c)]
<1>1. d = less \/ d = none
  <2>1. d = IF left = << >> THEN none ELSE less
    BY DEF Lock!unput
  <2>. HIDE DEF less, none, left
  <2>. QED BY <2>1
<1>2. "locks" \in DOMAIN db
  BY DEF LocksOK
<1>3. SameLocks(less, db)
  BY <1>2 DEF SameLocks
<1>4. LocksOK(none, K)
  <2>. DEFINE l == Lock!releaseForWrite(db.locks[key], c)
  <2>1. "locks" \in DOMAIN less /\ less.locks = db.locks
    BY <1>2, <1>3 DEF SameLocks
  <2>. HIDE DEF less
  <2>2. "locks" \in DOMAIN none /\ none.locks = [db.locks EXCEPT ![key] = l]
    BY <2>1
  <2>. HIDE DEF none
  <2>. QED BY <2>2, ReleasedOK
<1>. QED BY <1>1, <1>3, <1>4, SameLocksOK

(* What locks are dropped, or taken back (dropLocks, getLocks).               *)
LEMMA DropLocks ==
  ASSUME NEW K, NEW db, LocksOK(db, K), NEW c, NEW t
  PROVE  LocksOK(Lock!dropLocks(db, c, t), K)
<1>. DEFINE d == Lock!dropLocks(db, c, t)
<1>1. /\ \E locks : d = [db EXCEPT !.locks = locks]
      /\ DOMAIN d.locks = DOMAIN db.locks
      /\ \A k \in DOMAIN db.locks :
           /\ d.locks[k] \in Locks(Clients) /\ Lock!LockOK(d.locks[k])
           /\ KeepsOthers(db.locks[k], d.locks[k], c)
  BY DropKeeps DEF LocksOK
<1>2. "locks" \in DOMAIN d
  BY <1>1 DEF LocksOK
<1>. HIDE DEF d
<1>. QED BY <1>1, <1>2 DEF LocksOK, d

LEMMA RetakenOK ==
  ASSUME NEW c \in Clients, NEW t, NEW key, NEW l \in Locks(Clients), Lock!LockOK(l),
         NEW m \in Lock!Retaken(c, t, key, l)
  PROVE  m \in Locks(Clients) /\ Lock!LockOK(m)
<1>1. PICK w \in IF key \in DOMAIN t.writes
                 THEN {a.lock : a \in Lock!lockForWrite(l, c)} ELSE {l} :
        m \in IF key \in DOMAIN t.reads
              THEN {a.lock : a \in Lock!lockForRead(w, c)} ELSE {w}
  BY DEF Lock!Retaken
<1>2. w \in Locks(Clients) /\ Lock!LockOK(w)
  <2>1. w = l \/ \E a \in Lock!lockForWrite(l, c) : w = a.lock
    BY <1>1
  <2>. QED BY <2>1, AttemptKeeps
<1>3. m = w \/ \E a \in Lock!lockForRead(w, c) : m = a.lock
  BY <1>1
<1>. QED BY <1>2, <1>3, AttemptKeeps

LEMMA GotLocks ==
  ASSUME NEW K, NEW db, LocksOK(db, K), NEW c \in Clients, NEW t,
         NEW d \in Lock!getLocks(db, c, t)
  PROVE  LocksOK(d, K)
<1>. DEFINE may == [key \in DOMAIN db.locks |-> Lock!Retaken(c, t, key, db.locks[key])]
            all == UNION {may[key] : key \in DOMAIN may}
<1>1. PICK f \in [DOMAIN may -> all] :
        (\A key \in DOMAIN may : f[key] \in may[key]) /\ d = [db EXCEPT !.locks = f]
  BY DEF Lock!getLocks
<1>2. "locks" \in DOMAIN d /\ d.locks = f
  BY <1>1 DEF LocksOK
<1>3. /\ DOMAIN f = DOMAIN db.locks
      /\ \A key \in DOMAIN db.locks : f[key] \in Lock!Retaken(c, t, key, db.locks[key])
  BY <1>1
<1>4. \A key \in DOMAIN db.locks : f[key] \in Locks(Clients) /\ Lock!LockOK(f[key])
  BY <1>3, RetakenOK DEF LocksOK
<1>. QED BY <1>2, <1>3, <1>4 DEF LocksOK

(* What a server executes or takes back leaves every lock consistent         *)
(* (Server::ReplicaUpcall, RollbackUpcall).                                   *)
LEMMA UpcallLocks ==
  ASSUME NEW K, NEW db, LocksOK(db, K), NEW opnum, NEW r, r.txnid \in Clients,
         r.op \in Ops, NEW o \in LockUpcall(db, opnum, r)
  PROVE  LocksOK(o.db, K)
<1>1. CASE r.op = "BEGIN"
  <2>1. o \in {Result(begin(db, r.txnid), 0, NoValue)}
    BY <1>1 DEF LockUpcall
  <2>2. SameLocks(begin(db, r.txnid), db)
    BY RunsLocks DEF begin, LocksOK
  <2>3. o.db = begin(db, r.txnid)
    BY <2>1 DEF Result
  <2>. QED BY <2>2, <2>3, SameLocksOK
<1>2. CASE r.op = "GET"
  <2>1. o \in Lock!get(db, r.txnid, r.arg0)
    BY <1>2 DEF LockUpcall
  <2>. QED BY <2>1, GetLocks
<1>3. CASE r.op = "PUT"
  <2>1. o \in Lock!put(db, r.txnid, r.arg0, r.arg1)
    BY <1>3 DEF LockUpcall
  <2>. QED BY <2>1, PutLocks
<1>4. CASE r.op = "PREPARE"
  <2>1. o \in Lock!prepare(db, r.txnid)
    BY <1>4 DEF LockUpcall
  <2>2. o.db = db \/ o.db = Lock!PreparedTxn(db, r.txnid)
    BY <2>1 DEF Lock!prepare, Lock!Result
  <2>3. SameLocks(Lock!PreparedTxn(db, r.txnid), db)
    BY RunsLocks DEF LocksOK
  <2>. QED BY <2>2, <2>3, SameLocksOK
<1>5. CASE r.op = "COMMIT"
  <2>. DEFINE c == r.txnid
              d == Lock!commit(db, c, opnum)
  <2>1. o \in {Result(Lock!commit(db, id, opnum), 0, NoValue) :
                 id \in {j \in {c} : Lock!Committable(db.prepared[j])}}
    BY <1>5 DEF LockUpcall
  <2>2. o.db = d
    BY <2>1 DEF Result
  <2>3. PICK new : d = Lock!dropLocks(
                         Lock!CommittedTxn([db EXCEPT !.store = new], opnum, c),
                         c, db.prepared[c])
    BY DEF Lock!commit
  <2>. DEFINE e == [db EXCEPT !.store = new]
              f == Lock!CommittedTxn(e, opnum, c)
  <2>4. "locks" \in DOMAIN e /\ SameLocks(e, db)
    BY DEF LocksOK, SameLocks
  <2>. HIDE DEF e
  <2>5. SameLocks(f, e)
    BY <2>4, RetiresLocks
  <2>. HIDE DEF f, d
  <2>6. LocksOK(f, K)
    BY <2>4, <2>5, SameLocksOK
  <2>7. d = Lock!dropLocks(f, c, db.prepared[c])
    BY <2>3 DEF e, f
  <2>. QED BY <2>2, <2>6, <2>7, DropLocks
<1>6. CASE r.op = "ABORT"
  <2>. DEFINE c == r.txnid
              e == Lock!abortTxn(db, opnum, c)
  <2>1. o \in {Result(Lock!aborted(db, opnum, id), 0, NoValue) :
                 id \in {j \in {c} : Abortable(db, j)}}
    BY <1>6 DEF LockUpcall
  <2>2. o.db = Lock!aborted(db, opnum, c)
    BY <2>1 DEF Result
  <2>3. SameLocks(e, db)
    BY RetiresLocks DEF LocksOK
  <2>4. LocksOK(e, K)
    BY <2>3, SameLocksOK
  <2>5. o.db = Lock!dropLocks(e, c, Lock!AbortedTxn(db, c))
    BY <2>2 DEF Lock!aborted
  <2>. HIDE DEF e
  <2>. QED BY <2>4, <2>5, DropLocks
<1>. QED BY <1>1, <1>2, <1>3, <1>4, <1>5, <1>6 DEF Ops

LEMMA UndoLocks ==
  ASSUME NEW K, NEW db, LocksOK(db, K), NEW r, r.txnid \in Clients, r.op \in Ops,
         NEW d \in LockUndo(db, r)
  PROVE  LocksOK(d, K)
<1>. DEFINE c == r.txnid
<1>0. "locks" \in DOMAIN db
  BY DEF LocksOK
<1>1. CASE r.op = "BEGIN"
  <2>1. d = unbegin(db, c)
    BY <1>1 DEF LockUndo
  <2>2. SameLocks(d, db)
    BY <1>0, <2>1, RunsLocks
  <2>. QED BY <2>2, SameLocksOK
<1>2. CASE r.op = "GET"
  <2>1. d \in Lock!unget(db, c, r.arg0)
    BY <1>2 DEF LockUndo
  <2>. QED BY <2>1, UngetLocks
<1>3. CASE r.op = "PUT"
  <2>1. d \in Lock!unput(db, c, r.arg0, r.arg1)
    BY <1>3 DEF LockUndo
  <2>. QED BY <2>1, UnputLocks
<1>4. CASE r.op = "PREPARE"
  <2>1. d = unprepare(db, c)
    BY <1>4 DEF LockUndo
  <2>2. SameLocks(d, db)
    BY <1>0, <2>1, RunsLocks
  <2>. QED BY <2>2, SameLocksOK
<1>5. CASE r.op = "COMMIT"
  <2>1. d \in Lock!uncommitted(db, c)
    BY <1>5 DEF LockUndo
  <2>2. \E new, t : d \in Lock!getLocks(Lock!uncommit([db EXCEPT !.store = new], c), c, t)
    BY <2>1 DEF Lock!uncommitted
  <2>3. PICK new, t : d \in Lock!getLocks(Lock!uncommit([db EXCEPT !.store = new], c), c, t)
    BY <2>2
  <2>. DEFINE e == [db EXCEPT !.store = new]
              f == Lock!uncommit(e, c)
  <2>4. "locks" \in DOMAIN e /\ SameLocks(e, db)
    BY <1>0 DEF SameLocks
  <2>. HIDE DEF e
  <2>5. SameLocks(f, e)
    BY <2>4, RetiresLocks
  <2>6. LocksOK(f, K)
    BY <2>4, <2>5, SameLocksOK
  <2>7. d \in Lock!getLocks(f, c, t)
    BY <2>3 DEF e
  <2>. HIDE DEF f
  <2>. QED BY <2>6, <2>7, GotLocks
<1>6. CASE r.op = "ABORT"
  <2>. DEFINE e == Lock!unabort(db, c)
  <2>1. d \in Lock!unaborted(db, c)
    BY <1>6 DEF LockUndo
  <2>2. d \in Lock!getLocks(e, c, Lock!Last(db.retired).txn)
    BY <2>1 DEF Lock!unaborted
  <2>3. SameLocks(e, db)
    BY <1>0, RetiresLocks
  <2>4. LocksOK(e, K)
    BY <2>3, SameLocksOK
  <2>. HIDE DEF e
  <2>. QED BY <2>2, <2>4, GotLocks
<1>. QED BY <1>1, <1>2, <1>3, <1>4, <1>5, <1>6 DEF Ops

-----------------------------------------------------------------------------
(* What is rolled back at once.                                              *)

Asked(r) == r.txnid \in Clients /\ r.op \in Ops

LogOK(log) == \E S : log \in Seq(S) /\ \A e \in S : Asked(e.req)

Undone(seq, dbs) ==
  FoldRight(LAMBDA e, ds : UNION {Undo(d, e.req) : d \in ds}, seq, dbs)

Few(n, k) == {s \in SUBSET (1 .. n) : Cardinality(s) <= k}

(* The table of what is left when the operations at some places are undone.  *)
IsUndoTable(g, seq, dbs, D) ==
  g = [s \in D |->
         IF s = {} THEN dbs
         ELSE UNION {Undo(d, seq[Min(s)].req) : d \in g[s \ {Min(s)}]}]

LEMMA FirstOut ==
  ASSUME NEW n \in Nat, NEW k \in Nat, NEW s \in Few(n, k + 1), s # {}
  PROVE  Min(s) \in s /\ s \ {Min(s)} \in Few(n, k)
<1>1. s \in SUBSET (1 .. n) /\ Cardinality(s) <= k + 1
  BY DEF Few
<1>2. s \subseteq Nat /\ IsFiniteSet(s)
  <2>1. IsFiniteSet(1 .. n)
    BY FS_Interval
  <2>2. IsFiniteSet(s)
    BY <1>1, <2>1, FS_Subset
  <2>. QED BY <1>1, <2>2
<1>3. Min(s) \in s
  BY <1>2, MinOfNaturals
<1>. DEFINE t == s \ {Min(s)}
            m == Cardinality(t)
<1>4. m = Cardinality(s) - 1
  BY <1>2, <1>3, FS_RemoveElement
<1>5. Cardinality(s) \in Nat
  BY <1>2, FS_CardinalityType
<1>. HIDE DEF m
<1>6. m <= k
  BY <1>1, <1>4, <1>5
<1>7. t \in SUBSET (1 .. n)
  BY <1>1
<1>. QED BY <1>3, <1>6, <1>7 DEF m, Few

LEMMA FewNone ==
  ASSUME NEW n \in Nat, NEW s \in Few(n, 0)
  PROVE  s = {}
<1>1. s \in SUBSET (1 .. n) /\ Cardinality(s) <= 0
  BY DEF Few
<1>2. IsFiniteSet(s)
  <2>1. IsFiniteSet(1 .. n)
    BY FS_Interval
  <2>. QED BY <1>1, <2>1, FS_Subset
<1>3. Cardinality(s) = 0
  BY <1>1, <1>2, FS_CardinalityType
<1>. QED BY <1>2, <1>3, FS_EmptySet

LEMMA FewMore ==
  ASSUME NEW n \in Nat, NEW k \in Nat, NEW s \in Few(n, k)
  PROVE  s \in Few(n, k + 1)
<1>1. s \in SUBSET (1 .. n) /\ Cardinality(s) <= k
  BY DEF Few
<1>2. Cardinality(s) \in Nat
  <2>1. IsFiniteSet(1 .. n)
    BY FS_Interval
  <2>. QED BY <1>1, <2>1, FS_Subset, FS_CardinalityType
<1>3. Cardinality(s) <= k + 1
  BY <1>1, <1>2
<1>. QED BY <1>1, <1>3 DEF Few

LEMMA UndoTableExists ==
  ASSUME NEW seq, NEW dbs, NEW n \in Nat, NEW top \in Nat
  PROVE  \E g : IsUndoTable(g, seq, dbs, Few(n, top))
<1>. DEFINE T == {k \in Nat : \E g : IsUndoTable(g, seq, dbs, Few(n, k))}
            step(g, s) == IF s = {} THEN dbs
                          ELSE UNION {Undo(d, seq[Min(s)].req) : d \in g[s \ {Min(s)}]}
<1>1. 0 \in T
  <2>. DEFINE D == Few(n, 0)
              g == [s \in D |-> dbs]
  <2>1. \A s \in D : s = {}
    BY FewNone
  <2>. HIDE DEF D
  <2>2. g = [s \in D |-> step(g, s)]
    BY <2>1, Zenon
  <2>3. IsUndoTable(g, seq, dbs, D)
    BY <2>2 DEF IsUndoTable
  <2>. QED BY <2>3 DEF D
<1>2. ASSUME NEW k \in T PROVE k + 1 \in T
  <2>0. k \in Nat /\ k + 1 \in Nat
    OBVIOUS
  <2>1. PICK g : IsUndoTable(g, seq, dbs, Few(n, k))
    OBVIOUS
  <2>. HIDE DEF T
  <2>. DEFINE D == Few(n, k + 1)
              h == [s \in D |-> step(g, s)]
  <2>2. ASSUME NEW s \in Few(n, k) PROVE s \in D /\ h[s] = g[s]
    <3>1. s \in D
      BY <2>0, <2>2, FewMore
    <3>. HIDE DEF D
    <3>2. g[s] = step(g, s)
      BY <2>1, <2>2, Zenon DEF IsUndoTable
    <3>. HIDE DEF step
    <3>. QED BY <3>1, <3>2
  <2>3. ASSUME NEW s \in D PROVE h[s] = step(h, s)
    <3>1. CASE s = {}
      BY <2>3, <3>1
    <3>2. CASE s # {}
      <4>1. s \ {Min(s)} \in Few(n, k)
        BY <2>0, <2>3, <3>2, FirstOut
      <4>2. h[s \ {Min(s)}] = g[s \ {Min(s)}]
        BY <2>2, <4>1
      <4>3. h[s] = UNION {Undo(d, seq[Min(s)].req) : d \in g[s \ {Min(s)}]}
        BY <2>3, <3>2, Zenon
      <4>. HIDE DEF h
      <4>. QED BY <3>2, <4>2, <4>3
    <3>. QED BY <3>1, <3>2
  <2>. HIDE DEF D
  <2>4. h = [s \in D |-> step(h, s)]
    BY <2>3, Zenon
  <2>5. IsUndoTable(h, seq, dbs, D)
    <3>. HIDE DEF h
    <3>. QED BY <2>4 DEF IsUndoTable
  <2>. QED BY <2>0, <2>5 DEF T, D
<1>3. T = Nat
  <2>1. T \subseteq Nat
    OBVIOUS
  <2>. HIDE DEF T
  <2>. QED BY <1>1, <1>2, <2>1, SetInduction
<1>. QED BY <1>3

(* Whatever is rolled back, the locks stay consistent.                       *)
LEMMA UndoneLocks ==
  ASSUME Locking, NEW K, NEW db, LocksOK(db, K), NEW seq, LogOK(seq),
         NEW d \in Undone(seq, {db})
  PROVE  LocksOK(d, K)
<1>1. PICK S : seq \in Seq(S) /\ \A e \in S : Asked(e.req)
  BY DEF LogOK
<1>. DEFINE n == Len(seq)
            D == SUBSET (1 .. n)
            g == CHOOSE g : IsUndoTable(g, seq, {db}, D)
<1>2. n \in Nat /\ DOMAIN seq = 1 .. n /\ \A k \in 1 .. n : Asked(seq[k].req)
  BY <1>1, LenProperties, ElementOfSeq
<1>3. Few(n, n) = D
  <2>1. IsFiniteSet(1 .. n) /\ Cardinality(1 .. n) = n
    BY <1>2, FS_Interval
  <2>2. \A s \in D : Cardinality(s) <= n
    BY <2>1, FS_Subset
  <2>. QED BY <2>2 DEF Few
<1>4. IsUndoTable(g, seq, {db}, D)
  <2>1. \E h : IsUndoTable(h, seq, {db}, Few(n, n))
    <3>1. n \in Nat
      BY <1>2
    <3>. HIDE DEF n
    <3>. QED BY <3>1, UndoTableExists, Zenon
  <2>2. \E h : IsUndoTable(h, seq, {db}, D)
    BY <1>3, <2>1, Zenon
  <2>. QED BY <2>2, Zenon
<1>5. Undone(seq, {db}) = g[1 .. n]
  BY <1>2 DEF Undone, FoldRight, MapThenFoldSet, IsUndoTable
<1>. HIDE DEF g
<1>. DEFINE Fine(s) == \A e \in g[s] : LocksOK(e, K)
            T == {k \in Nat : \A s \in Few(n, k) : Fine(s)}
<1>6. 0 \in T
  <2>. SUFFICES ASSUME NEW s \in Few(n, 0) PROVE Fine(s)
    OBVIOUS
  <2>1. s = {} /\ s \in D
    BY <1>2, FewNone
  <2>2. g[s] = {db}
    BY <1>4, <2>1 DEF IsUndoTable
  <2>. QED BY <2>2
<1>7. ASSUME NEW k \in T PROVE k + 1 \in T
  <2>1. k \in Nat /\ k + 1 \in Nat /\ \A s \in Few(n, k) : Fine(s)
    OBVIOUS
  <2>. HIDE DEF T
  <2>2. ASSUME NEW s \in Few(n, k + 1) PROVE Fine(s)
    <3>1. s \in D
      BY DEF Few
    <3>2. CASE s = {}
      <4>1. g[s] = {db}
        BY <1>4, <3>1, <3>2 DEF IsUndoTable
      <4>. QED BY <4>1
    <3>3. CASE s # {}
      <4>. DEFINE x == Min(s)
                  t == s \ {x}
      <4>1. x \in s /\ t \in Few(n, k)
        BY <1>2, <2>1, <3>3, FirstOut
      <4>2. g[s] = UNION {Undo(e, seq[x].req) : e \in g[t]}
        BY <1>4, <3>1, <3>3, Zenon DEF IsUndoTable
      <4>3. Fine(t) /\ Asked(seq[x].req)
        BY <1>2, <2>1, <3>1, <4>1
      <4>. HIDE DEF x, t
      <4>4. ASSUME NEW e \in g[s] PROVE LocksOK(e, K)
        <5>1. PICK f \in g[t] : e \in Undo(f, seq[x].req)
          BY <4>2
        <5>2. e \in LockUndo(f, seq[x].req)
          BY <5>1 DEF Undo
        <5>3. LocksOK(f, K)
          BY <4>3
        <5>. QED BY <4>3, <5>2, <5>3, UndoLocks DEF Asked
      <4>. QED BY <4>4
    <3>. QED BY <3>2, <3>3
  <2>. QED BY <2>1, <2>2 DEF T
<1>8. T = Nat
  <2>1. T \subseteq Nat
    OBVIOUS
  <2>. HIDE DEF T
  <2>. QED BY <1>6, <1>7, <2>1, SetInduction
<1>9. Fine(1 .. n)
  <2>1. 1 .. n \in Few(n, n) /\ n \in T
    BY <1>2, <1>3, <1>8
  <2>2. \A s \in Few(n, n) : Fine(s)
    BY <2>1
  <2>. QED BY <2>1, <2>2
<1>. QED BY <1>5, <1>9

-----------------------------------------------------------------------------
(* Types: a client and what it waits for.                                    *)

Asks(c, s, r) ==
  /\ r.txnid = c /\ r.shard \in s.all_participants
  /\ r.op = s.pc /\ r.op \in Ops
  /\ r.op = "BEGIN" => s.next.op \in {"GET", "PUT"}
  /\ r.op = "ABORT" => r.shard \in s.yes_participants

(* Those whose answers the client counts.                                    *)
Counted(s) == IF s.pc = "ABORT" THEN s.yes_participants ELSE s.all_participants

Phases == {"PREPARE", "COMMIT", "ABORT"}

Talks(c, s, C, A) ==
  /\ ClientTyped(s)
  /\ s.txns <= MaxTxns /\ (s.pc # "idle" => s.txns >= 1)
  /\ \A r \in C : Asks(c, s, r)
  /\ \A r, q \in C : r.shard = q.shard \/ s.pc \in {"BEGIN", "GET", "PUT"} => r = q
  /\ \A a \in A : a.req \in C
  /\ \A a, b \in A : a.req = b.req => a = b
  /\ s.pc \in Phases => s.nreplies = Cardinality(Counted(s) \ Waiting(C))

(* What a client goes on to when it has nobody left to wait for.             *)
StartsTo(c, t, D) ==
  \/ t.pc \in {"idle", "open", "TSS"} /\ D = {}
  \/ t.pc \in Phases /\ t.nreplies = 0 /\ Broadcast(D, c, Counted(t), t.pc)
  \/ /\ t.pc \in {"BEGIN", "GET", "PUT"}
     /\ \E r : D = {r} /\ Asks(c, t, r)

LEMMA StartTalks ==
  ASSUME NEW c, NEW t, NEW D, ClientTyped(t), t.txns <= MaxTxns,
         t.pc # "idle" => t.txns >= 1, StartsTo(c, t, D)
  PROVE  Talks(c, t, D, {})
<1>1. CASE t.pc \in {"idle", "open", "TSS"} /\ D = {}
  BY <1>1 DEF Talks, Phases
<1>2. CASE t.pc \in Phases /\ t.nreplies = 0 /\ Broadcast(D, c, Counted(t), t.pc)
  <2>1. Counted(t) \ Waiting(D) = {} /\ Cardinality({}) = 0
    BY <1>2, BroadcastIs, FS_EmptySet
  <2>2. Counted(t) \subseteq t.all_participants
    BY DEF Counted, ClientTyped
  <2>3. \A r \in D : Asks(c, t, r)
    BY <1>2, <2>2 DEF Asks, Broadcast, Phases, Ops, Counted
  <2>. QED BY <1>2, <2>1, <2>3 DEF Talks, Broadcast, Phases
<1>3. CASE t.pc \in {"BEGIN", "GET", "PUT"} /\ \E r : D = {r} /\ Asks(c, t, r)
  BY <1>3 DEF Talks, Phases
<1>. QED BY <1>1, <1>2, <1>3 DEF StartsTo

LEMMA NobodyTalks ==
  ASSUME NEW c, NEW s, NEW C, NEW A, Talks(c, s, C, A), s.pc \notin Ops
  PROVE  C = {} /\ A = {}
BY DEF Talks, Asks

LEMMA OneTalks ==
  ASSUME NEW c, NEW s, NEW C, NEW A, Talks(c, s, C, A),
         s.pc \in {"BEGIN", "GET", "PUT"}, NEW a \in A
  PROVE  C \ {a.req} = {} /\ A \ {a} = {}
BY DEF Talks

(* One answer is counted.                                                    *)
LEMMA CountIs ==
  ASSUME NEW c, NEW s, NEW C, NEW A, Talks(c, s, C, A), s.pc \in Phases, NEW a \in A
  PROVE  /\ a.req.shard \in Counted(s)
         /\ s.nreplies + 1 = Cardinality(Counted(s) \ Waiting(C \ {a.req}))
         /\ a.req.shard \notin Waiting(C \ {a.req})
         /\ s.nreplies + 1 = Cardinality(Counted(s)) =>
              C \ {a.req} = {} /\ A \ {a} = {}
<1>. DEFINE S == Counted(s)
            W == Waiting(C)
            x == a.req.shard
            D == C \ {a.req}
<1>1. S \subseteq Shards
  BY DEF Talks, ClientTyped, Counted
<1>2. W \subseteq S
  BY DEF Talks, Asks, Waiting, Counted, Phases
<1>3. a.req \in C /\ x \in W
  BY DEF Talks, Waiting
<1>4. Waiting(D) = W \ {x}
  BY <1>3 DEF Talks, Waiting
<1>5. Waiting(D) = {} => D = {} /\ A \ {a} = {}
  BY DEF Talks, Waiting
<1>6. s.nreplies = Cardinality(S \ W)
  BY DEF Talks
<1>. HIDE DEF S, W, x, D
<1>7. /\ Cardinality(S \ (W \ {x})) = Cardinality(S \ W) + 1
      /\ Cardinality(S \ (W \ {x})) = Cardinality(S) => W \ {x} = {}
  BY <1>1, <1>2, <1>3, OneLess
<1>8. s.nreplies + 1 = Cardinality(S \ Waiting(D))
  BY <1>4, <1>6, <1>7
<1>9. s.nreplies + 1 = Cardinality(S) => D = {} /\ A \ {a} = {}
  BY <1>4, <1>5, <1>7, <1>8
<1>10. x \in S /\ x \notin Waiting(D)
  BY <1>2, <1>3, <1>4
<1>. QED BY <1>8, <1>9, <1>10 DEF S, x, D

LEMMA CountTalks ==
  ASSUME NEW c, NEW s, NEW C, NEW A, Talks(c, s, C, A), s.pc \in Phases, NEW a \in A,
         NEW t, GoesOn(s, t), t.pc = s.pc, t.nreplies = s.nreplies + 1,
         t.all_participants = s.all_participants,
         \/ t.yes_participants = s.yes_participants
         \/ s.pc = "PREPARE" /\ t.yes_participants = s.yes_participants \cup {a.req.shard}
  PROVE  Talks(c, t, C \ {a.req}, A \ {a})
<1>1. /\ a.req.shard \in Counted(s)
      /\ s.nreplies + 1 = Cardinality(Counted(s) \ Waiting(C \ {a.req}))
  BY CountIs
<1>2. Counted(t) = Counted(s)
  BY DEF Counted
<1>3. ClientTyped(t)
  BY <1>1 DEF Talks, ClientTyped, GoesOn, Counted
<1>4. \A r \in C \ {a.req} : Asks(c, t, r)
  BY DEF Talks, Asks, Phases
<1>5. /\ \A r, q \in C \ {a.req} :
           r.shard = q.shard \/ t.pc \in {"BEGIN", "GET", "PUT"} => r = q
      /\ \A b \in A \ {a} : b.req \in C \ {a.req}
      /\ \A b, d \in A \ {a} : b.req = d.req => b = d
  BY DEF Talks
<1>6. t.txns <= MaxTxns /\ (t.pc # "idle" => t.txns >= 1)
  BY DEF Talks, GoesOn
<1>7. t.pc \in Phases => t.nreplies = Cardinality(Counted(t) \ Waiting(C \ {a.req}))
  BY <1>1, <1>2
<1>. QED BY <1>3, <1>4, <1>5, <1>6, <1>7 DEF Talks

-----------------------------------------------------------------------------
(* Types: the client's operations.                                           *)

AllTalk ==
  /\ DOMAIN client = Clients
  /\ \A r \in calls : r.txnid \in Clients
  /\ \A a \in replies : a.req \in calls
  /\ \A c \in Clients : Talks(c, client[c], MyCalls(c), MyAnswers(c))

(* What a client has decided stays so.                                       *)
StillDecided(s, t) == \A txn \in Nat : Decided(s, txn) => Decided(t, txn)

Turn(c, t, D, B) ==
  /\ StepOf(c, t, D, B) /\ Talks(c, t, D, B) /\ StillDecided(client[c], t)

Turns(c) == \E t, D, B : Turn(c, t, D, B)

LEMMA MyTalk ==
  ASSUME AllTalk, NEW c \in Clients
  PROVE  /\ Talks(c, client[c], MyCalls(c), MyAnswers(c))
         /\ DOMAIN client[c] = ClientFields /\ client[c].pc \in Pcs
         /\ client[c].txns \in Nat /\ client[c].sent \in Nat
         /\ client[c].nreplies \in Nat
         /\ client[c].all_participants \subseteq Shards
         /\ client[c].yes_participants \subseteq client[c].all_participants
         /\ client[c].txns <= MaxTxns
         /\ client[c].pc # "idle" => client[c].txns >= 1
BY DEF AllTalk, Talks, ClientTyped

(* A transaction that is not decided yet is not in what has been.            *)
LEMMA NotYetDecided ==
  ASSUME NEW s, s.txns \in Nat, s.pc \notin {"COMMIT", "idle"}, NEW t, t.txns = s.txns
  PROVE  StillDecided(s, t)
BY DEF StillDecided, Decided

LEMMA SendsTurn ==
  ASSUME AllTalk, NEW c \in Clients, client[c].pc \notin Ops,
         NEW q, NEW R, Sends(c, q, R), shard' = shard, mode' = mode,
         NEW t, t = [q EXCEPT !.sent = @ + 1], ClientTyped(t), t.txns <= MaxTxns,
         t.pc # "idle" => t.txns >= 1, StartsTo(c, t, R),
         StillDecided(client[c], t)
  PROVE  Turns(c)
<1>1. MyCalls(c) = {} /\ MyAnswers(c) = {}
  BY MyTalk, NobodyTalks
<1>2. StepOf(c, t, MyCalls(c) \cup R, MyAnswers(c))
  BY SendsIs
<1>3. Talks(c, t, R, {})
  BY StartTalks
<1>4. MyCalls(c) \cup R = R
  BY <1>1
<1>5. Turn(c, t, R, {})
  BY <1>1, <1>2, <1>3, <1>4 DEF Turn
<1>. QED BY <1>5 DEF Turns

LEMMA AnswerTo ==
  ASSUME AllTalk, NEW c \in Clients, NEW op, NEW a \in Answers(c, op)
  PROVE  /\ a \in replies /\ a \in MyAnswers(c) /\ a.req.txnid = c /\ a.req \in calls
         /\ client[c].pc = op /\ a.req.op = op /\ Asks(c, client[c], a.req)
<1>1. a \in replies /\ a \in MyAnswers(c) /\ a.req.txnid = c /\ a.req.op = op
  BY DEF Answers, MyAnswers
<1>2. a.req \in calls /\ a.req \in MyCalls(c)
  BY <1>1 DEF AllTalk, MyCalls
<1>3. Asks(c, client[c], a.req)
  BY <1>2, MyTalk DEF Talks
<1>. QED BY <1>1, <1>2, <1>3 DEF Asks

(* The last answer is accepted.                                              *)
LEMMA AcceptsTurn ==
  ASSUME AllTalk, NEW c \in Clients, NEW op, NEW a \in Answers(c, op),
         MyCalls(c) \ {a.req} = {}, MyAnswers(c) \ {a} = {},
         NEW q, NEW R, Accepts(c, a, q, R), shard' = shard, mode' = mode,
         NEW t, t = [q EXCEPT !.sent = @ + 1], ClientTyped(t), t.txns <= MaxTxns,
         t.pc # "idle" => t.txns >= 1, StartsTo(c, t, R),
         StillDecided(client[c], t)
  PROVE  Turns(c)
<1>1. a \in replies /\ a.req.txnid = c /\ a.req \in calls
  BY AnswerTo
<1>2. StepOf(c, t, (MyCalls(c) \ {a.req}) \cup R, MyAnswers(c) \ {a})
  BY <1>1, AcceptsIs
<1>3. Talks(c, t, R, {})
  BY StartTalks
<1>4. (MyCalls(c) \ {a.req}) \cup R = R
  OBVIOUS
<1>5. Turn(c, t, R, {})
  BY <1>2, <1>3, <1>4 DEF Turn
<1>. QED BY <1>5 DEF Turns

LEMMA BeginTurns ==
  ASSUME AllTalk, NEW c \in Clients, Begin(c)
  PROVE  Turns(c)
<1>. DEFINE q == [IdleClient EXCEPT !.pc = "open", !.sent = client[c].sent,
                                    !.txns = client[c].txns + 1]
            t == [q EXCEPT !.sent = @ + 1]
<1>1. /\ client[c].pc = "idle" /\ client[c].txns < MaxTxns /\ Sends(c, q, {})
      /\ shard' = shard /\ mode' = mode
  BY DEF Begin
<1>2. client[c].txns \in Nat /\ client[c].sent \in Nat
  BY MyTalk
<1>3. /\ DOMAIN t = ClientFields /\ t.pc = "open" /\ t.txns = client[c].txns + 1
      /\ t.sent \in Nat /\ t.nreplies = 0
      /\ t.all_participants = {} /\ t.yes_participants = {}
  BY <1>2 DEF IdleClient, ClientFields
<1>4. t = [q EXCEPT !.sent = @ + 1]
  OBVIOUS
<1>. HIDE DEF q, t
<1>5. ClientTyped(t)
  BY <1>2, <1>3 DEF ClientTyped, Pcs
<1>6. t.txns <= MaxTxns /\ t.txns >= 1
  BY <1>1, <1>2, <1>3, BoundsAssumption
<1>7. StillDecided(client[c], t)
  BY <1>2, <1>3 DEF StillDecided, Decided
<1>8. StartsTo(c, t, {})
  BY <1>3 DEF StartsTo
<1>. QED BY <1>1, <1>4, <1>5, <1>6, <1>7, <1>8, SendsTurn DEF Ops

LEMMA OperateTurns ==
  ASSUME AllTalk, NEW c \in Clients, NEW op \in {"GET", "PUT"}, NEW key \in Keys,
         NEW value, Operate(c, op, key, value)
  PROVE  Turns(c)
<1>. DEFINE i == key_to_shard(key)
            s == [client[c] EXCEPT !.ops = @ + 1]
<1>1. client[c].pc = "open" /\ shard' = shard /\ mode' = mode
  BY DEF Operate
<1>2. /\ DOMAIN client[c] = ClientFields /\ client[c].txns \in Nat
      /\ client[c].sent \in Nat /\ client[c].nreplies \in Nat
      /\ client[c].all_participants \subseteq Shards
      /\ client[c].yes_participants \subseteq client[c].all_participants
      /\ client[c].txns <= MaxTxns /\ client[c].txns >= 1
  BY <1>1, MyTalk
<1>3. i \in Shards
  BY ShardOfKey
<1>4. CASE i \in s.all_participants /\ Sends(c, [s EXCEPT !.pc = op],
                                              {Request(c, s, i, op, key, value)})
  <2>. DEFINE q == [s EXCEPT !.pc = op]
              t == [q EXCEPT !.sent = @ + 1]
              r == Request(c, s, i, op, key, value)
  <2>1. /\ GoesOn(client[c], t) /\ t.pc = op /\ t.nreplies = client[c].nreplies
        /\ t.all_participants = client[c].all_participants
        /\ t.yes_participants = client[c].yes_participants
        /\ i \in client[c].all_participants /\ t = [q EXCEPT !.sent = @ + 1]
    BY <1>2, <1>4 DEF ClientFields, GoesOn
  <2>2. r.txnid = c /\ r.shard = i /\ r.op = op /\ Sends(c, q, {r})
    BY <1>4 DEF Request
  <2>. HIDE DEF t, r, q, s, i
  <2>3. ClientTyped(t)
    BY <1>2, <2>1 DEF ClientTyped, GoesOn, Pcs, Ops
  <2>4. StartsTo(c, t, {r})
    BY <2>1, <2>2 DEF StartsTo, Asks, Ops
  <2>5. StillDecided(client[c], t)
    BY <1>1, <1>2, <2>1, NotYetDecided DEF GoesOn
  <2>6. t.txns <= MaxTxns /\ t.txns >= 1
    BY <1>2, <2>1 DEF GoesOn
  <2>. QED BY <1>1, <2>1, <2>2, <2>3, <2>4, <2>5, <2>6, SendsTurn DEF Ops
<1>5. CASE /\ i \notin s.all_participants
           /\ Sends(c, [s EXCEPT !.pc = "BEGIN",
                           !.all_participants = @ \cup {i},
                           !.next = [op |-> op, arg0 |-> key, arg1 |-> value]],
                     {Request(c, s, i, "BEGIN", 0, NoValue)})
  <2>. DEFINE q == [s EXCEPT !.pc = "BEGIN",
                           !.all_participants = @ \cup {i},
                           !.next = [op |-> op, arg0 |-> key, arg1 |-> value]]
              t == [q EXCEPT !.sent = @ + 1]
              r == Request(c, s, i, "BEGIN", 0, NoValue)
  <2>1. /\ GoesOn(client[c], t) /\ t.pc = "BEGIN" /\ t.nreplies = client[c].nreplies
        /\ t.next.op = op
        /\ t.all_participants = client[c].all_participants \cup {i}
        /\ t.yes_participants = client[c].yes_participants
        /\ t = [q EXCEPT !.sent = @ + 1]
    BY <1>2 DEF ClientFields, GoesOn
  <2>2. r.txnid = c /\ r.shard = i /\ r.op = "BEGIN" /\ Sends(c, q, {r})
    BY <1>5 DEF Request
  <2>. HIDE DEF t, r, q, s, i
  <2>3. ClientTyped(t)
    BY <1>2, <1>3, <2>1 DEF ClientTyped, GoesOn, Pcs, Ops
  <2>4. StartsTo(c, t, {r})
    BY <2>1, <2>2 DEF StartsTo, Asks, Ops
  <2>5. StillDecided(client[c], t)
    BY <1>1, <1>2, <2>1, NotYetDecided DEF GoesOn
  <2>6. t.txns <= MaxTxns /\ t.txns >= 1
    BY <1>2, <2>1 DEF GoesOn
  <2>. QED BY <1>1, <2>1, <2>2, <2>3, <2>4, <2>5, <2>6, SendsTurn DEF Ops
<1>. QED BY <1>4, <1>5 DEF Operate

LEMMA BegunTurns ==
  ASSUME AllTalk, NEW c \in Clients, beginCallback(c)
  PROVE  Turns(c)
<1>. DEFINE s == client[c]
            q == [s EXCEPT !.pc = s.next.op, !.next = NoOp]
            t == [q EXCEPT !.sent = @ + 1]
<1>1. PICK a \in Answers(c, "BEGIN") :
        /\ Accepts(c, a, q, {Request(c, s, a.req.shard, s.next.op, s.next.arg0,
                                     s.next.arg1)})
        /\ mode' = mode /\ shard' = shard
  BY DEF beginCallback
<1>. DEFINE r == Request(c, s, a.req.shard, s.next.op, s.next.arg0, s.next.arg1)
<1>2. /\ s.pc = "BEGIN" /\ a \in MyAnswers(c) /\ a.req.op = "BEGIN"
      /\ Asks(c, s, a.req)
  BY AnswerTo
<1>3. /\ Talks(c, s, MyCalls(c), MyAnswers(c)) /\ DOMAIN s = ClientFields
      /\ s.txns \in Nat /\ s.sent \in Nat /\ s.nreplies \in Nat
      /\ s.all_participants \subseteq Shards
      /\ s.yes_participants \subseteq s.all_participants
      /\ s.txns <= MaxTxns /\ s.txns >= 1
  BY <1>2, MyTalk
<1>4. MyCalls(c) \ {a.req} = {} /\ MyAnswers(c) \ {a} = {}
  BY <1>2, <1>3, OneTalks
<1>5. s.next.op \in {"GET", "PUT"} /\ a.req.shard \in s.all_participants
  BY <1>2 DEF Asks
<1>6. /\ GoesOn(s, t) /\ t.pc = s.next.op /\ t.nreplies = s.nreplies
      /\ t.all_participants = s.all_participants
      /\ t.yes_participants = s.yes_participants /\ t = [q EXCEPT !.sent = @ + 1]
  BY <1>3 DEF ClientFields, GoesOn
<1>7. /\ r.txnid = c /\ r.shard = a.req.shard /\ r.op = s.next.op
      /\ Accepts(c, a, q, {r})
  BY <1>1 DEF Request
<1>. HIDE DEF q, t, r
<1>8. ClientTyped(t)
  BY <1>3, <1>5, <1>6 DEF ClientTyped, GoesOn, Pcs, Ops
<1>9. StartsTo(c, t, {r})
  BY <1>5, <1>6, <1>7 DEF StartsTo, Asks, Ops
<1>10. StillDecided(client[c], t)
  BY <1>2, <1>3, <1>6, NotYetDecided DEF GoesOn
<1>11. t.txns <= MaxTxns /\ t.txns >= 1
  BY <1>3, <1>6 DEF GoesOn
<1>. QED BY <1>1, <1>4, <1>6, <1>7, <1>8, <1>9, <1>10, <1>11, AcceptsTurn

(* A read or a write has been answered.                                      *)
LEMMA OperatedTurns ==
  ASSUME AllTalk, NEW c \in Clients, getCallback(c) \/ putCallback(c)
  PROVE  Turns(c)
<1>. DEFINE s == client[c]
            Goes(q) ==
              \/ \E status, reads : q = [s EXCEPT !.pc = "open", !.status = status,
                                                 !.reads = reads]
              \/ \E puts : q = [s EXCEPT !.pc = "open", !.puts = puts]
            Opens(a, q) ==
              Accepts(c, a, q, {}) /\ mode' = mode /\ shard' = shard /\ Goes(q)
<1>1. PICK op \in {"GET", "PUT"} : \E a \in Answers(c, op) : \E q : Opens(a, q)
  <2>1. CASE getCallback(c)
    <3>1. PICK a \in Answers(c, "GET") :
            \E status, reads :
              /\ Accepts(c, a, [s EXCEPT !.pc = "open", !.status = status,
                                         !.reads = reads], {})
              /\ mode' = mode /\ shard' = shard
      BY <2>1 DEF getCallback
    <3>2. \E q : Opens(a, q)
      BY <3>1
    <3>. HIDE DEF Opens
    <3>. QED BY <3>2
  <2>2. CASE putCallback(c)
    <3>1. PICK a \in Answers(c, "PUT") :
            \E puts :
              /\ Accepts(c, a, [s EXCEPT !.pc = "open", !.puts = puts], {})
              /\ mode' = mode /\ shard' = shard
      BY <2>2 DEF putCallback
    <3>2. \E q : Opens(a, q)
      BY <3>1
    <3>. HIDE DEF Opens
    <3>. QED BY <3>2
  <2>. HIDE DEF Opens
  <2>. QED BY <2>1, <2>2
<1>2. PICK a \in Answers(c, op) : \E q : Opens(a, q)
  BY <1>1
<1>3. PICK q : Opens(a, q)
  BY <1>2
<1>4. s.pc \in {"GET", "PUT"} /\ a \in MyAnswers(c)
  BY AnswerTo
<1>5. /\ Talks(c, s, MyCalls(c), MyAnswers(c)) /\ DOMAIN s = ClientFields
      /\ s.txns \in Nat /\ s.sent \in Nat /\ s.nreplies \in Nat
      /\ s.all_participants \subseteq Shards
      /\ s.yes_participants \subseteq s.all_participants
      /\ s.txns <= MaxTxns /\ s.txns >= 1
  BY <1>4, MyTalk
<1>6. MyCalls(c) \ {a.req} = {} /\ MyAnswers(c) \ {a} = {}
  BY <1>4, <1>5, OneTalks
<1>. DEFINE t == [q EXCEPT !.sent = @ + 1]
<1>7. /\ DOMAIN q = ClientFields /\ q.pc = "open" /\ q.nreplies = s.nreplies
      /\ q.all_participants = s.all_participants
      /\ q.yes_participants = s.yes_participants
      /\ q.txns = s.txns /\ q.sent = s.sent
  BY <1>3, <1>5 DEF ClientFields
<1>8. /\ GoesOn(s, t) /\ t.pc = "open" /\ t.nreplies = s.nreplies
      /\ t.all_participants = s.all_participants
      /\ t.yes_participants = s.yes_participants /\ t = [q EXCEPT !.sent = @ + 1]
  BY <1>5, <1>7 DEF ClientFields, GoesOn
<1>. HIDE DEF t
<1>9. ClientTyped(t)
  BY <1>5, <1>8 DEF ClientTyped, GoesOn, Pcs
<1>10. StartsTo(c, t, {})
  BY <1>8 DEF StartsTo
<1>11. StillDecided(client[c], t)
  BY <1>4, <1>5, <1>8, NotYetDecided DEF GoesOn
<1>12. t.txns <= MaxTxns /\ t.txns >= 1
  BY <1>5, <1>8 DEF GoesOn
<1>. QED BY <1>3, <1>6, <1>8, <1>9, <1>10, <1>11, <1>12, AcceptsTurn

(* Everyone is asked, or told to commit.                                     *)
LEMMA AsksTurns ==
  ASSUME AllTalk, NEW c \in Clients, Commit(c) \/ tssCallback(c)
  PROVE  Turns(c)
<1>. DEFINE s == client[c]
<1>1. PICK pc \in {"PREPARE", "COMMIT"} : \E q, arg0 :
        /\ Sends(c, q, ToAll(c, s, s.all_participants, pc, arg0))
        /\ mode' = mode /\ shard' = shard /\ s.pc \in {"open", "TSS"}
        /\ \/ q = [s EXCEPT !.pc = pc, !.nreplies = 0, !.status = TRUE]
           \/ q = [s EXCEPT !.pc = pc, !.nreplies = 0]
  <2>1. CASE Commit(c)
    <3>1. /\ Sends(c, [s EXCEPT !.pc = "PREPARE", !.nreplies = 0, !.status = TRUE],
                   ToAll(c, s, s.all_participants, "PREPARE", 0))
          /\ mode' = mode /\ shard' = shard /\ s.pc \in {"open", "TSS"}
      BY <2>1 DEF Commit
    <3>. QED BY <3>1
  <2>2. CASE tssCallback(c)
    <3>1. /\ Sends(c, [s EXCEPT !.pc = "COMMIT", !.nreplies = 0],
                   ToAll(c, s, s.all_participants, "COMMIT", ts'))
          /\ mode' = mode /\ shard' = shard /\ s.pc \in {"open", "TSS"}
      BY <2>2 DEF tssCallback
    <3>. QED BY <3>1
  <2>. QED BY <2>1, <2>2
<1>2. PICK q, arg0 :
        /\ Sends(c, q, ToAll(c, s, s.all_participants, pc, arg0))
        /\ mode' = mode /\ shard' = shard /\ s.pc \in {"open", "TSS"}
        /\ \/ q = [s EXCEPT !.pc = pc, !.nreplies = 0, !.status = TRUE]
           \/ q = [s EXCEPT !.pc = pc, !.nreplies = 0]
  BY <1>1
<1>3. /\ DOMAIN s = ClientFields
      /\ s.txns \in Nat /\ s.sent \in Nat
      /\ s.all_participants \subseteq Shards
      /\ s.yes_participants \subseteq s.all_participants
      /\ s.txns <= MaxTxns /\ s.txns >= 1
  BY <1>2, MyTalk
<1>. DEFINE t == [q EXCEPT !.sent = @ + 1]
            D == ToAll(c, s, s.all_participants, pc, arg0)
<1>4. /\ DOMAIN q = ClientFields /\ q.pc = pc /\ q.nreplies = 0
      /\ q.all_participants = s.all_participants
      /\ q.yes_participants = s.yes_participants
      /\ q.txns = s.txns /\ q.sent = s.sent
  BY <1>2, <1>3 DEF ClientFields
<1>5. /\ GoesOn(s, t) /\ t.pc = pc /\ t.nreplies = 0
      /\ t.all_participants = s.all_participants
      /\ t.yes_participants = s.yes_participants /\ t = [q EXCEPT !.sent = @ + 1]
  BY <1>3, <1>4 DEF ClientFields, GoesOn
<1>6. Broadcast(D, c, s.all_participants, pc)
  BY ToAllIs
<1>7. Sends(c, q, D)
  BY <1>2
<1>. HIDE DEF t, D
<1>8. ClientTyped(t)
  BY <1>3, <1>5 DEF ClientTyped, GoesOn, Pcs, Ops
<1>9. StartsTo(c, t, D)
  BY <1>5, <1>6 DEF StartsTo, Counted, Phases
<1>10. StillDecided(client[c], t)
  BY <1>2, <1>3, <1>5, NotYetDecided DEF GoesOn
<1>11. t.txns <= MaxTxns /\ t.txns >= 1
  BY <1>3, <1>5 DEF GoesOn
<1>12. client[c].pc \notin Ops
  BY <1>2 DEF Ops
<1>. QED BY <1>2, <1>5, <1>7, <1>8, <1>9, <1>10, <1>11, <1>12, SendsTurn

(* Those who have voted yes are told of the abort.                           *)
LEMMA AbortStarts ==
  ASSUME NEW c, NEW s, DOMAIN s = ClientFields, s.txns \in Nat, s.sent \in Nat,
         s.all_participants \subseteq Shards,
         s.yes_participants \subseteq s.all_participants, s.txns <= MaxTxns,
         s.txns >= 1, s.pc \notin {"COMMIT", "idle"},
         NEW t, t = [AbortTo(s) EXCEPT !.sent = @ + 1]
  PROVE  /\ ClientTyped(t) /\ t.txns <= MaxTxns /\ (t.pc # "idle" => t.txns >= 1)
         /\ StartsTo(c, t, Aborts(c, s)) /\ StillDecided(s, t)
<1>1. /\ GoesOn(s, t) /\ t.nreplies = 0
      /\ t.pc = IF s.yes_participants = {} THEN "idle" ELSE "ABORT"
      /\ t.all_participants = s.all_participants
      /\ t.yes_participants = s.yes_participants
  BY DEF ClientFields, GoesOn, AbortTo
<1>2. Broadcast(Aborts(c, s), c, s.yes_participants, "ABORT")
  BY ToAllIs DEF Aborts
<1>. HIDE DEF AbortTo, Aborts
<1>3. ClientTyped(t)
  BY <1>1 DEF ClientTyped, GoesOn, Pcs, Ops
<1>4. StartsTo(c, t, Aborts(c, s))
  <2>1. CASE s.yes_participants = {}
    <3>1. Aborts(c, s) = {}
      BY <1>2, <2>1 DEF Broadcast
    <3>. QED BY <1>1, <2>1, <3>1 DEF StartsTo
  <2>2. CASE s.yes_participants # {}
    BY <1>1, <1>2, <2>2 DEF StartsTo, Counted, Phases
  <2>. QED BY <2>1, <2>2
<1>5. StillDecided(s, t)
  BY <1>1, NotYetDecided DEF GoesOn
<1>. QED BY <1>1, <1>3, <1>4, <1>5 DEF GoesOn

LEMMA AbortTurns ==
  ASSUME AllTalk, NEW c \in Clients, Abort(c)
  PROVE  Turns(c)
<1>1. /\ client[c].pc = "open" /\ Sends(c, AbortTo(client[c]), Aborts(c, client[c]))
      /\ mode' = mode /\ shard' = shard
  BY DEF Abort
<1>. DEFINE t == [AbortTo(client[c]) EXCEPT !.sent = @ + 1]
<1>2. /\ ClientTyped(t) /\ t.txns <= MaxTxns /\ (t.pc # "idle" => t.txns >= 1)
      /\ StartsTo(c, t, Aborts(c, client[c])) /\ StillDecided(client[c], t)
  BY <1>1, MyTalk, AbortStarts
<1>. QED BY <1>1, <1>2, SendsTurn DEF Ops

(* A vote, or the end of the second phase at a shard, is counted.            *)
LEMMA CountTurns ==
  ASSUME AllTalk, NEW c \in Clients, NEW op \in Phases, NEW a \in Answers(c, op),
         NEW q, Accepts(c, a, q, {}), shard' = shard, mode' = mode,
         NEW t, t = [q EXCEPT !.sent = @ + 1], GoesOn(client[c], t), t.pc = op,
         t.nreplies = client[c].nreplies + 1,
         t.all_participants = client[c].all_participants,
         \/ t.yes_participants = client[c].yes_participants
         \/ /\ op = "PREPARE"
            /\ t.yes_participants = client[c].yes_participants \cup {a.req.shard}
  PROVE  Turns(c)
<1>1. /\ a \in replies /\ a \in MyAnswers(c) /\ a.req.txnid = c /\ a.req \in calls
      /\ client[c].pc = op
  BY AnswerTo
<1>2. Talks(c, t, MyCalls(c) \ {a.req}, MyAnswers(c) \ {a})
  BY <1>1, MyTalk, CountTalks
<1>3. StepOf(c, t, (MyCalls(c) \ {a.req}) \cup {}, MyAnswers(c) \ {a})
  BY <1>1, AcceptsIs
<1>4. StillDecided(client[c], t)
  <2>1. CASE op = "COMMIT"
    BY <1>1, <2>1 DEF StillDecided, Decided, GoesOn
  <2>2. CASE op # "COMMIT"
    BY <1>1, <2>2, MyTalk, NotYetDecided DEF GoesOn, Phases
  <2>. QED BY <2>1, <2>2
<1>5. (MyCalls(c) \ {a.req}) \cup {} = MyCalls(c) \ {a.req}
  OBVIOUS
<1>6. Turn(c, t, MyCalls(c) \ {a.req}, MyAnswers(c) \ {a})
  BY <1>2, <1>3, <1>4, <1>5 DEF Turn
<1>. QED BY <1>6 DEF Turns

LEMMA VoteTurns ==
  ASSUME AllTalk, NEW c \in Clients, prepareCallback(c)
  PROVE  Turns(c)
<1>1. PICK a \in Answers(c, "PREPARE") :
        LET yes == a.status >= 0
            s   == [client[c] EXCEPT
                      !.nreplies = @ + 1, !.status = @ /\ yes,
                      !.yes_participants = IF yes THEN @ \cup {a.req.shard} ELSE @]
            last == s.nreplies = Cardinality(s.all_participants)
        IN  /\ \/ /\ ~last
                  /\ Accepts(c, a, s, {})
               \/ /\ last /\ s.status
                  /\ Accepts(c, a, [s EXCEPT !.pc = "TSS"], {})
               \/ /\ last /\ ~s.status
                  /\ Accepts(c, a, AbortTo(s), Aborts(c, s))
            /\ UNCHANGED <<mode, shard, ts, rollbacks, history>>
  BY DEF prepareCallback
<1>. DEFINE yes == a.status >= 0
            s == client[c]
            u == [client[c] EXCEPT
                    !.nreplies = @ + 1, !.status = @ /\ yes,
                    !.yes_participants = IF yes THEN @ \cup {a.req.shard} ELSE @]
            last == u.nreplies = Cardinality(u.all_participants)
<1>2. /\ mode' = mode /\ shard' = shard
      /\ \/ ~last /\ Accepts(c, a, u, {})
         \/ last /\ Accepts(c, a, [u EXCEPT !.pc = "TSS"], {})
         \/ last /\ Accepts(c, a, AbortTo(u), Aborts(c, u))
  BY <1>1
<1>3. /\ a \in MyAnswers(c) /\ s.pc = "PREPARE" /\ a.req.shard \in s.all_participants
  BY AnswerTo DEF Asks
<1>4. /\ Talks(c, s, MyCalls(c), MyAnswers(c)) /\ DOMAIN s = ClientFields
      /\ s.txns \in Nat /\ s.sent \in Nat /\ s.nreplies \in Nat
      /\ s.all_participants \subseteq Shards
      /\ s.yes_participants \subseteq s.all_participants
      /\ s.txns <= MaxTxns /\ s.txns >= 1
  BY <1>3, MyTalk
<1>5. /\ DOMAIN u = ClientFields /\ u.pc = "PREPARE" /\ u.nreplies = s.nreplies + 1
      /\ u.yes_participants = IF a.status >= 0
                              THEN s.yes_participants \cup {a.req.shard}
                              ELSE s.yes_participants
      /\ u.all_participants = s.all_participants
      /\ u.txns = s.txns /\ u.sent = s.sent
  BY <1>3, <1>4 DEF ClientFields
<1>. HIDE DEF u
<1>6. u.yes_participants \subseteq u.all_participants /\ u.txns >= 1
  BY <1>3, <1>4, <1>5
<1>7. ASSUME last
      PROVE  MyCalls(c) \ {a.req} = {} /\ MyAnswers(c) \ {a} = {}
  <2>1. s.nreplies + 1 = Cardinality(Counted(s))
    BY <1>3, <1>5, <1>7 DEF Counted
  <2>. QED BY <1>3, <1>4, <2>1, CountIs DEF Phases
<1>8. CASE ~last /\ Accepts(c, a, u, {})
  <2>. DEFINE t == [u EXCEPT !.sent = @ + 1]
  <2>1. /\ GoesOn(s, t) /\ t.pc = "PREPARE" /\ t.nreplies = s.nreplies + 1
        /\ t.all_participants = s.all_participants
        /\ t.yes_participants = u.yes_participants /\ t = [u EXCEPT !.sent = @ + 1]
    BY <1>4, <1>5 DEF ClientFields, GoesOn
  <2>. HIDE DEF t
  <2>. QED BY <1>2, <1>5, <1>8, <2>1, CountTurns DEF Phases
<1>9. CASE last /\ Accepts(c, a, [u EXCEPT !.pc = "TSS"], {})
  <2>. DEFINE q == [u EXCEPT !.pc = "TSS"]
              t == [q EXCEPT !.sent = @ + 1]
  <2>1. /\ GoesOn(s, t) /\ t.pc = "TSS" /\ t.nreplies \in Nat
        /\ t.all_participants = u.all_participants
        /\ t.yes_participants = u.yes_participants /\ t = [q EXCEPT !.sent = @ + 1]
    BY <1>4, <1>5 DEF ClientFields, GoesOn
  <2>2. Accepts(c, a, q, {})
    BY <1>9
  <2>. HIDE DEF q, t
  <2>3. ClientTyped(t)
    BY <1>4, <1>5, <1>6, <2>1 DEF ClientTyped, GoesOn, Pcs
  <2>4. StartsTo(c, t, {}) /\ StillDecided(s, t) /\ t.txns <= MaxTxns /\ t.txns >= 1
    <3>1. StillDecided(s, t)
      BY <1>3, <1>4, <2>1, NotYetDecided DEF GoesOn
    <3>. QED BY <1>4, <2>1, <3>1 DEF StartsTo, GoesOn
  <2>. QED BY <1>2, <1>7, <1>9, <2>1, <2>2, <2>3, <2>4, AcceptsTurn
<1>10. CASE last /\ Accepts(c, a, AbortTo(u), Aborts(c, u))
  <2>. DEFINE q == AbortTo(u)
              t == [q EXCEPT !.sent = @ + 1]
  <2>1. t = [AbortTo(u) EXCEPT !.sent = @ + 1] /\ Accepts(c, a, q, Aborts(c, u))
    BY <1>10
  <2>. HIDE DEF q, t
  <2>2. /\ ClientTyped(t) /\ t.txns <= MaxTxns /\ (t.pc # "idle" => t.txns >= 1)
        /\ StartsTo(c, t, Aborts(c, u)) /\ StillDecided(u, t)
    BY <1>4, <1>5, <1>6, <2>1, AbortStarts
  <2>3. StillDecided(s, t)
    BY <1>3, <1>5, <2>2 DEF StillDecided, Decided
  <2>. QED BY <1>2, <1>7, <1>10, <2>1, <2>2, <2>3, AcceptsTurn DEF q
<1>. QED BY <1>2, <1>8, <1>9, <1>10

LEMMA DoneTurns ==
  ASSUME AllTalk, NEW c \in Clients, commitCallback(c) \/ abortCallback(c)
  PROVE  Turns(c)
<1>. DEFINE s == client[c]
            u == [s EXCEPT !.nreplies = @ + 1]
            n == Cardinality(Counted(s))
            q == IF u.nreplies = n THEN [u EXCEPT !.pc = "idle"] ELSE u
<1>1. DOMAIN s = ClientFields
  BY MyTalk
<1>2. /\ DOMAIN u = ClientFields /\ u.nreplies = s.nreplies + 1 /\ u.pc = s.pc
      /\ u.txns = s.txns /\ u.sent = s.sent
      /\ u.yes_participants = s.yes_participants
      /\ u.all_participants = s.all_participants
  BY <1>1 DEF ClientFields
<1>3. PICK op \in {"COMMIT", "ABORT"} : \E a \in Answers(c, op) :
        Accepts(c, a, q, {}) /\ mode' = mode /\ shard' = shard
  <2>1. CASE commitCallback(c)
    <3>1. PICK a \in Answers(c, "COMMIT") :
            /\ Accepts(c, a, IF u.nreplies = Cardinality(u.all_participants)
                             THEN [u EXCEPT !.pc = "idle"] ELSE u, {})
            /\ UNCHANGED <<mode, shard, ts, rollbacks, history>>
      BY <2>1 DEF commitCallback
    <3>2. s.pc = "COMMIT"
      BY <3>1, AnswerTo
    <3>. HIDE DEF u
    <3>3. n = Cardinality(u.all_participants)
      BY <1>2, <3>2 DEF Counted
    <3>. QED BY <3>1, <3>3
  <2>2. CASE abortCallback(c)
    <3>1. PICK a \in Answers(c, "ABORT") :
            /\ Accepts(c, a, IF u.nreplies = Cardinality(u.yes_participants)
                             THEN [u EXCEPT !.pc = "idle"] ELSE u, {})
            /\ UNCHANGED <<mode, shard, ts, rollbacks, history>>
      BY <2>2 DEF abortCallback
    <3>2. s.pc = "ABORT"
      BY <3>1, AnswerTo
    <3>. HIDE DEF u
    <3>3. n = Cardinality(u.yes_participants)
      BY <1>2, <3>2 DEF Counted
    <3>. QED BY <3>1, <3>3
  <2>. QED BY <2>1, <2>2
<1>4. PICK a \in Answers(c, op) :
        Accepts(c, a, q, {}) /\ mode' = mode /\ shard' = shard
  BY <1>3
<1>5. a \in MyAnswers(c) /\ s.pc = op
  BY AnswerTo
<1>6. /\ Talks(c, s, MyCalls(c), MyAnswers(c))
      /\ s.txns \in Nat /\ s.sent \in Nat /\ s.nreplies \in Nat
      /\ s.all_participants \subseteq Shards
      /\ s.yes_participants \subseteq s.all_participants
      /\ s.txns <= MaxTxns /\ s.txns >= 1
  BY <1>5, MyTalk
<1>7. q = IF u.nreplies = n THEN [u EXCEPT !.pc = "idle"] ELSE u
  OBVIOUS
<1>. DEFINE t == [q EXCEPT !.sent = @ + 1]
<1>. HIDE DEF u, n
<1>8. /\ DOMAIN q = ClientFields /\ q.nreplies = s.nreplies + 1
      /\ q.pc = (IF u.nreplies = n THEN "idle" ELSE op)
      /\ q.txns = s.txns /\ q.sent = s.sent
      /\ q.yes_participants = s.yes_participants
      /\ q.all_participants = s.all_participants
  BY <1>2, <1>5, <1>7 DEF ClientFields
<1>. HIDE DEF q
<1>9. /\ GoesOn(s, t) /\ t.nreplies = s.nreplies + 1 /\ t.pc = q.pc
      /\ t.yes_participants = s.yes_participants
      /\ t.all_participants = s.all_participants /\ t = [q EXCEPT !.sent = @ + 1]
  BY <1>6, <1>8 DEF ClientFields, GoesOn
<1>. HIDE DEF t
<1>10. CASE u.nreplies = n
  <2>1. s.nreplies + 1 = Cardinality(Counted(s))
    BY <1>2, <1>10 DEF n
  <2>2. MyCalls(c) \ {a.req} = {} /\ MyAnswers(c) \ {a} = {}
    BY <1>5, <1>6, <2>1, CountIs DEF Phases
  <2>3. t.pc = "idle"
    BY <1>8, <1>9, <1>10
  <2>4. ClientTyped(t)
    BY <1>6, <1>9, <2>3 DEF ClientTyped, GoesOn, Pcs
  <2>5. StartsTo(c, t, {}) /\ StillDecided(s, t) /\ t.txns <= MaxTxns
    <3>1. StillDecided(s, t)
      BY <2>3, <1>9 DEF StillDecided, Decided, GoesOn
    <3>. QED BY <1>6, <1>9, <2>3, <3>1 DEF StartsTo, GoesOn
  <2>. QED BY <1>4, <1>9, <2>2, <2>3, <2>4, <2>5, AcceptsTurn
<1>11. CASE u.nreplies # n
  <2>1. t.pc = op /\ op \in Phases
    BY <1>8, <1>9, <1>11 DEF Phases
  <2>. QED BY <1>4, <1>9, <2>1, CountTurns
<1>. QED BY <1>10, <1>11

LEMMA ClientTurns ==
  ASSUME AllTalk, NEW c \in Clients, ClientNext(c)
  PROVE  Turns(c)
<1>1. ASSUME Get(c) \/ Put(c) PROVE Turns(c)
  <2>1. PICK op \in {"GET", "PUT"}, key \in Keys : \E value : Operate(c, op, key, value)
    BY <1>1 DEF Get, Put
  <2>. QED BY <2>1, OperateTurns
<1>. QED BY <1>1, BeginTurns, AsksTurns, AbortTurns, BegunTurns, OperatedTurns,
            VoteTurns, DoneTurns DEF ClientNext

(* The client that has had its turn, and the others.                         *)
LEMMA TurnIs ==
  ASSUME AllTalk, NEW c \in Clients, NEW t, NEW D, NEW B, Turn(c, t, D, B)
  PROVE  /\ AllTalk' /\ shard' = shard /\ mode' = mode
         /\ client'[c] = t /\ StillDecided(client[c], t)
         /\ \A e \in Clients \ {c} : client'[e] = client[e]
<1>0. StepOf(c, t, D, B) /\ Talks(c, t, D, B) /\ StillDecided(client[c], t)
  BY DEF Turn
<1>1. (\A r \in D : r.txnid = c) /\ (\A a \in B : a.req \in D)
  BY <1>0 DEF Talks, Asks
<1>2. DOMAIN client' = Clients /\ client'[c] = t
      /\ \A e \in Clients \ {c} : client'[e] = client[e]
  BY <1>0 DEF AllTalk, StepOf
<1>3. MyCalls(c)' = D /\ MyAnswers(c)' = B
  BY <1>0, <1>1 DEF StepOf, MyCalls, MyAnswers
<1>4. \A e \in Clients \ {c} : MyCalls(e)' = MyCalls(e) /\ MyAnswers(e)' = MyAnswers(e)
  BY <1>0, <1>1 DEF StepOf, MyCalls, MyAnswers
<1>5. \A r \in calls' : r.txnid \in Clients
  BY <1>0, <1>1 DEF StepOf, AllTalk
<1>6. \A a \in replies' : a.req \in calls'
  BY <1>0, <1>1 DEF StepOf, AllTalk, MyCalls, MyAnswers
<1>7. \A e \in Clients : Talks(e, client[e], MyCalls(e), MyAnswers(e))'
  BY <1>0, <1>2, <1>3, <1>4 DEF AllTalk
<1>. QED BY <1>0, <1>2, <1>5, <1>6, <1>7 DEF AllTalk, StepOf

-----------------------------------------------------------------------------
(* Types: a timestamp for each transaction at most.                          *)

HistoryCounts ==
  /\ ts \in Nat
  /\ \A h \in history :
       /\ h.client \in Clients /\ h.txn \in 1 .. MaxTxns
       /\ Decided(client[h.client], h.txn)
  /\ \A n \in 1 .. ts : \E h \in history : h.ts = n
  /\ \A h, g \in history : h.client = g.client /\ h.txn = g.txn => h = g

LEMMA FewTimestamps ==
  ASSUME HistoryCounts
  PROVE  ts \in 0 .. Cardinality(Clients) * MaxTxns
<1>. DEFINE of == [n \in 1 .. ts |-> CHOOSE h \in history : h.ts = n]
            T == Clients \X (1 .. MaxTxns)
            f == [n \in 1 .. ts |-> <<of[n].client, of[n].txn>>]
<1>1. \A n \in 1 .. ts : of[n] \in history /\ of[n].ts = n
  BY DEF HistoryCounts
<1>. HIDE DEF of
<1>2. f \in [1 .. ts -> T]
  BY <1>1 DEF HistoryCounts
<1>3. ASSUME NEW m \in 1 .. ts, NEW n \in 1 .. ts, f[m] = f[n]
      PROVE  m = n
  <2>1. of[m].client = of[n].client /\ of[m].txn = of[n].txn
    BY <1>3
  <2>2. of[m] = of[n]
    BY <1>1, <2>1 DEF HistoryCounts
  <2>. QED BY <1>1, <2>2
<1>4. f \in Injection(1 .. ts, T)
  BY <1>2, <1>3 DEF Injection, IsInjective
<1>5. /\ IsFiniteSet(1 .. MaxTxns) /\ Cardinality(1 .. MaxTxns) = MaxTxns
      /\ Cardinality(1 .. ts) = ts /\ ts \in Nat
  BY BoundsAssumption, FS_Interval DEF HistoryCounts
<1>6. IsFiniteSet(T) /\ Cardinality(T) = Cardinality(Clients) * MaxTxns
  BY <1>5, BoundsAssumption, FS_Product
<1>. HIDE DEF f, T
<1>7. Cardinality(1 .. ts) <= Cardinality(T)
  BY <1>4, <1>6, FS_Injection
<1>8. Cardinality(T) \in Nat
  BY <1>6, FS_CardinalityType
<1>. QED BY <1>5, <1>6, <1>7, <1>8

(* A step of a client that is given no timestamp.                            *)
LEMMA HistoryStays ==
  ASSUME HistoryCounts, NEW c \in Clients, ts' = ts, history' = history,
         StillDecided(client[c], client'[c]),
         \A e \in Clients \ {c} : client'[e] = client[e]
  PROVE  HistoryCounts'
<1>1. ASSUME NEW h \in history PROVE Decided(client'[h.client], h.txn)
  <2>1. h.txn \in Nat /\ h.client \in Clients /\ Decided(client[h.client], h.txn)
    BY BoundsAssumption DEF HistoryCounts
  <2>2. CASE h.client = c
    BY <2>1, <2>2 DEF StillDecided
  <2>3. CASE h.client # c
    BY <2>1, <2>3
  <2>. QED BY <2>2, <2>3
<1>. QED BY <1>1 DEF HistoryCounts

LEMMA TimestampCounts ==
  ASSUME AllTalk, HistoryCounts, NEW c \in Clients, tssCallback(c)
  PROVE  HistoryCounts'
<1>. DEFINE s == client[c]
            h == [client |-> c, txn |-> s.txns, ts |-> ts', reads |-> s.reads,
                  writes |-> s.puts]
            q == [s EXCEPT !.pc = "COMMIT", !.nreplies = 0]
            t == [q EXCEPT !.sent = @ + 1]
<1>1. /\ s.pc = "TSS" /\ ts' = ts + 1 /\ history' = history \cup {h}
      /\ client' = [client EXCEPT ![c] = t]
  BY DEF tssCallback, newTimeStamp, Sends
<1>2. /\ DOMAIN client = Clients /\ DOMAIN s = ClientFields
      /\ s.txns \in Nat /\ s.txns <= MaxTxns /\ s.txns >= 1
  BY <1>1, MyTalk DEF AllTalk
<1>3. t.pc = "COMMIT" /\ t.txns = s.txns
  BY <1>2 DEF ClientFields
<1>. HIDE DEF t
<1>4. client'[c] = t /\ \A e \in Clients \ {c} : client'[e] = client[e]
  BY <1>1, <1>2
<1>5. h.client = c /\ h.txn = s.txns /\ h.ts = ts + 1
  BY <1>1
<1>. HIDE DEF h
<1>6. ASSUME NEW g \in history
      PROVE  g.client # c \/ g.txn # s.txns
  BY <1>1 DEF HistoryCounts, Decided
<1>7. ASSUME NEW g \in history'
      PROVE  /\ g.client \in Clients /\ g.txn \in 1 .. MaxTxns
             /\ Decided(client'[g.client], g.txn)
  <2>1. CASE g = h
    BY <1>2, <1>3, <1>4, <1>5, <2>1, BoundsAssumption DEF Decided
  <2>2. CASE g \in history
    <3>1. /\ g.client \in Clients /\ g.txn \in 1 .. MaxTxns
          /\ Decided(client[g.client], g.txn)
      BY <2>2 DEF HistoryCounts
    <3>2. CASE g.client = c
      BY <1>1, <1>2, <1>3, <1>4, <3>1, <3>2 DEF Decided
    <3>3. CASE g.client # c
      BY <1>4, <3>1, <3>3
    <3>. QED BY <3>1, <3>2, <3>3
  <2>. QED BY <1>1, <2>1, <2>2
<1>8. ts' \in Nat /\ \A n \in 1 .. ts' : n = ts + 1 \/ n \in 1 .. ts
  BY <1>1 DEF HistoryCounts
<1>9. \A n \in 1 .. ts' : \E g \in history' : g.ts = n
  BY <1>1, <1>5, <1>8 DEF HistoryCounts
<1>10. \A g, k \in history' : g.client = k.client /\ g.txn = k.txn => g = k
  BY <1>1, <1>5, <1>6 DEF HistoryCounts
<1>. QED BY <1>7, <1>8, <1>9, <1>10 DEF HistoryCounts

LEMMA ClientCounts ==
  ASSUME AllTalk, HistoryCounts, NEW c \in Clients, ClientNext(c)
  PROVE  AllTalk' /\ HistoryCounts' /\ shard' = shard /\ mode' = mode
         /\ rollbacks' = rollbacks
<1>1. PICK t, D, B : Turn(c, t, D, B)
  BY ClientTurns DEF Turns
<1>2. /\ AllTalk' /\ shard' = shard /\ mode' = mode
      /\ StillDecided(client[c], client'[c])
      /\ \A e \in Clients \ {c} : client'[e] = client[e]
  BY <1>1, TurnIs
<1>3. CASE tssCallback(c)
  BY <1>2, <1>3, TimestampCounts DEF tssCallback
<1>4. CASE ~tssCallback(c)
  <2>1. ts' = ts /\ history' = history /\ rollbacks' = rollbacks
    BY <1>4 DEF ClientNext, Begin, Get, Put, Operate, Commit, Abort, beginCallback,
       getCallback, putCallback, prepareCallback, commitCallback, abortCallback
  <2>. QED BY <1>2, <2>1, HistoryStays
<1>. QED BY <1>3, <1>4

-----------------------------------------------------------------------------
(* Types: the servers.                                                       *)

ShardsTyped ==
  /\ DOMAIN shard = Shards
  /\ \A i \in Shards :
       /\ DOMAIN shard[i] = {"db", "log", "opnum"} /\ LogOK(shard[i].log)
       /\ Locking => LocksOK(shard[i].db, KeysOf(i))

(* One shard has changed.                                                    *)
LEMMA OneShardTyped ==
  ASSUME ShardsTyped, mode' = mode, NEW i \in Shards, NEW v,
         shard' = [shard EXCEPT ![i] = v], DOMAIN v = {"db", "log", "opnum"},
         LogOK(v.log), Locking => LocksOK(v.db, KeysOf(i))
  PROVE  ShardsTyped'
<1>1. /\ DOMAIN shard' = Shards /\ shard'[i] = v
      /\ \A j \in Shards \ {i} : shard'[j] = shard[j]
  BY DEF ShardsTyped
<1>2. ASSUME NEW j \in Shards
      PROVE  /\ DOMAIN shard'[j] = {"db", "log", "opnum"} /\ LogOK(shard'[j].log)
             /\ Locking => LocksOK(shard'[j].db, KeysOf(j))
  BY <1>1 DEF ShardsTyped
<1>. QED BY <1>1, <1>2 DEF ShardsTyped, Locking

(* Other answers to the same requests.                                       *)
LEMMA OtherAnswers ==
  ASSUME AllTalk, client' = client, calls' = calls,
         \A a \in replies' : a.req \in calls,
         \A a, b \in replies' : a.req = b.req => a = b
  PROVE  AllTalk'
<1>1. ASSUME NEW c \in Clients
      PROVE  Talks(c, client[c], MyCalls(c), MyAnswers(c)')
  <2>1. Talks(c, client[c], MyCalls(c), MyAnswers(c))
    BY DEF AllTalk
  <2>2. \A a \in MyAnswers(c)' : a \in replies' /\ a.req \in MyCalls(c)
    BY DEF MyAnswers, MyCalls
  <2>. QED BY <2>1, <2>2 DEF Talks
<1>2. \A c : MyCalls(c)' = MyCalls(c)
  BY DEF MyCalls
<1>. QED BY <1>1, <1>2 DEF AllTalk

LEMMA OneAnswerEach ==
  ASSUME AllTalk
  PROVE  \A a, b \in replies : a.req = b.req => a = b
<1>. SUFFICES ASSUME NEW a \in replies, NEW b \in replies, a.req = b.req PROVE a = b
  OBVIOUS
<1>1. a.req.txnid \in Clients
  BY DEF AllTalk
<1>2. a \in MyAnswers(a.req.txnid) /\ b \in MyAnswers(a.req.txnid)
  BY DEF MyAnswers
<1>. QED BY <1>1, <1>2 DEF AllTalk, Talks

(* A suffix of what a server has executed, and a prefix.                     *)
LEMMA PartOfLog ==
  ASSUME NEW log, LogOK(log), NEW m \in 1 .. Len(log) + 1, NEW n \in 0 .. Len(log)
  PROVE  LogOK(SubSeq(log, m, n))
<1>1. PICK S : log \in Seq(S) /\ \A e \in S : Asked(e.req)
  BY DEF LogOK
<1>2. Len(log) \in Nat /\ \A k \in 1 .. Len(log) : log[k] \in S
  BY <1>1, LenProperties, ElementOfSeq
<1>3. m \in Int /\ n \in Int /\ \A k \in m .. n : log[k] \in S
  BY <1>2
<1>4. SubSeq(log, m, n) \in Seq(S)
  BY <1>1, <1>3, SubSeqProperties, Zenon
<1>. QED BY <1>1, <1>4 DEF LogOK

LEMMA ExecuteTyped ==
  ASSUME AllTalk, ShardsTyped, NEW i \in Shards, Execute(i)
  PROVE  AllTalk' /\ ShardsTyped'
<1>. DEFINE s  == shard[i]
            op == s.opnum + 1
<1>1. PICK r \in calls : \E o \in ReplicaUpcall(s.db, op, r) :
        /\ \A a \in replies : a.req # r
        /\ shard' = [shard EXCEPT ![i] =
             [db |-> o.db, opnum |-> op,
              log |-> IF Speculative
                      THEN Append(s.log, [opnum |-> op, req |-> r,
                                          before |-> Visible(s.db)])
                      ELSE << >>]]
        /\ replies' = replies \cup {[req |-> r, status |-> o.status, value |-> o.value]}
        /\ client' = client /\ calls' = calls /\ mode' = mode
  BY DEF Execute
<1>2. PICK o \in ReplicaUpcall(s.db, op, r) :
        /\ \A a \in replies : a.req # r
        /\ shard' = [shard EXCEPT ![i] =
             [db |-> o.db, opnum |-> op,
              log |-> IF Speculative
                      THEN Append(s.log, [opnum |-> op, req |-> r,
                                          before |-> Visible(s.db)])
                      ELSE << >>]]
        /\ replies' = replies \cup {[req |-> r, status |-> o.status, value |-> o.value]}
        /\ client' = client /\ calls' = calls /\ mode' = mode
  BY <1>1
<1>3. Asked(r)
  <2>1. r.txnid \in Clients /\ r \in MyCalls(r.txnid)
    BY DEF AllTalk, MyCalls
  <2>2. Talks(r.txnid, client[r.txnid], MyCalls(r.txnid), MyAnswers(r.txnid))
    BY <2>1 DEF AllTalk
  <2>. QED BY <2>1, <2>2 DEF Talks, Asks, Asked
<1>4. AllTalk'
  <2>1. \A a \in replies' : a \in replies \/ a.req = r
    BY <1>2
  <2>2. \A a \in replies' : a.req \in calls
    BY <2>1 DEF AllTalk
  <2>3. \A a, b \in replies' : a.req = b.req => a = b
    BY <1>2, OneAnswerEach
  <2>. QED BY <1>2, <2>2, <2>3, OtherAnswers
<1>. DEFINE e == [opnum |-> op, req |-> r, before |-> Visible(s.db)]
            log == IF Speculative THEN Append(s.log, e) ELSE << >>
            v == [db |-> o.db, opnum |-> op, log |-> log]
<1>5. LogOK(log)
  <2>1. PICK S : s.log \in Seq(S) /\ \A d \in S : Asked(d.req)
    BY DEF ShardsTyped, LogOK
  <2>. DEFINE U == S \cup {e}
  <2>2. e \in U /\ s.log \in Seq(U) /\ \A d \in U : Asked(d.req)
    <3>1. e.req = r
      OBVIOUS
    <3>. HIDE DEF e
    <3>. QED BY <1>3, <2>1, <3>1
  <2>. HIDE DEF e, U
  <2>3. Append(s.log, e) \in Seq(U) /\ << >> \in Seq(U)
    BY <2>2, AppendProperties
  <2>4. log \in Seq(U)
    BY <2>3
  <2>. HIDE DEF log
  <2>. QED BY <2>2, <2>4 DEF LogOK
<1>6. Locking => LocksOK(o.db, KeysOf(i))
  <2>. SUFFICES ASSUME Locking PROVE LocksOK(o.db, KeysOf(i))
    OBVIOUS
  <2>1. ~AsBuilt
    BY DEF Locking, AsBuilt
  <2>2. o \in LockUpcall(s.db, op, r)
    BY <2>1 DEF ReplicaUpcall
  <2>3. LocksOK(s.db, KeysOf(i))
    BY DEF ShardsTyped
  <2>. QED BY <1>3, <2>2, <2>3, UpcallLocks DEF Asked
<1>7. shard' = [shard EXCEPT ![i] = v]
  BY <1>2
<1>8. DOMAIN v = {"db", "log", "opnum"} /\ v.log = log /\ v.db = o.db
  OBVIOUS
<1>. HIDE DEF v, log
<1>9. ShardsTyped'
  BY <1>2, <1>5, <1>6, <1>7, <1>8, OneShardTyped
<1>. QED BY <1>4, <1>9

LEMMA RollbackTyped ==
  ASSUME AllTalk, ShardsTyped, NEW i \in Shards, RollbackUpcall(i)
  PROVE  AllTalk' /\ ShardsTyped'
<1>. DEFINE log == shard[i].log
            undone(to) == SubSeq(log, to + 1, Len(log))
<1>1. PICK to \in 0 .. Len(log) - 1 : \E db \in Undone(undone(to), {shard[i].db}) :
        /\ shard' = [shard EXCEPT ![i] =
                       [db |-> db, log |-> SubSeq(log, 1, to),
                        opnum |-> shard[i].opnum - Len(undone(to))]]
        /\ replies' \subseteq replies
        /\ client' = client /\ calls' = calls /\ mode' = mode
  <2>1. \E to \in 0 .. Len(log) - 1 :
          /\ \E db \in Undone(undone(to), {shard[i].db}) :
               shard' = [shard EXCEPT ![i] =
                           [db |-> db, log |-> SubSeq(log, 1, to),
                            opnum |-> @.opnum - Len(undone(to))]]
          /\ replies' \subseteq replies
          /\ client' = client /\ calls' = calls /\ mode' = mode
    BY Zenon DEF RollbackUpcall, Undone
  <2>. HIDE DEF log, undone
  <2>. QED BY <2>1 DEF ShardsTyped
<1>2. PICK db \in Undone(undone(to), {shard[i].db}) :
        /\ shard' = [shard EXCEPT ![i] =
                       [db |-> db, log |-> SubSeq(log, 1, to),
                        opnum |-> shard[i].opnum - Len(undone(to))]]
        /\ replies' \subseteq replies
        /\ client' = client /\ calls' = calls /\ mode' = mode
  BY <1>1, Zenon
<1>3. LogOK(log) /\ Len(log) \in Nat
  <2>1. LogOK(log)
    BY DEF ShardsTyped
  <2>. QED BY <2>1, LenProperties DEF LogOK
<1>4. /\ to + 1 \in 1 .. Len(log) + 1 /\ Len(log) \in 0 .. Len(log)
      /\ 1 \in 1 .. Len(log) + 1 /\ to \in 0 .. Len(log)
  BY <1>3
<1>5. LogOK(undone(to)) /\ LogOK(SubSeq(log, 1, to))
  <2>. HIDE DEF log
  <2>. QED BY <1>3, <1>4, PartOfLog
<1>. DEFINE v == [db |-> db, log |-> SubSeq(log, 1, to),
                  opnum |-> shard[i].opnum - Len(undone(to))]
<1>6. DOMAIN v = {"db", "log", "opnum"} /\ LogOK(v.log) /\ v.db = db
  BY <1>5
<1>7. Locking => LocksOK(v.db, KeysOf(i))
  <2>1. Locking => LocksOK(shard[i].db, KeysOf(i))
    BY DEF ShardsTyped
  <2>. HIDE DEF undone, v
  <2>. QED BY <1>2, <1>5, <1>6, <2>1, UndoneLocks
<1>8. shard' = [shard EXCEPT ![i] = v]
  BY <1>2
<1>. HIDE DEF v
<1>9. ShardsTyped'
  BY <1>2, <1>6, <1>7, <1>8, OneShardTyped
<1>10. AllTalk'
  <2>1. \A a \in replies' : a.req \in calls
    BY <1>2 DEF AllTalk
  <2>2. \A a, b \in replies' : a.req = b.req => a = b
    BY <1>2, OneAnswerEach
  <2>. QED BY <1>2, <2>1, <2>2, OtherAnswers
<1>. QED BY <1>9, <1>10

LEMMA CommitTyped ==
  ASSUME AllTalk, ShardsTyped, NEW i \in Shards, CommitUpcall(i)
  PROVE  AllTalk' /\ ShardsTyped'
<1>. DEFINE log == shard[i].log
            upto == Max({0} \cup {k \in DOMAIN log : Accepted(log[k])})
            op == log[upto].opnum
            v == [shard[i] EXCEPT !.db = specCommit(shard[i].db, op),
                                  !.log = SubSeq(log, upto + 1, Len(log))]
<1>0. /\ DOMAIN shard = Shards /\ DOMAIN shard[i] = {"db", "log", "opnum"}
      /\ LogOK(log) /\ (Locking => LocksOK(shard[i].db, KeysOf(i)))
  BY DEF ShardsTyped
<1>1. /\ shard' = [shard EXCEPT
                     ![i].db = specCommit(@, op),
                     ![i].log = SubSeq(@, upto + 1, Len(@))]
      /\ client' = client /\ calls' = calls /\ mode' = mode /\ replies' = replies
  BY DEF CommitUpcall
<1>2. Len(log) \in Nat /\ DOMAIN log = 1 .. Len(log)
  BY <1>0, LenProperties DEF LogOK
<1>3. upto \in 0 .. Len(log)
  <2>. DEFINE T == {k \in DOMAIN log : Accepted(log[k])}
              n == Len(log)
  <2>1. n \in Nat /\ 0 \in 0 .. n /\ \A x \in T : x \in 0 .. n
    BY <1>2
  <2>. HIDE DEF T, n
  <2>2. Max({0} \cup T) \in 0 .. n
    BY <2>1, MaxWith
  <2>. QED BY <2>2 DEF T, n
<1>4. LogOK(SubSeq(log, upto + 1, Len(log)))
  <2>. HIDE DEF upto, log
  <2>1. upto + 1 \in 1 .. Len(log) + 1 /\ Len(log) \in 0 .. Len(log)
    BY <1>2, <1>3
  <2>. QED BY <1>0, <2>1, PartOfLog
<1>5. shard' = [shard EXCEPT ![i] = v]
  <2>. HIDE DEF upto, op
  <2>. QED BY <1>0, <1>1
<1>6. /\ DOMAIN v = {"db", "log", "opnum"} /\ v.db = specCommit(shard[i].db, op)
      /\ v.log = SubSeq(log, upto + 1, Len(log))
  <2>. HIDE DEF upto, op
  <2>. QED BY <1>0
<1>. HIDE DEF v, log, upto, op
<1>7. Locking => LocksOK(v.db, KeysOf(i))
  <2>. SUFFICES ASSUME Locking PROVE LocksOK(v.db, KeysOf(i))
    OBVIOUS
  <2>1. LocksOK(shard[i].db, KeysOf(i)) /\ "locks" \in DOMAIN shard[i].db
    BY <1>0 DEF LocksOK
  <2>2. SameLocks(specCommit(shard[i].db, op), shard[i].db)
    BY <2>1, RetiresLocks
  <2>. QED BY <1>6, <2>1, <2>2, SameLocksOK
<1>8. LogOK(v.log)
  BY <1>4, <1>6
<1>9. ShardsTyped'
  BY <1>1, <1>5, <1>6, <1>7, <1>8, OneShardTyped
<1>10. AllTalk'
  BY <1>1, OneAnswerEach, OtherAnswers DEF AllTalk
<1>. QED BY <1>9, <1>10

-----------------------------------------------------------------------------
(* Types: the theorem.                                                       *)

Types ==
  AllTalk /\ HistoryCounts /\ ShardsTyped /\ rollbacks \in 0 .. MaxRollbacks

LEMMA InitTypes ==
  ASSUME Init
  PROVE  Types
<1>1. AllTalk
  <2>1. ASSUME NEW c \in Clients
        PROVE  Talks(c, client[c], MyCalls(c), MyAnswers(c))
    <3>1. client[c] = IdleClient /\ MyCalls(c) = {} /\ MyAnswers(c) = {}
      BY InitClients
    <3>2. ClientTyped(IdleClient)
      BY DEF ClientTyped, IdleClient, ClientFields, Pcs
    <3>3. Talks(c, IdleClient, {}, {})
      BY <3>2, BoundsAssumption DEF Talks, IdleClient, Phases
    <3>. QED BY <3>1, <3>3
  <2>. QED BY <2>1 DEF AllTalk, Init
<1>2. HistoryCounts
  BY DEF HistoryCounts, Init
<1>3. ShardsTyped
  <2>1. /\ DOMAIN shard = Shards
        /\ \A i \in Shards :
             /\ DOMAIN shard[i] = {"db", "log", "opnum"} /\ shard[i].log = << >>
             /\ shard[i].db = InitDb(mode, i)
    BY DEF Init
  <2>2. LogOK(<< >>)
    <3>. DEFINE S == {}
    <3>1. \A e \in S : Asked(e.req)
      OBVIOUS
    <3>. HIDE DEF S
    <3>2. << >> \in Seq(S)
      OBVIOUS
    <3>. QED BY <3>1, <3>2, Zenon DEF LogOK
  <2>3. ASSUME NEW i \in Shards, Locking
        PROVE  LocksOK(InitDb(mode, i), KeysOf(i))
    <3>. DEFINE K == KeysOf(i)
                db == Lock!InitDb([key \in K |-> <<Loaded>>])
    <3>1. InitDb(mode, i) = db
      BY <2>3 DEF InitDb, Locking
    <3>2. "locks" \in DOMAIN db /\ db.locks = [key \in K |-> Lock!Free]
      BY DEF Lock!InitDb
    <3>3. Lock!Free \in Locks(Clients) /\ Lock!LockOK(Lock!Free)
      BY DEF Lock!Free, Locks, Waiters, Lock!LockOK
    <3>. HIDE DEF db, K
    <3>4. LocksOK(db, K)
      BY <3>2, <3>3 DEF LocksOK
    <3>. QED BY <3>1, <3>4 DEF K
  <2>. QED BY <2>1, <2>2, <2>3 DEF ShardsTyped
<1>4. rollbacks \in 0 .. MaxRollbacks
  BY BoundsAssumption DEF Init
<1>. QED BY <1>1, <1>2, <1>3, <1>4 DEF Types

(* A server's step leaves the clients and what is to commit as they are.     *)
LEMMA ServerCounts ==
  ASSUME HistoryCounts, client' = client, ts' = ts, history' = history
  PROVE  HistoryCounts'
BY DEF HistoryCounts

LEMMA NextTypes ==
  ASSUME Types, [Next]_vars
  PROVE  Types'
<1>1. CASE UNCHANGED vars
  <2>1. /\ mode' = mode /\ client' = client /\ calls' = calls /\ replies' = replies
        /\ shard' = shard /\ ts' = ts /\ history' = history /\ rollbacks' = rollbacks
    BY <1>1 DEF vars
  <2>2. AllTalk'
    BY <2>1, OneAnswerEach, OtherAnswers DEF Types, AllTalk
  <2>3. ShardsTyped'
    BY <2>1 DEF Types, ShardsTyped, Locking
  <2>. QED BY <2>1, <2>2, <2>3, ServerCounts DEF Types
<1>2. ASSUME NEW c \in Clients, ClientNext(c) PROVE Types'
  <2>1. AllTalk' /\ HistoryCounts' /\ shard' = shard /\ mode' = mode
        /\ rollbacks' = rollbacks
    BY <1>2, ClientCounts DEF Types
  <2>2. ShardsTyped'
    BY <2>1 DEF Types, ShardsTyped, Locking
  <2>. QED BY <2>1, <2>2 DEF Types
<1>3. ASSUME NEW i \in Shards, Execute(i) PROVE Types'
  <2>1. AllTalk' /\ ShardsTyped'
    BY <1>3, ExecuteTyped DEF Types
  <2>2. client' = client /\ ts' = ts /\ history' = history /\ rollbacks' = rollbacks
    BY <1>3 DEF Execute
  <2>. QED BY <2>1, <2>2, ServerCounts DEF Types
<1>4. ASSUME NEW i \in Shards, RollbackUpcall(i) PROVE Types'
  <2>1. AllTalk' /\ ShardsTyped'
    BY <1>4, RollbackTyped DEF Types
  <2>2. /\ client' = client /\ ts' = ts /\ history' = history
        /\ rollbacks < MaxRollbacks /\ rollbacks' = rollbacks + 1
    BY <1>4 DEF RollbackUpcall
  <2>3. rollbacks' \in 0 .. MaxRollbacks
    BY <2>2, BoundsAssumption DEF Types
  <2>. QED BY <2>1, <2>2, <2>3, ServerCounts DEF Types
<1>5. ASSUME NEW i \in Shards, CommitUpcall(i) PROVE Types'
  <2>1. AllTalk' /\ ShardsTyped'
    BY <1>5, CommitTyped DEF Types
  <2>2. client' = client /\ ts' = ts /\ history' = history /\ rollbacks' = rollbacks
    BY <1>5 DEF CommitUpcall
  <2>. QED BY <2>1, <2>2, ServerCounts DEF Types
<1>. QED BY <1>1, <1>2, <1>3, <1>4, <1>5 DEF Next

(* In every mode, rolled back or not: a lock's state is what its holders make *)
(* of it (lockserver.h, struct Lock), an answer is to a request that waits for *)
(* it, only participants vote (client.cc), and the timestamp server is asked   *)
(* once for a transaction (timeserver.cc).                                     *)
THEOREM TypesHold == Spec => []TypeOK
<1>1. Types => TypeOK
  <2>. SUFFICES ASSUME Types PROVE TypeOK
    OBVIOUS
  <2>1. ts \in 0 .. Cardinality(Clients) * MaxTxns /\ rollbacks \in 0 .. MaxRollbacks
    BY FewTimestamps DEF Types
  <2>2. ASSUME NEW c \in Clients
        PROVE  /\ client[c].pc \in Pcs
               /\ client[c].yes_participants \subseteq client[c].all_participants
    BY MyTalk DEF Types
  <2>3. \A a \in replies : a.req \in calls
    BY DEF Types, AllTalk
  <2>4. ASSUME NEW i \in Shards, Locking, NEW key \in KeysOf(i)
        PROVE  Lock!LockOK(shard[i].db.locks[key])
    BY <2>4 DEF Types, ShardsTyped, LocksOK
  <2>. QED BY <2>1, <2>2, <2>3, <2>4 DEF TypeOK, Pcs, Ops
<1>2. Init => Types
  BY InitTypes
<1>. QED BY <1>1, <1>2, NextTypes, PTL DEF Spec
=============================================================================
