------------------------------ MODULE OCCStore ------------------------------
(***************************************************************************)
(* The store with optimistic concurrency control (nistore/occstore.cc,       *)
(* versionedKVStore.cc).  store[key] is the versions of the key, the latest  *)
(* first; a transaction's reads has, for a key, the timestamp of the version *)
(* read and how often it has been read.                                        *)
(***************************************************************************)
EXTENDS TxnStore, FiniteSetsExt

InitDb(loaded) ==
  [store |-> loaded, running |-> << >>, prepared |-> << >>, retired |-> << >>]

(* VersionedKVStore::get: the latest version, and the one valid at a time.   *)
Latest(db, key) == Head(db.store[key])

ValidAt(db, key, ts) ==
  LET versions == db.store[key]
  IN  versions[Min({i \in DOMAIN versions : versions[i].ts <= ts})]

(* VersionedKVStore::put: in the order of the timestamps; a version that is  *)
(* older than all the others is dropped.                                      *)
Inserted(versions, version) ==
  LET older == {i \in DOMAIN versions : versions[i].ts < version.ts}
  IN  CASE versions = << >> -> <<version>>
        [] versions # << >> /\ older = {} -> versions
        [] versions # << >> /\ older # {} ->
             InsertAt(versions, Min(older), version)

get(db, id, key) ==
  LET txn == getTxn(db, id)
      run == Runs(db, id, txn)
  IN  CASE key \in DOMAIN txn.writes -> Result(run, 0, Last(txn.writes[key]))
        [] key \notin DOMAIN txn.writes /\ key \in DOMAIN txn.reads ->
             Result([run EXCEPT !.running[id].reads[key].count = @ + 1], 0,
                    ValidAt(db, key, txn.reads[key].ts).value)
        [] key \notin DOMAIN txn.writes /\ key \notin DOMAIN txn.reads
             /\ key \in DOMAIN db.store ->
             Result([run EXCEPT !.running[id].reads =
                       With(@, key, [ts |-> Latest(db, key).ts, count |-> 1])],
                    0, Latest(db, key).value)
        [] key \notin DOMAIN txn.writes /\ key \notin DOMAIN txn.reads
             /\ key \notin DOMAIN db.store -> Result(run, -1, NoValue)

unget(db, id, key) ==
  LET txn == getTxn(db, id) IN
  Runs(db, id,
       CASE key \notin DOMAIN txn.reads -> txn
         [] key \in DOMAIN txn.reads /\ txn.reads[key].count > 1 ->
              [txn EXCEPT !.reads[key].count = @ - 1]
         [] key \in DOMAIN txn.reads /\ txn.reads[key].count <= 1 ->
              [txn EXCEPT !.reads = Without(@, key)])

Written(txn, key) ==
  IF key \in DOMAIN txn.writes THEN txn.writes[key] ELSE << >>

put(db, id, key, value) ==
  LET txn == getTxn(db, id) IN
  Result(Runs(db, id, [txn EXCEPT !.writes =
                         With(@, key, Append(Written(txn, key), value))]),
         0, NoValue)

(* The key stays, without a value.                                            *)
unput(db, id, key, value) ==
  Runs(db, id, [getTxn(db, id) EXCEPT !.writes[key] = Front(@)])

getPreparedWrites(db) ==
  UNION {DOMAIN db.prepared[id].writes : id \in DOMAIN db.prepared}

getPreparedReadWrites(db) ==
  getPreparedWrites(db)
    \cup UNION {DOMAIN db.prepared[id].reads : id \in DOMAIN db.prepared}

(* MUTANT of Conflicts: prepared readers are not looked at.                   *)
MutantConflicts(db, txn) ==
  \/ \E key \in DOMAIN txn.reads : Latest(db, key).ts # txn.reads[key].ts
  \/ (DOMAIN txn.reads \cup DOMAIN txn.writes) \cap getPreparedWrites(db) # {}

(* Something read has changed, or will; something written has been read or   *)
(* written by a transaction that is prepared.                                 *)
Conflicts(db, txn) ==
  \/ \E key \in DOMAIN txn.reads : Latest(db, key).ts # txn.reads[key].ts
  \/ DOMAIN txn.reads \cap getPreparedWrites(db) # {}
  \/ DOMAIN txn.writes \cap getPreparedReadWrites(db) # {}

(* A transaction with a conflict is aborted at once.                          *)
prepare(db, op, id) ==
  CASE id \notin DOMAIN db.running -> Result(db, -1, NoValue)
    [] id \in DOMAIN db.running /\ Conflicts(db, db.running[id]) ->
         Result(abortTxn(db, op, id), -1, NoValue)
    [] id \in DOMAIN db.running /\ ~Conflicts(db, db.running[id]) ->
         Result(PreparedTxn(db, id), 0, NoValue)

commit(db, id, ts, op) ==
  LET txn    == db.prepared[id]
      old(key) == IF key \in DOMAIN db.store THEN db.store[key] ELSE << >>
      stored == [key \in DOMAIN txn.writes |->
                   Inserted(old(key), [ts |-> ts, value |-> Last(txn.writes[key])])]
  IN  CommittedTxn([db EXCEPT !.store = Overridden(@, stored)], op, id)

(* MUTANT of uncommitted: the versions that were committed stay.             *)
MutantUncommitted(db, id) == uncommit(db, id)

(* VersionedKVStore::remove, of the latest version of each key written.       *)
uncommitted(db, id) ==
  LET txn     == Last(db.retired).txn
      removed == [key \in DOMAIN txn.writes |-> Tail(db.store[key])]
  IN  uncommit([db EXCEPT !.store = Overridden(@, removed)], id)
=============================================================================
