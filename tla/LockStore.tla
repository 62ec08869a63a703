------------------------------ MODULE LockStore ------------------------------
(***************************************************************************)
(* The store with two-phase locking (nistore/lockstore.cc, kvstore.cc).      *)
(* store[key] is the values of the key, the latest last; a transaction's     *)
(* reads counts how often it has read a key.  Each operation returns the set *)
(* of what may come of it.  There is none when the process ends, or takes    *)
(* the last of a list that has no elements.                                   *)
(***************************************************************************)
EXTENDS TxnStore, LockServer

InitDb(loaded) ==
  [store |-> loaded, locks |-> [key \in DOMAIN loaded |-> Free],
   running |-> << >>, prepared |-> << >>, retired |-> << >>]

(* KVStore::get *)
Has(db, key) == key \in DOMAIN db.store /\ db.store[key] # << >>

LockOf(db, key) == IF key \in DOMAIN db.locks THEN db.locks[key] ELSE Free

(* A refused operation has queued up, and leaves no other trace.             *)
get(db, id, key) ==
  LET txn == getTxn(db, id)
      run == Runs(db, id, txn)
      tried(a) == [run EXCEPT !.locks = With(@, key, a.lock)]
  IN  CASE key \in DOMAIN txn.writes ->
             {Result(run, 0, Last(values)) :
                values \in {txn.writes[key]} \ {<< >>}}
        [] key \notin DOMAIN txn.writes /\ ~Has(db, key) ->
             {Result(run, -1, NoValue)}
        [] key \notin DOMAIN txn.writes /\ Has(db, key)
             /\ key \in DOMAIN txn.reads ->
             {Result([run EXCEPT !.running[id].reads[key] = @ + 1], 0,
                     Last(db.store[key]))}
        [] key \notin DOMAIN txn.writes /\ Has(db, key)
             /\ key \notin DOMAIN txn.reads ->
             {IF a.granted
              THEN Result([tried(a) EXCEPT
                             !.running[id].reads = With(@, key, 1)],
                          0, Last(db.store[key]))
              ELSE Result(tried(a), -2, NoValue) :
                a \in lockForRead(LockOf(db, key), id)}

(* To undo it is an error when the transaction is not running.               *)
unget(db, id, key) ==
  {CASE key \notin DOMAIN db.running[i].reads -> db
     [] key \in DOMAIN db.running[i].reads /\ db.running[i].reads[key] > 1 ->
          [db EXCEPT !.running[i].reads[key] = @ - 1]
     [] key \in DOMAIN db.running[i].reads
          /\ ~(db.running[i].reads[key] > 1) ->
          [db EXCEPT !.running[i].reads = Without(@, key),
                     !.locks[key] = releaseForRead(@, i)] :
     i \in {id} \cap DOMAIN db.running}

Written(txn, key) ==
  IF key \in DOMAIN txn.writes THEN txn.writes[key] ELSE << >>

put(db, id, key, value) ==
  LET txn == getTxn(db, id)
      run == Runs(db, id, txn)
      tried(a) == [run EXCEPT !.locks = With(@, key, a.lock)]
      writes   == With(txn.writes, key, Append(Written(txn, key), value))
  IN  {IF a.granted
       THEN Result([tried(a) EXCEPT !.running[id].writes = writes], 0, NoValue)
       ELSE Result(tried(a), -2, NoValue) :
         a \in lockForWrite(LockOf(db, key), id)}

(* To undo it is an error when the last value written is another, as after a *)
(* put that was refused.  The key stays, without a value.                     *)
unput(db, id, key, value) ==
  {LET left == Front(db.running[i].writes[key])
       d    == [db EXCEPT !.running[i].writes[key] = left]
   IN  IF left = << >> THEN [d EXCEPT !.locks[key] = releaseForWrite(@, i)]
       ELSE d :
     i \in {j \in {id} \cap DOMAIN db.running :
              /\ key \in DOMAIN db.running[j].writes
              /\ db.running[j].writes[key] # << >>
              /\ Last(db.running[j].writes[key]) = value}}

prepare(db, id) ==
  IF id \in DOMAIN db.running THEN {Result(PreparedTxn(db, id), 0, NoValue)}
  ELSE {Result(db, -1, NoValue)}

(* Second phase of 2PL.                                                      *)
dropLocks(db, id, txn) ==
  LET released(key, l) ==
        IF key \in DOMAIN txn.writes THEN releaseForWrite(l, id) ELSE l
      dropped(key, l) ==
        IF key \in DOMAIN txn.reads THEN releaseForRead(released(key, l), id)
        ELSE released(key, l)
  IN  [db EXCEPT !.locks = [key \in DOMAIN @ |-> dropped(key, @[key])]]

(* What may become of a lock that is taken back: its holder may not get it.  *)
Retaken(id, txn, key, l) ==
  LET written == IF key \in DOMAIN txn.writes
                 THEN {a.lock : a \in lockForWrite(l, id)} ELSE {l}
  IN  UNION {IF key \in DOMAIN txn.reads
             THEN {a.lock : a \in lockForRead(w, id)} ELSE {w} : w \in written}

getLocks(db, id, txn) ==
  LET may == [key \in DOMAIN db.locks |-> Retaken(id, txn, key, db.locks[key])]
      all == UNION {may[key] : key \in DOMAIN may}
  IN  {[db EXCEPT !.locks = locks] :
         locks \in {f \in [DOMAIN may -> all] :
                      \A key \in DOMAIN may : f[key] \in may[key]}}

(* Each key is written a value.                                               *)
Committable(txn) == \A key \in DOMAIN txn.writes : txn.writes[key] # << >>

(* KVStore::put, of the last value written to each key.                       *)
commit(db, id, op) ==
  LET txn    == db.prepared[id]
      old(key) == IF key \in DOMAIN db.store THEN db.store[key] ELSE << >>
      stored == [key \in DOMAIN txn.writes |->
                   Append(old(key), Last(txn.writes[key]))]
  IN  dropLocks(CommittedTxn([db EXCEPT !.store = Overridden(@, stored)], op, id),
                id, txn)

(* KVStore::remove, of the last value of each key written.                    *)
uncommitted(db, id) ==
  LET txn     == Last(db.retired).txn
      removed == [key \in DOMAIN txn.writes |-> Front(db.store[key])]
  IN  getLocks(uncommit([db EXCEPT !.store = Overridden(@, removed)], id), id, txn)

aborted(db, op, id) ==
  dropLocks(abortTxn(db, op, id), id, AbortedTxn(db, id))

unaborted(db, id) == getLocks(unabort(db, id), id, Last(db.retired).txn)
=============================================================================
