------------------------------ MODULE TxnStore ------------------------------
(***************************************************************************)
(* The transactions of a shard's data store: what lockstore.cc and          *)
(* occstore.cc have in common (nistore/).  A database is a record with      *)
(*   running, prepared  the transaction of each client that has one          *)
(*   retired            transactions committed or aborted, that may be       *)
(*                      rolled back yet                                       *)
(* and what the two keep besides.  A transaction has the keys read and, for  *)
(* each key written, the values written to it in order.                       *)
(***************************************************************************)
EXTENDS Integers, Sequences, SequencesExt, TLC

CONSTANT NoValue

NewTxn == [reads |-> << >>, writes |-> << >>]

(* f with other values, and at more points: g's.                             *)
Overridden(f, g) ==
  [x \in DOMAIN f \cup DOMAIN g |-> IF x \in DOMAIN g THEN g[x] ELSE f[x]]

With(f, x, v) == Overridden(f, [y \in {x} |-> v])

Without(f, x) == [y \in DOMAIN f \ {x} |-> f[y]]

(* What an operation leaves, and answers.                                     *)
Result(db, status, value) == [db |-> db, status |-> status, value |-> value]

(* A transaction that has not begun begins with its first operation.         *)
getTxn(db, id) == IF id \in DOMAIN db.running THEN db.running[id] ELSE NewTxn

Runs(db, id, txn) == [db EXCEPT !.running = With(@, id, txn)]

(* A transaction that had begun is forgotten, what it has read or locked too.*)
begin(db, id) == Runs(db, id, NewTxn)

unbegin(db, id) == [db EXCEPT !.running = Without(@, id)]

PreparedTxn(db, id) ==
  [db EXCEPT !.running = Without(@, id),
             !.prepared = With(@, id, db.running[id])]

Retired(db, op, txn, state) ==
  [db EXCEPT !.retired = Append(@, [op |-> op, txn |-> txn, state |-> state])]

(* getRetiredTxn: the last one retired, whosever it is.                       *)
Unretired(db) == [db EXCEPT !.retired = Front(@)]

(* MUTANT of unprepare: a transaction that the prepare has aborted stays so. *)
MutantUnprepare(db, id) ==
  IF id \in DOMAIN db.prepared
  THEN Runs([db EXCEPT !.prepared = Without(@, id)], id, db.prepared[id])
  ELSE Unretired(db)

(* A transaction that the prepare has aborted is running again too.          *)
unprepare(db, id) ==
  IF id \in DOMAIN db.prepared
  THEN Runs([db EXCEPT !.prepared = Without(@, id)], id, db.prepared[id])
  ELSE Runs(Unretired(db), id, Last(db.retired).txn)

(* A transaction that is not there to abort ends the process.                *)
Abortable(db, id) == id \in DOMAIN db.running \cup DOMAIN db.prepared

AbortedTxn(db, id) ==
  IF id \in DOMAIN db.running THEN db.running[id] ELSE db.prepared[id]

abortTxn(db, op, id) ==
  IF id \in DOMAIN db.running
  THEN Retired([db EXCEPT !.running = Without(@, id)], op,
               AbortedTxn(db, id), "ABORTED_RUNNING")
  ELSE Retired([db EXCEPT !.prepared = Without(@, id)], op,
               AbortedTxn(db, id), "ABORTED_PREPARED")

CommittedTxn(db, op, id) ==
  Retired([db EXCEPT !.prepared = Without(@, id)], op, db.prepared[id],
          "COMMITTED")

unabort(db, id) ==
  LET t == Last(db.retired) IN
  CASE t.state = "ABORTED_PREPARED" ->
         [Unretired(db) EXCEPT !.prepared = With(@, id, t.txn)]
    [] t.state = "ABORTED_RUNNING" -> Runs(Unretired(db), id, t.txn)
    [] OTHER -> Unretired(db)

uncommit(db, id) ==
  [Unretired(db) EXCEPT !.prepared = With(@, id, Last(db.retired).txn)]

(* What is committed for good is not rolled back.  The list is in the order  *)
(* of the operations.                                                         *)
specCommit(db, op) ==
  [db EXCEPT !.retired = SelectSeq(@, LAMBDA t : t.op > op)]
=============================================================================
