----------------------------- MODULE LockServer -----------------------------
(***************************************************************************)
(* The read and write locks of a shard (nistore/lockserver.cc), one lock at *)
(* a time.  How long a requester has waited is read from the clock: every    *)
(* operator that looks at the queue returns the set of what may come of it.  *)
(***************************************************************************)
EXTENDS Integers, Sequences

Free == [state |-> "UNLOCKED", holders |-> {}, waitQ |-> << >>]

(* What an attempt leaves: the lock, and whether the requester has got it.   *)
Attempt(l, granted) == [lock |-> l, granted |-> granted]

(* Queue up, once.                                                            *)
waitForLock(l, requester, write) ==
  IF \E i \in DOMAIN l.waitQ : l.waitQ[i].id = requester THEN l
  ELSE [l EXCEPT !.waitQ = Append(@, [id |-> requester, write |-> write])]

(* Waiter::checkTimeout: those who have waited longest may have waited for  *)
(* too long, and are dropped from the queue's head.                           *)
Pruned(l) ==
  {[l EXCEPT !.waitQ = SubSeq(@, i, Len(@))] : i \in 1 .. Len(l.waitQ) + 1}

(* A free lock is for the requester if nobody waits, or he is the first to.  *)
tryAcquireLock(l, requester, write) ==
  {IF p.waitQ = << >> THEN Attempt(p, TRUE)
   ELSE IF Head(p.waitQ).id = requester
   THEN Attempt([p EXCEPT !.waitQ = Tail(@)], TRUE)
   ELSE Attempt(waitForLock(p, requester, write), FALSE) : p \in Pruned(l)}

isWriteNext(l) == l.waitQ # << >> /\ Head(l.waitQ).write

Taken(attempts, state, requester) ==
  {IF a.granted
   THEN Attempt([a.lock EXCEPT !.state = state, !.holders = @ \cup {requester}],
                TRUE)
   ELSE a : a \in attempts}

(* MUTANT of lockForRead: a lock held for writing is shared with readers.    *)
MutantLockForRead(l, requester) ==
  {Attempt([l EXCEPT !.holders = @ \cup {requester}], TRUE)}

(* A reader shares the lock with readers, unless a writer is next.           *)
lockForRead(l, requester) ==
  CASE l.state = "UNLOCKED" ->
         Taken(tryAcquireLock(l, requester, FALSE), "READ", requester)
    [] l.state = "READ" /\ requester \in l.holders -> {Attempt(l, TRUE)}
    [] l.state = "READ" /\ requester \notin l.holders ->
         {IF isWriteNext(p) THEN Attempt(waitForLock(p, requester, FALSE), FALSE)
          ELSE Attempt([p EXCEPT !.holders = @ \cup {requester}], TRUE) :
            p \in Pruned(l)}
    [] l.state \in {"WRITE", "READ_WRITE"} ->
         {IF requester \in l.holders
          THEN Attempt([l EXCEPT !.state = "READ_WRITE"], TRUE)
          ELSE Attempt(waitForLock(l, requester, FALSE), FALSE)}

(* The only reader may become the writer.                                     *)
lockForWrite(l, requester) ==
  CASE l.state = "UNLOCKED" ->
         Taken(tryAcquireLock(l, requester, TRUE), "WRITE", requester)
    [] l.state = "READ" ->
         {IF l.holders = {requester}
          THEN Attempt([l EXCEPT !.state = "READ_WRITE"], TRUE)
          ELSE Attempt(waitForLock(l, requester, TRUE), FALSE)}
    [] l.state \in {"WRITE", "READ_WRITE"} ->
         {IF requester \in l.holders THEN Attempt(l, TRUE)
          ELSE Attempt(waitForLock(l, requester, TRUE), FALSE)}

(* The lock without one of its holders.                                       *)
Left(l, holder) ==
  [l EXCEPT !.holders = @ \ {holder},
            !.state = IF l.holders = {holder} THEN "UNLOCKED" ELSE @]

releaseForRead(l, holder) ==
  CASE holder \in l.holders /\ l.state = "READ" -> Left(l, holder)
    [] holder \in l.holders /\ l.state = "READ_WRITE" ->
         [l EXCEPT !.state = "WRITE"]
    [] OTHER -> l

releaseForWrite(l, holder) ==
  CASE holder \in l.holders /\ l.state = "WRITE" -> Left(l, holder)
    [] holder \in l.holders /\ l.state = "READ_WRITE" ->
         [l EXCEPT !.state = "READ"]
    [] OTHER -> l

-----------------------------------------------------------------------------
(* The state of a lock is what its holders make of it, and a writer is its   *)
(* only holder (lockserver.h, struct Lock).                                   *)
LockOK(l) ==
  /\ l.state \in {"UNLOCKED", "READ", "WRITE", "READ_WRITE"}
  /\ l.state = "UNLOCKED" <=> l.holders = {}
  /\ l.state \in {"WRITE", "READ_WRITE"} => \E h \in l.holders : l.holders = {h}
=============================================================================
