---------------------------- MODULE TruncatedLog ----------------------------
(***************************************************************************)
(* The operation log of a replica whose oldest entries may be cleaned away  *)
(* (common/log.cc, log-impl.h).  An entry is found by its distance from the *)
(* log's first opnum, start; what opnum the entry there really has is only  *)
(* asserted, and the assertions are compiled out.                            *)
(***************************************************************************)
EXTENDS Integers, Sequences, SequencesExt

EmptyLog == [start |-> 1, entries |-> << >>]

Entry(view, opnum, request) ==
  [view |-> view, opnum |-> opnum, request |-> request]

Place(log, opnum) == opnum - log.start + 1

Has(log, opnum) == Place(log, opnum) \in DOMAIN log.entries

(* Log::Find *)
Find(log, opnum) == log.entries[Place(log, opnum)]

(* Log::LastViewstamp, and the opnum in it, Log::LastOpnum: an empty log    *)
(* ends before its start, in view 0 whatever the entries were it has lost.   *)
LastViewstamp(log) ==
  IF log.entries = << >> THEN [view |-> 0, opnum |-> log.start - 1]
  ELSE [view |-> Last(log.entries).view, opnum |-> Last(log.entries).opnum]

LastOpnum(log) == LastViewstamp(log).opnum

(* The opnums from low to high, of which there may be none.                 *)
Opnums(low, high) ==
  [i \in 1 .. (IF high < low THEN 0 ELSE high - low + 1) |-> low + i - 1]

(* Log::Append *)
AppendEntry(log, e) == [log EXCEPT !.entries = Append(@, e)]

(* Log::Dump: the entries from an opnum on that are still there.             *)
Dump(log, from) ==
  SubSeq(log.entries,
         Place(log, IF from > log.start THEN from ELSE log.start),
         Place(log, LastOpnum(log)))

(* Log::RemoveAfter: drop the entries from an opnum on.                      *)
RemoveAfter(log, opnum) ==
  IF opnum > LastOpnum(log) THEN log
  ELSE [log EXCEPT !.entries = SubSeq(@, 1, Place(log, opnum) - 1)]

(* The last entry to go is left.                                             *)
MutantRemoveUpTo(log, opnum) ==
  IF opnum < log.start THEN log
  ELSE [start   |-> opnum + 1,
        entries |-> SubSeq(log.entries, Place(log, opnum), Len(log.entries))]

(* Log::RemoveUpTo: drop the entries up to an opnum, and start after it.     *)
RemoveUpTo(log, opnum) ==
  IF opnum < log.start THEN log
  ELSE [start   |-> opnum + 1,
        entries |-> SubSeq(log.entries, Place(log, opnum) + 1,
                           Len(log.entries))]

(* Log::Install: the log is kept up to the first entry that it should have  *)
(* and has not, or has of another view; from there on it is replaced.        *)
(* Entries from before the log's start are passed over.                      *)
Install(log, entries) ==
  LET differs(e) == Has(log, e.opnum) /\ Find(log, e.opnum).view # e.view
      missing(e) == ~Has(log, e.opnum) /\ e.opnum >= log.start
      new  == {i \in DOMAIN entries : differs(entries[i]) \/ missing(entries[i])}
      i    == CHOOSE j \in new : \A k \in new : j <= k
      kept == IF differs(entries[i]) THEN RemoveAfter(log, entries[i].opnum)
              ELSE log
  IN  IF new = {} THEN log
      ELSE [kept EXCEPT !.entries = @ \o SubSeq(entries, i, Len(entries))]
=============================================================================
