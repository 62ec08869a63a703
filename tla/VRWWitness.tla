----------------------------- MODULE VRWWitness -----------------------------
(***************************************************************************)
(* A witness of Viewstamped Replication (vrw/witness.cc): it logs what the  *)
(* leader prepares, acknowledges it and votes in view changes and           *)
(* recoveries, and it executes nothing.  Requests, PREPAREOKs and            *)
(* DOVIEWCHANGEs are not for it.                                              *)
(***************************************************************************)
EXTENDS VRWState

WitnessStep(w, step) ==
  /\ step.s.view <= MaxView
  /\ witness' = [witness EXCEPT ![w] = step.s]
  /\ msgs' = msgs \cup step.out
  /\ UNCHANGED <<replica, restarts, invoked>>

(* Committing is only noted; what is not in the log cannot be (a panic).     *)
WitnessCanCommit(s, upto) ==
  \A k \in s.lastCommitted + 1 .. upto : Has(s.log, k)

WitnessCommitUpTo(s, upto) ==
  [s EXCEPT !.lastCommitted = IF upto > @ THEN upto ELSE @]

(* Acknowledge what is new, from oldLastOp on, and not committed.            *)
WitnessSendPrepareOKs(w, s, oldLastOp) ==
  Went(s, {PrepareOK(w, s, s.view, k) :
             k \in Larger(oldLastOp, s.lastCommitted + 1) .. s.lastOp})

WitnessEnterView(s, view) ==
  [s EXCEPT !.view = view, !.status = "NORMAL", !.startViewChanges = {},
            !.recoveryResponses = {}]

WitnessStartViewChange(w, s, view) ==
  Went([s EXCEPT !.view = view, !.status = "VIEW_CHANGE",
                 !.startViewChanges = {}],
       {StartViewChangeMessage(w, s, view)})

WitnessCleanLog(s, upto) ==
  IF upto <= s.cleanUpTo THEN s
  ELSE [s EXCEPT !.cleanUpTo = upto, !.log = RemoveUpTo(@, upto)]
-----------------------------------------------------------------------------
(* The normal case *)

(* The requests of a PREPARE that come after the log's last one.             *)
WitnessAppended(s, m) ==
  LET entry(op) == Entry(m.view, op, m.requests[op - m.batchStart + 1])
      new       == Opnums(s.lastOp + 1, m.opnum)
  IN  [s EXCEPT !.lastOp = m.opnum,
                !.log.entries = @ \o [i \in DOMAIN new |-> entry(new[i])]]

WitnessHandlePrepareInView(w, m) ==
  LET s  == WitnessCleanLog(witness[w], m.cleanUpTo)
      ok == PrepareOK(w, s, m.view, m.opnum)
  IN  /\ m.cleanUpTo <= witness[w].lastCommitted
      /\ \/ /\ m.opnum <= s.lastOp
            /\ WitnessStep(w, Went(s, {ok}))
         \/ /\ m.opnum > s.lastOp /\ m.batchStart > s.lastOp + 1
            /\ WitnessStep(w, Went(s, RequestStateTransfer(w, s)))
         \/ /\ m.opnum > s.lastOp /\ m.batchStart <= s.lastOp + 1
            /\ WitnessStep(w, Went(WitnessAppended(s, m), {ok}))

(* Unlike a replica, a witness that is changing the view waits for the       *)
(* STARTVIEW.                                                                 *)
WitnessHandlePrepare(w) ==
  LET s == witness[w] IN
  \E m \in Received("PREPARE") :
    /\ s.status = "NORMAL"
    /\ \/ /\ m.view > s.view
          /\ WitnessStep(w, Went(s, RequestStateTransfer(w, s)))
       \/ /\ m.view = s.view
          /\ WitnessHandlePrepareInView(w, m)

WitnessHandleCommit(w) ==
  LET s == witness[w] IN
  \E m \in Received("COMMIT") :
    /\ s.status = "NORMAL"
    /\ \/ /\ \/ m.view > s.view
             \/ m.view = s.view /\ m.opnum > s.lastCommitted /\ m.opnum > s.lastOp
          /\ WitnessStep(w, Went(s, RequestStateTransfer(w, s)))
       \/ /\ m.view = s.view
          /\ m.opnum > s.lastCommitted /\ m.opnum <= s.lastOp
          /\ WitnessCanCommit(s, m.opnum)
          /\ WitnessStep(w, Went(WitnessCommitUpTo(s, m.opnum), {}))
-----------------------------------------------------------------------------
(* State transfer *)

(* A witness has the log, and so it answers as a replica does.               *)
WitnessHandleRequestStateTransfer(w) ==
  LET s == witness[w] IN
  \E m \in Received("REQUESTSTATETRANSFER") :
    /\ m.src # w /\ s.status = "NORMAL"
    /\ WitnessStep(w, Went(s, IF m.view > s.view THEN RequestStateTransfer(w, s)
                              ELSE {StateTransfer(s, m.opnum, m.src)}))

(* One entry of a STATETRANSFER: it is there, it replaces an entry of an    *)
(* older view and everything after it, or it is the next one.                *)
WitnessTransferred(y, e) ==
  LET s    == y.s
      next == [s EXCEPT !.log = AppendEntry(@, e), !.lastOp = @ + 1]
      kept == AppendEntry(RemoveAfter(s.log, e.opnum), e)
  IN  CASE e.opnum <= s.lastCommitted -> y
        [] e.opnum > s.lastCommitted /\ e.opnum <= s.lastOp ->
             IF Find(s.log, e.opnum).view = e.view THEN y
             ELSE [s   |-> [s EXCEPT !.log = kept, !.lastOp = e.opnum],
                   old |-> e.opnum]
        [] e.opnum > s.lastCommitted /\ e.opnum > s.lastOp ->
             [y EXCEPT !.s = next]

(* Only a later view is entered.                                              *)
WitnessHandleStateTransfer(w) ==
  \E m \in Received("STATETRANSFER") :
    LET s == witness[w]
        y == FoldLeft(WitnessTransferred, [s |-> s, old |-> s.lastOp], m.entries)
        t == IF m.view > s.view THEN WitnessEnterView(y.s, m.view) ELSE y.s
    IN  /\ m.to = w /\ m.view >= s.view
        /\ WitnessCanCommit(t, m.opnum)
        /\ WitnessStep(w, WitnessSendPrepareOKs(
                            w, WitnessCommitUpTo(t, m.opnum), y.old))
-----------------------------------------------------------------------------
(* View change *)

WitnessViewChangeTimeout(w) ==
  LET s == witness[w] IN
  /\ w \in Impatient
  /\ s.status \in {"VIEW_CHANGE", "NORMAL"}
  /\ WitnessStep(w, WitnessStartViewChange(w, s, NextView(s.view)))

WitnessJoined(w, s, view) ==
  IF view > s.view THEN WitnessStartViewChange(w, s, view) ELSE Went(s, {})

(* The witness has heard of no one's commits but by the STARTVIEWCHANGEs:    *)
(* its DOVIEWCHANGE has all that has not been cleaned.                        *)
WitnessHandleStartViewChange(w) ==
  \E m \in Received("STARTVIEWCHANGE") :
    LET x == WitnessJoined(w, witness[w], m.view)
        s == [x.s EXCEPT !.startViewChanges = With(@, m)]
    IN  /\ m.src # w
        /\ Joins(witness[w], m.view)
        /\ WitnessStep(w, IF Cardinality(s.startViewChanges) >= QuorumSize - 1
                          THEN Went(s, x.out \cup {DoViewChange(w, s, 0)})
                          ELSE Went(s, x.out))

WitnessHandleStartView(w) ==
  LET s == witness[w] IN
  \E m \in Received("STARTVIEW") :
    LET entered == [WitnessEnterView(s, m.view) EXCEPT
                      !.log = Replaced(s.log, m), !.lastOp = m.lastOp]
    IN  /\ Joins(s, m.view) /\ Reaches(s, m)
        /\ WitnessCanCommit(entered, m.lastCommitted)
        /\ WitnessStep(w, WitnessSendPrepareOKs(
                            w, WitnessCommitUpTo(entered, m.lastCommitted),
                            s.lastOp))
-----------------------------------------------------------------------------
(* Crash and recovery *)

WitnessRestart(w) ==
  /\ MayRestart
  /\ restarts' = [restarts EXCEPT ![w] = @ + 1]
  /\ witness' = [witness EXCEPT ![w] = [InitialMember EXCEPT
                                          !.status = "RECOVERING"]]
  /\ msgs' = msgs \cup {Recovery(w)'}
  /\ UNCHANGED <<replica, invoked>>

(* Its answer tells the view, and never has a log.                            *)
WitnessHandleRecovery(w) ==
  \E m \in Received("RECOVERY") :
    /\ m.src # w /\ witness[w].status = "NORMAL"
    /\ WitnessStep(w, Went(witness[w],
         {[type |-> "RECOVERYRESPONSE", view |-> witness[w].view, src |-> w,
           to |-> m.src, nonce |-> m.nonce, lastOp |-> 0, lastCommitted |-> 0,
           entries |-> << >>]}))

WitnessHandleRecoveryResponse(w) ==
  \E m \in Received("RECOVERYRESPONSE") :
    LET s == [witness[w] EXCEPT !.recoveryResponses = With(@, m)]
        leader == FromLeader(s.recoveryResponses)
    IN  /\ m.to = w /\ m.nonce = Nonce(w)
        /\ s.status = "RECOVERING"
        /\ \/ /\ ~RecoveryResponseQuorum(s.recoveryResponses) \/ leader = {}
              /\ WitnessStep(w, Went(s, {}))
           \/ /\ RecoveryResponseQuorum(s.recoveryResponses)
              /\ \E d \in leader :
                   LET t == [WitnessEnterView(s, d.view) EXCEPT
                               !.log = Install(@, d.entries),
                               !.lastOp = d.lastOp]
                   IN  /\ WitnessCanCommit(t, d.lastCommitted)
                       /\ WitnessStep(w, Went(WitnessCommitUpTo(
                                                t, d.lastCommitted), {}))

WitnessNext(w) ==
  \/ WitnessHandlePrepare(w) \/ WitnessHandleCommit(w)
  \/ WitnessHandleRequestStateTransfer(w) \/ WitnessHandleStateTransfer(w)
  \/ WitnessViewChangeTimeout(w) \/ WitnessHandleStartViewChange(w)
  \/ WitnessHandleStartView(w)
  \/ WitnessRestart(w) \/ WitnessHandleRecovery(w)
  \/ WitnessHandleRecoveryResponse(w)
=============================================================================
