------------------------------ MODULE SpecPaxos -----------------------------
(***************************************************************************)
(* The Speculative Paxos replica and client (spec/replica.cc, client.cc).   *)
(* Clients send a request to every replica; each replica executes it        *)
(* speculatively where it arrives and answers with the hash of its log.     *)
(* The leader of the view synchronises the replicas: entries on which a     *)
(* superquorum agrees are committed.  When they disagree, a view change     *)
(* merges the logs of a quorum, rolls back what does not match and          *)
(* executes the merged log.                                                 *)
(*                                                                          *)
(* One action is one message handler or timer callback; a replica is an     *)
(* event loop and runs them one at a time.  A handler's subroutines are     *)
(* functions of the replica's state, and Step installs what they return.    *)
(* Datagrams are never taken out of msgs, so that each may arrive late,     *)
(* more than once, in any order, or never.                                  *)
(***************************************************************************)
EXTENDS Configuration, Sequences, SequencesExt

CONSTANTS
  Clients,
  DVCFudge,   \* entries a DOVIEWCHANGE or STARTVIEW repeats (25 in the code)
  Impatient,  \* replicas whose timers may expire, clients that complain
  MaxReqId,   \* bound: requests a client makes
  MaxSyncs,   \* bound: different SYNCs a leader's timer sends in a view
  MaxView     \* bound: the last view

ASSUME SpecPaxosAssumption ==
  /\ DVCFudge \in Nat /\ MaxReqId \in Nat
  /\ MaxSyncs \in Nat /\ MaxView \in Nat
  /\ Impatient \subseteq Indices \cup Clients
-----------------------------------------------------------------------------
(* Data *)

Request == [client : Clients, id : 1 .. MaxReqId]

Entry(view, request, prev) ==
  [view |-> view, request |-> request, prev |-> prev]

(* The hash chain runs over the requests, so the hash of an entry stands    *)
(* for the requests up to it.                                               *)
Hash(log, opnum) == [i \in 1 .. opnum |-> log[i].request]

NoEntry == [id |-> 0, op |-> 0]

VARIABLES
  replica,  \* replica[r]: what the replica r keeps
  invoked,  \* invoked[c]: clientreqid of the client's last request
  msgs      \* every datagram sent so far, requests excepted

vars == <<replica, invoked, msgs>>

(* Fields that only count for the current view or status are cleared when   *)
(* it is left; the code keeps them under the old view's key.                 *)
InitialReplica ==
  [status |-> "NORMAL", view |-> 0, log |-> << >>, lastCommitted |-> 0,
   clientTable |-> [c \in Clients |-> NoEntry], clientAddresses |-> {},
   pendingRequests |-> << >>, pendingSync |-> 0, syncReplies |-> {},
   startViewChanges |-> {}, doViewChanges |-> {}, inViews |-> {},
   sentDoViewChange |-> FALSE, needFillDVC |-> FALSE]

Init ==
  /\ replica = [r \in Indices |-> InitialReplica]
  /\ invoked = [c \in Clients |-> 0]
  /\ msgs = {}

lastSpeculative(s) == Len(s.log)

LastViewstampView(s) == IF s.log = << >> THEN 0 ELSE Last(s.log).view

AmLeader(r, s) == GetLeaderIndex(s.view) = r
-----------------------------------------------------------------------------
(* Messages *)

Reply(r, s, opnum, committed) ==
  [type |-> "SPECULATIVEREPLY", request |-> s.log[opnum].request, src |-> r,
   view |-> s.log[opnum].view, hash |-> Hash(s.log, opnum),
   committed |-> committed]

Sync(s) ==
  [type |-> "SYNC", view |-> s.view, lastCommitted |-> s.lastCommitted,
   hash |-> Hash(s.log, s.lastCommitted),
   lastSpeculative |-> lastSpeculative(s)]

SyncReply(r, s, opnum) ==
  [type |-> "SYNCREPLY", view |-> s.view, src |-> r,
   lastSpeculative |-> opnum, hash |-> Hash(s.log, opnum)]

StartViewChangeMessage(r, view) ==
  [type |-> "STARTVIEWCHANGE", view |-> view, src |-> r]

(* The opnums from low to high, of which there may be none.                 *)
Opnums(low, high) == [i \in 1 .. Larger(high - low + 1, 0) |-> low + i - 1]

(* Log::Dump: the entries from an opnum on, as they travel.                 *)
Dump(s, from) ==
  LET opnums == Opnums(Larger(from, 1), lastSpeculative(s))
  IN  [i \in DOMAIN opnums |->
         LET k == opnums[i] IN
         [opnum |-> k, view |-> s.log[k].view, request |-> s.log[k].request,
          hash |-> Hash(s.log, k), committed |-> k <= s.lastCommitted]]

(* Where the dump of a DOVIEWCHANGE or a STARTVIEW starts.                  *)
DumpStart(s) ==
  IF lastSpeculative(s) > DVCFudge THEN lastSpeculative(s) - DVCFudge ELSE 1

DoViewChange(r, s, from) ==
  [type |-> "DOVIEWCHANGE", view |-> s.view, src |-> r,
   lastNormalView |-> LastViewstampView(s),
   lastSpeculative |-> lastSpeculative(s),
   lastCommitted |-> s.lastCommitted, entries |-> Dump(s, from)]

(* A DoViewChangeMessage as its constructor leaves it.                      *)
EmptyDoViewChange(r) ==
  [type |-> "DOVIEWCHANGE", view |-> 0, src |-> r, lastNormalView |-> 0,
   lastSpeculative |-> 0, lastCommitted |-> 0, entries |-> << >>]

StartView(s, from, to) ==
  [type |-> "STARTVIEW", view |-> s.view, to |-> to,
   lastSpeculative |-> lastSpeculative(s),
   lastCommitted |-> s.lastCommitted, entries |-> Dump(s, from)]

InView(r, view, opnum) ==
  [type |-> "INVIEW", view |-> view, src |-> r, lastSpeculative |-> opnum]

FillLogGap(r, s, view) ==
  [type |-> "FILLLOGGAP", view |-> view, src |-> r,
   lastCommitted |-> s.lastCommitted]

FillDVCGap(s, to) ==
  [type |-> "FILLDVCGAP", view |-> s.view, to |-> to,
   lastCommitted |-> s.lastCommitted]

Received(type) == {m \in msgs : m.type = type}
-----------------------------------------------------------------------------
(* The replica's subroutines: each maps its state to the next one. *)

CommitUpTo(s, upto) == [s EXCEPT !.lastCommitted = Larger(@, upto)]

(* MUTANT of RevertedTable: rolling back forgets the client table.          *)
MutantRevertedTable(s, backto) == s.clientTable

(* The client table of a log whose entries after backto are taken back: an  *)
(* entry goes back to what it was before the first of them.                  *)
RevertedTable(s, backto) ==
  [c \in Clients |->
     LET gone == {i \in backto + 1 .. lastSpeculative(s) :
                    s.log[i].request.client = c}
         op   == s.log[Min(gone)].prev
     IN  IF gone = {} THEN s.clientTable[c]
         ELSE [op |-> op, id |-> IF op = 0 THEN 0 ELSE s.log[op].request.id]]

RollbackTo(s, backto) ==
  IF backto >= lastSpeculative(s) THEN s
  ELSE [s EXCEPT !.clientTable = RevertedTable(s, backto),
                 !.log = SubSeq(@, 1, backto)]

(* MUTANT of Speculate: the entry forgets what the client table held.       *)
MutantSpeculate(s, view, request) ==
  [s EXCEPT !.log = Append(@, Entry(view, request, 0)),
            !.clientTable[request.client] =
               [id |-> request.id, op |-> lastSpeculative(s) + 1]]

(* Append an entry, execute it and record it in the client table.           *)
Speculate(s, view, request) ==
  LET c   == request.client
      old == s.clientTable[c]
  IN  [s EXCEPT
         !.log = Append(@, Entry(view, request, old.op)),
         !.clientTable[c] =
            IF old.id = request.id THEN old
            ELSE [id |-> request.id, op |-> lastSpeculative(s) + 1]]

(* A step is the state reached and the datagrams sent on the way.           *)
Went(s, out) == [s |-> s, out |-> out]

(* The duplicate of the last request is answered from the log, whatever the *)
(* status.                                                                   *)
Answer(r, s, request) ==
  LET op == s.clientTable[request.client].op
  IN  {Reply(r, s, op, op <= s.lastCommitted)}

ExecuteRequest(r, x, request) ==
  LET c     == request.client
      s     == [x.s EXCEPT !.clientAddresses = @ \cup {c}]
      last  == s.clientTable[c].id
      done  == Speculate(s, s.view, request)
      opnum == lastSpeculative(done)
      sync  == IF opnum = s.pendingSync THEN {SyncReply(r, done, opnum)} ELSE {}
  IN  CASE request.id < last -> Went(s, x.out)
        [] request.id = last -> Went(s, x.out \cup Answer(r, s, request))
        [] request.id > last /\ s.status # "NORMAL" ->
             Went([s EXCEPT !.pendingRequests =
                     IF Contains(@, request) THEN @ ELSE Append(@, request)],
                  x.out)
        [] request.id > last /\ s.status = "NORMAL" ->
             Went(done, x.out \cup {Reply(r, done, opnum, FALSE)} \cup sync)

EnterView(r, x, view) ==
  LET entered == [x.s EXCEPT !.view = view, !.status = "NORMAL",
                             !.syncReplies = {}, !.startViewChanges = {},
                             !.doViewChanges = {}, !.inViews = {},
                             !.sentDoViewChange = FALSE,
                             !.needFillDVC = FALSE, !.pendingSync = 0,
                             !.pendingRequests = << >>]
  IN  FoldLeft(LAMBDA y, request : ExecuteRequest(r, y, request),
               Went(entered, x.out), x.s.pendingRequests)

StartViewChange(r, s, view) ==
  Went([s EXCEPT !.view = view, !.status = "VIEW_CHANGE",
                 !.syncReplies = {}, !.startViewChanges = {},
                 !.doViewChanges = {}, !.inViews = {},
                 !.sentDoViewChange = FALSE, !.needFillDVC = FALSE,
                 !.pendingSync = 0],
       {StartViewChangeMessage(r, view)})
-----------------------------------------------------------------------------
(* InstallLog *)

(* MUTANT of Agree: entries at the same opnum are taken for the same.       *)
MutantAgree(s, entries, low, high) == {k \in low .. high : k <= lastSpeculative(s)}

(* The opnums from low to high at which the log agrees with the new one.    *)
Agree(s, entries, low, high) ==
  {k \in low .. high :
     /\ k <= lastSpeculative(s)
     /\ entries[k - entries[1].opnum + 1].hash = Hash(s.log, k)}

(* Commit what of the log the new one has committed, roll back what differs *)
(* from it, execute the rest of it speculatively, then commit.              *)
InstallLog(r, s, entries) ==
  LET start     == IF entries = << >> THEN 0 ELSE entries[1].opnum
      newLast   == IF entries = << >> THEN 0 ELSE Last(entries).opnum
      committed == {e.opnum : e \in {f \in ToSet(entries) : f.committed}}
      target    == Max({s.lastCommitted} \cup committed)
      from      == Larger(s.lastCommitted + 1, start)
      early     == CommitUpTo(s, Max({s.lastCommitted} \cup
                                     Agree(s, entries, from, target)))
      low       == Larger(early.lastCommitted + 1, start)
      backto    == Max({low - 1} \cup Agree(early, entries, low, newLast))
      kept      == RollbackTo(early, backto)
      fresh     == SubSeq(entries, lastSpeculative(kept) + 2 - start,
                          newLast + 1 - start)
      Install(x, e) ==
        LET done == Speculate(x.s, e.view, e.request)
        IN  Went(done,
                 IF e.request.client \notin done.clientAddresses THEN x.out
                 ELSE x.out \cup {Reply(r, done, lastSpeculative(done),
                                        e.committed)})
      installed == FoldLeft(Install, Went(kept, {}), fresh)
  IN  Went(CommitUpTo(installed.s, target), installed.out)
-----------------------------------------------------------------------------
(* MergeLogs *)

EntryAt(dvc, opnum) == dvc.entries[opnum - dvc.entries[1].opnum + 1]

(* The entries from low to high.                                            *)
Entries(dvc, low, high) ==
  LET opnums == Opnums(low, high)
  IN  [i \in DOMAIN opnums |-> EntryAt(dvc, opnums[i])]

(* The logs of the latest view.                                             *)
LatestViewMessages(dvcs) ==
  LET latest == Max({d.lastNormalView : d \in dvcs})
  IN  {d \in dvcs : d.lastNormalView = latest}

(* Of several, the one of the replica with the least index is met first.    *)
First(dvcs) == CHOOSE d \in dvcs : \A e \in dvcs : d.src <= e.src

MostCommitted(latest) ==
  First({d \in latest : \A e \in latest : e.lastCommitted <= d.lastCommitted})

MergedEntry(e, committed) ==
  [opnum |-> e.opnum, view |-> e.view, request |-> e.request,
   hash |-> e.hash, committed |-> committed]

(* First what the log with the most committed operations has committed.     *)
CommittedPart(latest, maxStart) ==
  LET most    == MostCommitted(latest)
      entries == IF most.entries = << >> THEN << >>
                 ELSE Entries(most, Larger(most.entries[1].opnum, maxStart),
                              most.lastCommitted)
  IN  [i \in DOMAIN entries |-> MergedEntry(entries[i], TRUE)]

(* Then, position by position, the entry found in so many of the logs that  *)
(* it may have reached a superquorum.                                        *)
MatchingEntriesNeeded(latest) ==
  Min({FastQuorumSize - F, Cardinality(latest)})

Having(latest, opnum) == {d \in latest : d.lastSpeculative >= opnum}

FoundAt(latest, opnum) ==
  LET having  == Having(latest, opnum)
      With(h) == {d \in having : EntryAt(d, opnum).hash = h}
      hashes  == {EntryAt(d, opnum).hash : d \in having}
      enough  == {h \in hashes :
                    Cardinality(With(h)) >= MatchingEntriesNeeded(latest)}
  IN  SetToSeq({MergedEntry(EntryAt(First(With(h)), opnum), FALSE) : h \in enough})

QuorumStart(latest, maxStart) ==
  LET part == CommittedPart(latest, maxStart)
      next == IF part = << >> THEN 1 ELSE Last(part).opnum + 1
  IN  Larger(next, maxStart)

MaxSpeculative(latest) == Max({d.lastSpeculative : d \in latest})

QuorumPart(latest, maxStart) ==
  LET opnums == Opnums(QuorumStart(latest, maxStart), MaxSpeculative(latest))
  IN  FlattenSeq([i \in DOMAIN opnums |-> FoundAt(latest, opnums[i])])

(* Then every other speculative operation, in the new view.                 *)
Speculative(d, maxStart) ==
  Entries(d, Larger(d.lastCommitted + 1, maxStart), d.lastSpeculative)

SpeculativeFrom(latest, r, maxStart) ==
  LET own == {d \in latest : d.src = r}
  IN  IF own = {} THEN << >> ELSE Speculative(First(own), maxStart)

(* MUTANT of AddUnseen: an operation found in two logs is added twice.      *)
MutantAddUnseen(view, out, e) ==
  LET next == IF out = << >> THEN 1 ELSE Last(out).opnum + 1
      hash == IF out = << >> THEN << >> ELSE Last(out).hash
  IN  Append(out, [opnum |-> next, view |-> view, request |-> e.request,
                   hash |-> Append(hash, e.request), committed |-> FALSE])

AddUnseen(view, out, e) ==
  IF \E i \in DOMAIN out : out[i].request = e.request THEN out
  ELSE LET next == IF out = << >> THEN 1 ELSE Last(out).opnum + 1
           hash == IF out = << >> THEN << >> ELSE Last(out).hash
       IN  Append(out, [opnum |-> next, view |-> view, request |-> e.request,
                        hash |-> Append(hash, e.request), committed |-> FALSE])

MergeLogs(view, maxStart, dvcs) ==
  LET latest == LatestViewMessages(dvcs)
      rest   == FlattenSeq([i \in 1 .. N |->
                              SpeculativeFrom(latest, i - 1, maxStart)])
  IN  FoldLeft(LAMBDA out, e : AddUnseen(view, out, e),
               CommittedPart(latest, maxStart) \o QuorumPart(latest, maxStart),
               rest)

(* The positions MergeLogs reads are in the messages it reads them from.    *)
ReadsInRange(maxStart, dvcs) ==
  LET latest == LatestViewMessages(dvcs)
  IN  \A d \in latest :
        \A low \in {QuorumStart(latest, maxStart),
                    Larger(d.lastCommitted + 1, maxStart)} :
          low <= d.lastSpeculative =>
            d.entries # << >> /\ d.entries[1].opnum <= low
-----------------------------------------------------------------------------
(* The replica's handlers *)

Step(r, step) ==
  /\ step.s.view <= MaxView
  /\ replica' = [replica EXCEPT ![r] = step.s]
  /\ msgs' = msgs \cup step.out
  /\ UNCHANGED invoked

HandleRequest(r) ==
  \E c \in Clients : \E id \in 1 .. invoked[c] :
    Step(r, ExecuteRequest(r, Went(replica[r], {}), [client |-> c, id |-> id]))

(* The leader's timer.  The code also calls SendSync in HandleRequest, once  *)
(* in SYNC_TIMEOUT_REQUESTS requests: the timer may as well expire then.     *)
SendSync(r) ==
  /\ AmLeader(r, replica[r])
  /\ replica[r].status = "NORMAL"
  /\ LET syncs == Received("SYNC") \cup {Sync(replica[r])} IN
     Cardinality({m \in syncs : m.view = replica[r].view}) <= MaxSyncs
  /\ Step(r, Went(replica[r], {Sync(replica[r])}))

(* What a SYNC of the replica's own view says is committed is its own log.  *)
Consistent(s, m) ==
  /\ m.lastCommitted <= lastSpeculative(s)
  /\ m.lastCommitted > s.lastCommitted => Hash(s.log, m.lastCommitted) = m.hash

HandleSync(r) ==
  LET s == replica[r] IN
  \E m \in Received("SYNC") :
    /\ GetLeaderIndex(m.view) # r
    /\ s.status = "NORMAL" /\ m.view >= s.view
    /\ \/ /\ m.view > s.view
          /\ Step(r, StartViewChange(r, s, m.view + 1))
       \/ /\ m.view = s.view /\ ~Consistent(s, m)
          /\ Step(r, StartViewChange(r, s, s.view + 1))
       \/ /\ m.view = s.view /\ Consistent(s, m)
          /\ LET t == CommitUpTo(s, m.lastCommitted) IN
             IF m.lastSpeculative > lastSpeculative(t)
             THEN Step(r, Went([t EXCEPT !.pendingSync = m.lastSpeculative],
                               {}))
             ELSE Step(r, Went(t, {SyncReply(r, t, m.lastSpeculative)}))

(* A replica's later answer for an opnum replaces its earlier one.  Answers *)
(* for what is already committed only keep a timer from expiring.           *)
WithSyncReply(s, m) ==
  LET stale(q) == q.opnum = m.lastSpeculative /\ q.src = m.src
  IN  [s EXCEPT !.syncReplies =
         {q \in @ : ~stale(q)} \cup
         {[opnum |-> m.lastSpeculative, src |-> m.src, hash |-> m.hash]}]

(* FastQuorumSize - 1 answers are awaited: the leader's own is not sent.    *)
SyncQuorum(replies) == Cardinality(replies) >= FastQuorumSize - 1

(* A superquorum with the same hash, the leader included, commits.  None    *)
(* can agree on another hash: the first quorum that does not agree with the *)
(* leader's ends the view.                                                    *)
SyncAgreed(same) == Cardinality(same) + 1 >= FastQuorumSize

HandleSyncReply(r) ==
  \E m \in Received("SYNCREPLY") :
    LET s       == WithSyncReply(replica[r], m)
        replies == {q \in s.syncReplies : q.opnum = m.lastSpeculative}
        same    == {q \in replies : q.hash = Hash(s.log, m.lastSpeculative)}
    IN  /\ s.status = "NORMAL" /\ m.view = s.view /\ AmLeader(r, s)
        /\ m.lastSpeculative > s.lastCommitted
        /\ \/ ~SyncQuorum(replies) /\ Step(r, Went(s, {}))
           \/ /\ SyncQuorum(replies) /\ SyncAgreed(same)
              /\ Step(r, Went(CommitUpTo(s, m.lastSpeculative), {}))
           \/ /\ SyncQuorum(replies) /\ ~SyncAgreed(same)
              /\ Step(r, StartViewChange(r, s, s.view + 1))

(* viewChangeTimeout of a follower, failedSyncTimeout of the leader.        *)
ViewChangeTimeout(r) ==
  /\ r \in Impatient
  /\ Step(r, StartViewChange(r, replica[r], replica[r].view + 1))

HandleRequestViewChange(r) ==
  \E m \in Received("REQUESTVIEWCHANGE") :
    /\ m.view = replica[r].view
    /\ Step(r, StartViewChange(r, replica[r], replica[r].view + 1))

(* MUTANT of Joins: a view that was entered already is changed again.       *)
MutantJoins(s, view) == view >= s.view

(* A message for a later view starts that view's change; one for a view     *)
(* left behind, or entered already, is ignored.                              *)
Joins(s, view) == view > s.view \/ (view = s.view /\ s.status = "VIEW_CHANGE")

Joined(r, s, view) ==
  IF view > s.view THEN StartViewChange(r, s, view) ELSE Went(s, {})

(* The leader keeps its own DOVIEWCHANGE without looking for a quorum.       *)
SendDoViewChange(r, x) ==
  LET s   == [x.s EXCEPT !.sentDoViewChange = TRUE]
      dvc == DoViewChange(r, s, DumpStart(s))
  IN  IF AmLeader(r, s)
      THEN Went([s EXCEPT !.doViewChanges = {d \in @ : d.src # r} \cup {dvc}],
                x.out)
      ELSE Went(s, x.out \cup {dvc})

HandleStartViewChange(r) ==
  \E m \in Received("STARTVIEWCHANGE") :
    LET x == Joined(r, replica[r], m.view)
        s == [x.s EXCEPT !.startViewChanges = @ \cup {m.src}]
        leader == GetLeaderIndex(m.view)
    IN  /\ m.src # r
        /\ Joins(replica[r], m.view)
        /\ Step(r, IF /\ Cardinality(s.startViewChanges) >= QuorumSize - 1
                      /\ ~s.sentDoViewChange
                      /\ leader \in {r} \cup s.startViewChanges
                   THEN SendDoViewChange(r, Went(s, x.out))
                   ELSE Went(s, x.out))

WithDoViewChange(s, m) ==
  [s EXCEPT !.doViewChanges = {d \in @ : d.src # m.src} \cup {m}]

MaxStart(dvcs) ==
  Max({0} \cup {d.entries[1].opnum : d \in {e \in dvcs : e.entries # << >>}})

(* The logs start too late, end too early or differ where the last of them  *)
(* starts, so that longer ones are needed.                                   *)
Gap(s, dvcs) ==
  LET maxStart == MaxStart(dvcs) IN
  maxStart <= lastSpeculative(s) =>
    \E d \in {e \in dvcs : e.entries # << >>} :
      d.lastSpeculative >= maxStart =>
        EntryAt(d, maxStart).hash # Hash(s.log, maxStart)

(* Ask everyone for a longer log and forget the short ones, but not one's   *)
(* own: an empty one stands in for it when it has not been kept yet.         *)
NeedFillDVCGap(r, x) ==
  LET s    == x.s
      own  == {d \in s.doViewChanges : d.src = r}
      mine == IF own = {} THEN {EmptyDoViewChange(r)} ELSE own
  IN  Went([s EXCEPT !.doViewChanges = mine, !.needFillDVC = TRUE],
           x.out \cup {FillDVCGap(s, d.src) : d \in s.doViewChanges \ own})

(* A longer log that still starts after what either replica has committed.  *)
TooShort(s, m) ==
  /\ m.entries # << >>
  /\ ~(s.lastCommitted = 0 /\ m.entries[1].opnum = 1)
  /\ \E committed \in {s.lastCommitted, m.lastCommitted} :
       m.entries[1].opnum > committed

(* MUTANT of DoViewChangeQuorum: the first DOVIEWCHANGE is enough.          *)
MutantDoViewChangeQuorum(dvcs) == dvcs # {}

DoViewChangeQuorum(dvcs) == Cardinality(dvcs) >= QuorumSize

(* The leader of the new view installs the merged log, enters the view and  *)
(* sends its log, which then has the deferred requests as well.              *)
Reconcile(r, x, maxStart) ==
  LET newLog    == MergeLogs(x.s.view, maxStart, x.s.doViewChanges)
      installed == InstallLog(r, x.s, newLog)
      entered   == EnterView(r, Went(installed.s, x.out \cup installed.out),
                             x.s.view)
      others    == Indices \ {r}
  IN  Went(entered.s, entered.out \cup
             {StartView(entered.s, DumpStart(installed.s), others)})

(* What the logs are compared from: asked for longer ones, the leader does  *)
(* not look where they start.                                                *)
ComparedFrom(s) == IF s.needFillDVC THEN 0 ELSE MaxStart(s.doViewChanges)

(* Whether a DOVIEWCHANGE, which s has kept already, needs a longer one.    *)
Rejected(s, m) == s.needFillDVC /\ TooShort(s, m)

Unaligned(s) == ~s.needFillDVC /\ Gap(s, s.doViewChanges)

HandleDoViewChange(r) ==
  \E m \in Received("DOVIEWCHANGE") :
    LET x == Joined(r, replica[r], m.view)
        s == WithDoViewChange(x.s, m)
        y == Went(s, x.out)
    IN  /\ GetLeaderIndex(m.view) = r
        /\ Joins(replica[r], m.view)
        /\ \/ /\ Rejected(s, m)
              /\ Step(r, Went(x.s, x.out \cup {FillDVCGap(s, m.src)}))
           \/ /\ Unaligned(s)
              /\ Step(r, NeedFillDVCGap(r, y))
           \/ /\ ~Rejected(s, m) /\ ~Unaligned(s)
              /\ ~DoViewChangeQuorum(s.doViewChanges)
              /\ Step(r, y)
           \/ /\ ~Rejected(s, m) /\ ~Unaligned(s)
              /\ DoViewChangeQuorum(s.doViewChanges)
              /\ ReadsInRange(ComparedFrom(s), s.doViewChanges)
              /\ Step(r, Reconcile(r, y, ComparedFrom(s)))

(* A STARTVIEW whose entries do not reach down to the replica's own log.    *)
LogGap(s, entries) ==
  /\ entries # << >>
  /\ entries[1].opnum > s.lastCommitted + 1
  /\ entries[1].opnum <= lastSpeculative(s) =>
       entries[1].hash # Hash(s.log, entries[1].opnum)

HandleStartView(r) ==
  LET s == replica[r] IN
  \E m \in Received("STARTVIEW") :
    /\ r \in m.to
    /\ Joins(s, m.view)
    /\ \/ /\ LogGap(s, m.entries)
          /\ Step(r, Went(s, {FillLogGap(r, s, m.view)}))
       \/ /\ ~LogGap(s, m.entries)
          /\ LET x == InstallLog(r, s, m.entries)
                 t == CommitUpTo(x.s, m.lastCommitted)
                 v == InView(r, m.view, m.lastSpeculative)
             IN  Step(r, EnterView(r, Went(t, x.out \cup {v}), m.view))

(* The quorum is one of INVIEWs, whatever opnums they carry.                *)
HandleInView(r) ==
  \E m \in Received("INVIEW") :
    LET s == [replica[r] EXCEPT !.inViews = @ \cup {m.src}]
        t == CommitUpTo(s, m.lastSpeculative)
    IN  /\ m.view = s.view /\ s.status = "NORMAL"
        /\ GetLeaderIndex(m.view) = r
        /\ Step(r, IF /\ Cardinality(s.inViews) >= QuorumSize - 1
                      /\ m.lastSpeculative >= s.lastCommitted
                   THEN Went(t, {Sync(t)})
                   ELSE Went(s, {}))

HandleFillLogGap(r) ==
  \E m \in Received("FILLLOGGAP") :
    /\ m.view = replica[r].view
    /\ GetLeaderIndex(m.view) = r
    /\ Step(r, Went(replica[r],
                    {StartView(replica[r], m.lastCommitted, {m.src})}))

HandleFillDVCGap(r) ==
  \E m \in Received("FILLDVCGAP") :
    LET s == replica[r] IN
    /\ m.to = r /\ m.view = s.view
    /\ Step(r, Went(s, {DoViewChange(r, s, IF m.lastCommitted < s.lastCommitted
                                           THEN m.lastCommitted
                                           ELSE s.lastCommitted)}))
-----------------------------------------------------------------------------
(* The client *)

Replies(request) ==
  {m \in Received("SPECULATIVEREPLY") : m.request = request}

(* The hashes with which the client accepts a result.  It counts the last   *)
(* reply of each replica, and those of an older view than the last one it   *)
(* has seen too.                                                             *)
Matching(request, hash) ==
  {m.src : m \in {n \in Replies(request) : ~n.committed /\ n.hash = hash}}

(* MUTANT of Accepted: a majority of matching replies is enough.            *)
MutantAccepted(request) ==
  {m.hash : m \in {n \in Replies(request) :
     n.committed \/ Cardinality(Matching(request, n.hash)) >= QuorumSize}}

Accepted(request) ==
  {m.hash : m \in {n \in Replies(request) :
     n.committed \/ Cardinality(Matching(request, n.hash)) >= FastQuorumSize}}

(* The first request, or the next one after the last one is answered.       *)
Invoke(c) ==
  /\ invoked[c] < MaxReqId
  /\ invoked[c] > 0 => Accepted([client |-> c, id |-> invoked[c]]) # {}
  /\ invoked' = [invoked EXCEPT ![c] = @ + 1]
  /\ UNCHANGED <<replica, msgs>>

(* The client holds replies of a superquorum that do not all match.         *)
RequestViewChange(c) ==
  LET replies == {m \in Replies([client |-> c, id |-> invoked[c]]) :
                    ~m.committed}
  IN
  /\ c \in Impatient
  /\ Cardinality({m.src : m \in replies}) >= FastQuorumSize
  /\ \E m \in replies :
       /\ {n \in replies : n.src # m.src /\ n.hash # m.hash} # {}
       /\ msgs' = msgs \cup {[type |-> "REQUESTVIEWCHANGE", view |-> m.view]}
  /\ UNCHANGED <<replica, invoked>>

Next ==
  \/ \E c \in Clients : Invoke(c) \/ RequestViewChange(c)
  \/ \E r \in Indices :
       \/ HandleRequest(r) \/ SendSync(r) \/ HandleSync(r)
       \/ HandleSyncReply(r) \/ ViewChangeTimeout(r)
       \/ HandleRequestViewChange(r) \/ HandleStartViewChange(r)
       \/ HandleDoViewChange(r) \/ HandleStartView(r) \/ HandleInView(r)
       \/ HandleFillLogGap(r) \/ HandleFillDVCGap(r)

Spec == Init /\ [][Next]_vars
-----------------------------------------------------------------------------
(* Properties *)

CommittedPrefix(s) == Hash(s.log, s.lastCommitted)

(* Type correctness: opnums stay within the log, no message points beyond   *)
(* the last view (spec/replica.h, class SpecReplica).                        *)
TypeOK ==
  /\ invoked \in [Clients -> 0 .. MaxReqId]
  /\ \A r \in Indices : LET s == replica[r] IN
       /\ DOMAIN s = DOMAIN InitialReplica
       /\ s.status \in {"NORMAL", "VIEW_CHANGE"}
       /\ s.view \in 0 .. MaxView
       /\ \A i \in DOMAIN s.log :
            /\ s.log[i].view \in 0 .. s.view
            /\ s.log[i].request \in Request
            /\ s.log[i].prev \in 0 .. i - 1
       /\ s.lastCommitted \in 0 .. lastSpeculative(s)
       /\ \A c \in Clients : /\ s.clientTable[c].op \in DOMAIN s.log \cup {0}
                             /\ s.clientTable[c].id \in 0 .. MaxReqId
       /\ s.clientAddresses \subseteq Clients
       /\ ToSet(s.pendingRequests) \subseteq Request
  /\ \A m \in msgs : m.view \in 0 .. MaxView

(* Whatever was executed, merged and rolled back on the way, the client     *)
(* table holds the last request of each client in the log, and no request   *)
(* is in it twice: a retry is answered and never executed again             *)
(* (RollbackTo, UpdateClientTable, MergeLogs).                               *)
ClientTableMatchesLog ==
  \A r \in Indices : LET s == replica[r] IN
    /\ \A c \in Clients :
         LET own == {i \in DOMAIN s.log : s.log[i].request.client = c}
         IN  s.clientTable[c] =
               IF own = {} THEN NoEntry
               ELSE [op |-> Max(own), id |-> s.log[Max(own)].request.id]
    /\ \A i, j \in DOMAIN s.log :
         s.log[i].request = s.log[j].request => i = j

Compatible(s, t) == \A i \in DOMAIN s \cap DOMAIN t : s[i] = t[i]

(* A result a client accepted was computed on a log that the committed ones *)
(* and those of the other accepted results continue: no view change may     *)
(* reorder what a client has seen (HandleReply, MergeLogs).                  *)
ResultsDurable ==
  LET accepted == UNION {Accepted(request) : request \in Request}
  IN  \A h \in accepted :
        /\ \A r \in Indices : Compatible(h, CommittedPrefix(replica[r]))
        /\ \A g \in accepted : Compatible(h, g)

(* The log of a new view has what a replica that is to install it has       *)
(* committed ("the new leader will propose speculative operations that      *)
(* match our committed ones", InstallLog).                                    *)
NewLogKeepsCommitted ==
  \A r \in Indices : \A m \in Received("STARTVIEW") :
    LET s == replica[r] IN
    r \in m.to /\ Joins(s, m.view) =>
      /\ m.lastSpeculative >= s.lastCommitted
      /\ \A i \in DOMAIN m.entries :
           m.entries[i].opnum <= s.lastCommitted =>
             m.entries[i].hash = Hash(s.log, m.entries[i].opnum)

(* No message arrives that the replica panics about: a SYNCREPLY or an      *)
(* INVIEW never reaches its leader ahead of the view, and never commits     *)
(* more than the leader's log has (HandleSyncReply, HandleInView,           *)
(* CommitUpTo).                                                               *)
NoPanic ==
  \A r \in Indices : LET s == replica[r] IN
    /\ \A m \in Received("SYNCREPLY") :
         GetLeaderIndex(m.view) = r /\ s.status = "NORMAL" =>
           /\ m.view <= s.view
           /\ m.view = s.view => m.lastSpeculative <= lastSpeculative(s)
    /\ \A m \in Received("INVIEW") :
         GetLeaderIndex(m.view) = r =>
           /\ m.view <= s.view
           /\ m.view = s.view => /\ s.status = "NORMAL"
                                 /\ m.lastSpeculative <= lastSpeculative(s)

(* What a replica has committed it never takes back, its views only grow,   *)
(* and in a view it has entered its log only grows: entries are rolled back  *)
(* on the way into a later view and at no other time (RollbackTo is reached  *)
(* from InstallLog alone).                                                    *)
Advances(s, t) ==
  /\ s.view <= t.view /\ s.lastCommitted <= t.lastCommitted
  /\ s.view = t.view /\ s.status = "NORMAL" =>
       t.status = "NORMAL" /\ IsPrefix(s.log, t.log)

LogsAdvance == [][\A r \in Indices : Advances(replica[r], replica'[r])]_vars

(* The commit upcalls of the replicas are those of one replicated log.      *)
committed == [r \in Indices |-> CommittedPrefix(replica[r])]

CommittedLog == INSTANCE ReplicatedLog WITH
  Replicas <- Indices, Ops <- Request, executed <- committed

ImplementsReplicatedLog == CommittedLog!Spec
=============================================================================
