----------------------------- MODULE VRWProofs ------------------------------
(***************************************************************************)
(* Proofs about VRW, for any number of members, clients, requests, restarts *)
(* and views: what has been cleaned out of a log has been committed by every *)
(* member that has not lost its state.                                        *)
(***************************************************************************)
EXTENDS VRW, NaturalFacts, SequenceTheorems

-----------------------------------------------------------------------------
(* Sequences, and the log's entries                                          *)

IsSeq(es) == \E S : es \in Seq(S)

LEMMA SeqIs ==
  ASSUME NEW es, IsSeq(es)
  PROVE  Len(es) \in Nat /\ DOMAIN es = 1 .. Len(es)
BY LenProperties DEF IsSeq

LEMMA AppendSeq ==
  ASSUME NEW es, IsSeq(es), NEW e
  PROVE  IsSeq(Append(es, e))
<1>1. PICK S : es \in Seq(S)
  BY DEF IsSeq
<1>2. es \in Seq(S \cup {e}) /\ e \in S \cup {e}
  BY <1>1, SeqMonotonic
<1>3. Append(es, e) \in Seq(S \cup {e})
  BY <1>2, AppendProperties
<1>. QED BY <1>3 DEF IsSeq

LEMMA ConcatSeq ==
  ASSUME NEW es, IsSeq(es), NEW fs, IsSeq(fs)
  PROVE  IsSeq(es \o fs)
<1>1. PICK S : es \in Seq(S)
  BY DEF IsSeq
<1>2. PICK T : fs \in Seq(T)
  BY DEF IsSeq
<1>3. es \in Seq(S \cup T) /\ fs \in Seq(S \cup T)
  BY <1>1, <1>2, SeqMonotonic
<1>4. es \o fs \in Seq(S \cup T)
  BY <1>3, ConcatProperties
<1>. QED BY <1>4 DEF IsSeq

(* A part may reach beyond the sequence: it is one whatever is there.        *)
LEMMA PartSeq ==
  ASSUME NEW es, NEW a \in Int, NEW b \in Int
  PROVE  /\ IsSeq(SubSeq(es, a, b))
         /\ Len(SubSeq(es, a, b)) = IF a <= b THEN b - a + 1 ELSE 0
         /\ \A i \in 1 .. b - a + 1 : SubSeq(es, a, b)[i] = es[a + i - 1]
<1>. DEFINE S == {es[i] : i \in a .. b}
<1>1. \A i \in a .. b : es[i] \in S
  OBVIOUS
<1>. HIDE DEF S
<1>2. /\ SubSeq(es, a, b) \in Seq(S)
      /\ Len(SubSeq(es, a, b)) = IF a <= b THEN b - a + 1 ELSE 0
      /\ \A i \in 1 .. b - a + 1 : SubSeq(es, a, b)[i] = es[a + i - 1]
  BY <1>1, SubSeqProperties
<1>. QED BY <1>2 DEF IsSeq

LEMMA EmptyIsSeq == IsSeq(<< >>)
<1>1. << >> \in Seq({})
  OBVIOUS
<1>. QED BY <1>1 DEF IsSeq

(* Entries, whatever is in them but their opnums.                            *)
IsEntries(es) == IsSeq(es) /\ \A k \in 1 .. Len(es) : es[k].opnum \in Int

IsLog(log) ==
  /\ DOMAIN log = {"start", "entries"} /\ log.start \in Nat \ {0}
  /\ IsSeq(log.entries)

LEMMA OpnumsAre ==
  ASSUME NEW low \in Int, NEW high \in Int
  PROVE  /\ Opnums(low, high) \in Seq(Int)
         /\ \A i \in 1 .. Len(Opnums(low, high)) :
              Opnums(low, high)[i] = low + i - 1
<1>. DEFINE n == IF high < low THEN 0 ELSE high - low + 1
            ops == [i \in 1 .. n |-> low + i - 1]
<1>1. n \in Nat
  OBVIOUS
<1>2. Opnums(low, high) = ops
  BY DEF Opnums
<1>. HIDE DEF n
<1>3. \A i \in 1 .. n : low + i - 1 \in Int
  BY <1>1
<1>4. ops \in Seq(Int) /\ Len(ops) = n
  BY <1>1, <1>3
<1>. QED BY <1>2, <1>4

(* The log's last opnum, when its entries are in order.                      *)
LEMMA LastInOrder ==
  ASSUME NEW log, IsLog(log), InOrder(log)
  PROVE  LastOpnum(log) = log.start + Len(log.entries) - 1
<1>. DEFINE es == log.entries
<1>1. Len(es) \in Nat /\ log.start \in Nat /\ DOMAIN es = 1 .. Len(es)
  BY SeqIs DEF IsLog
<1>2. CASE es = << >>
  BY <1>1, <1>2 DEF LastOpnum, LastViewstamp
<1>3. CASE es # << >>
  <2>1. Len(es) # 0
    <3>1. PICK S : es \in Seq(S)
      BY DEF IsLog, IsSeq
    <3>. QED BY <3>1, <1>3, EmptySeq
  <2>. HIDE DEF es
  <2>2. Len(es) \in DOMAIN es
    BY <1>1, <2>1
  <2>3. es[Len(es)].opnum = log.start + Len(es) - 1
    BY <2>2 DEF InOrder, es
  <2>4. LastOpnum(log) = es[Len(es)].opnum
    BY <1>3 DEF LastOpnum, LastViewstamp, Last, es
  <2>. QED BY <2>3, <2>4 DEF es
<1>. QED BY <1>2, <1>3

(* What a datagram takes out of such a log are entries.                      *)
LEMMA DumpEntries ==
  ASSUME NEW log, IsLog(log), InOrder(log), NEW from \in Int
  PROVE  IsEntries(Dump(log, from))
<1>. DEFINE es == log.entries
            n == Len(es)
            low == IF from > log.start THEN from ELSE log.start
            a == low - log.start + 1
            d == SubSeq(es, a, n)
<1>1. n \in Nat /\ log.start \in Nat /\ DOMAIN es = 1 .. n
  BY SeqIs DEF IsLog
<1>2. a \in Nat \ {0}
  BY <1>1
<1>3. Dump(log, from) = d
  <2>1. Place(log, LastOpnum(log)) = n
    <3>1. LastOpnum(log) = log.start + n - 1
      BY LastInOrder
    <3>. HIDE DEF es, n
    <3>. QED BY <1>1, <3>1 DEF Place
  <2>2. Place(log, low) = a
    BY DEF Place
  <2>. QED BY <2>1, <2>2 DEF Dump
<1>4. ASSUME NEW k \in 1 .. n PROVE es[k].opnum \in Int
  <2>1. es[k].opnum = log.start + k - 1
    BY <1>1 DEF InOrder
  <2>. HIDE DEF es
  <2>. QED BY <1>1, <2>1
<1>. HIDE DEF a, n, es
<1>5. /\ IsSeq(d) /\ Len(d) = (IF a <= n THEN n - a + 1 ELSE 0)
      /\ \A i \in 1 .. n - a + 1 : d[i] = es[a + i - 1]
  BY <1>1, <1>2, PartSeq
<1>. HIDE DEF d
<1>6. ASSUME NEW k \in 1 .. Len(d) PROVE d[k].opnum \in Int
  <2>1. k \in 1 .. n - a + 1 /\ a + k - 1 \in 1 .. n
    BY <1>1, <1>2, <1>5
  <2>. QED BY <1>4, <1>5, <2>1
<1>. QED BY <1>3, <1>5, <1>6 DEF IsEntries

-----------------------------------------------------------------------------
(* What the operations on a log leave is a log that starts where it did.     *)

Kept(log, new) == IsLog(new) /\ new.start = log.start

LEMMA AppendKept ==
  ASSUME NEW log, IsLog(log), NEW e
  PROVE  Kept(log, AppendEntry(log, e))
<1>. DEFINE new == AppendEntry(log, e)
<1>1. /\ DOMAIN new = DOMAIN log /\ new.start = log.start
      /\ new.entries = Append(log.entries, e)
  BY DEF AppendEntry, IsLog
<1>. HIDE DEF new
<1>2. IsSeq(new.entries)
  BY <1>1, AppendSeq DEF IsLog
<1>. QED BY <1>1, <1>2 DEF Kept, IsLog, new

LEMMA RemoveAfterKept ==
  ASSUME NEW log, IsLog(log), NEW opnum \in Int
  PROVE  Kept(log, RemoveAfter(log, opnum))
<1>1. CASE opnum > LastOpnum(log)
  BY <1>1 DEF RemoveAfter, Kept
<1>2. CASE ~(opnum > LastOpnum(log))
  <2>. DEFINE b == Place(log, opnum) - 1
              new == [log EXCEPT !.entries = SubSeq(@, 1, b)]
  <2>1. b \in Int
    BY DEF Place, IsLog
  <2>. HIDE DEF b
  <2>2. /\ DOMAIN new = DOMAIN log /\ new.start = log.start
        /\ new.entries = SubSeq(log.entries, 1, b)
    BY DEF IsLog
  <2>. HIDE DEF new
  <2>3. IsSeq(new.entries)
    BY <2>1, <2>2, PartSeq
  <2>4. RemoveAfter(log, opnum) = new
    BY <1>2 DEF RemoveAfter, new, b
  <2>. QED BY <2>2, <2>3, <2>4 DEF Kept, IsLog
<1>. QED BY <1>1, <1>2

LEMMA RemoveUpToKept ==
  ASSUME NEW log, IsLog(log), NEW upto \in Nat
  PROVE  /\ IsLog(RemoveUpTo(log, upto))
         /\ RemoveUpTo(log, upto).start = IF upto < log.start THEN log.start
                                          ELSE upto + 1
<1>. DEFINE a == Place(log, upto) + 1
            part == SubSeq(log.entries, a, Len(log.entries))
<1>1. a \in Int /\ Len(log.entries) \in Int
  BY SeqIs DEF Place, IsLog
<1>. HIDE DEF a
<1>2. IsSeq(part)
  BY <1>1, PartSeq
<1>. HIDE DEF part
<1>3. RemoveUpTo(log, upto) = IF upto < log.start THEN log
                              ELSE [start |-> upto + 1, entries |-> part]
  BY DEF RemoveUpTo, part, a
<1>. QED BY <1>2, <1>3 DEF IsLog

LEMMA InstallKept ==
  ASSUME NEW log, IsLog(log), NEW es, IsEntries(es)
  PROVE  Kept(log, Install(log, es))
<1>. DEFINE differs(e) == Has(log, e.opnum) /\ Find(log, e.opnum).view # e.view
            missing(e) == ~Has(log, e.opnum) /\ e.opnum >= log.start
            new  == {j \in DOMAIN es : differs(es[j]) \/ missing(es[j])}
            i    == CHOOSE j \in new : \A k \in new : j <= k
            kept == IF differs(es[i]) THEN RemoveAfter(log, es[i].opnum) ELSE log
            installed == [kept EXCEPT !.entries = @ \o SubSeq(es, i, Len(es))]
<1>1. Install(log, es) = IF new = {} THEN log ELSE installed
  BY DEF Install
<1>2. CASE new = {}
  BY <1>1, <1>2 DEF Kept
<1>3. CASE new # {}
  <2>1. Len(es) \in Nat /\ DOMAIN es = 1 .. Len(es)
    BY SeqIs DEF IsEntries
  <2>2. new \subseteq Nat
    BY <2>1
  <2>3. \E j \in new : \A k \in new : j <= k
    <3>. HIDE DEF new
    <3>1. Min(new) \in new /\ \A k \in new : Min(new) <= k
      BY <1>3, <2>2, MinOfNaturals
    <3>. QED BY <3>1
  <2>4. i \in new
    <3>. HIDE DEF new
    <3>. QED BY <2>3
  <2>5. i \in 1 .. Len(es) /\ es[i].opnum \in Int
    <3>1. i \in DOMAIN es
      <4>. HIDE DEF i
      <4>. QED BY <2>4
    <3>. HIDE DEF i
    <3>. QED BY <2>1, <3>1 DEF IsEntries
  <2>. HIDE DEF i
  <2>6. Kept(log, kept)
    <3>1. Kept(log, RemoveAfter(log, es[i].opnum))
      BY <2>5, RemoveAfterKept
    <3>2. Kept(log, log)
      BY DEF Kept
    <3>. QED BY <3>1, <3>2
  <2>. HIDE DEF kept
  <2>7. IsSeq(SubSeq(es, i, Len(es)))
    BY <2>1, <2>5, PartSeq
  <2>8. IsSeq(kept.entries \o SubSeq(es, i, Len(es)))
    BY <2>6, <2>7, ConcatSeq DEF Kept, IsLog
  <2>9. /\ DOMAIN installed = DOMAIN kept /\ installed.start = kept.start
        /\ installed.entries = kept.entries \o SubSeq(es, i, Len(es))
    BY <2>6 DEF Kept, IsLog
  <2>. HIDE DEF installed
  <2>10. Kept(log, installed)
    BY <2>6, <2>8, <2>9 DEF Kept, IsLog
  <2>. QED BY <1>1, <1>3, <2>10
<1>. QED BY <1>2, <1>3

-----------------------------------------------------------------------------
(* The invariant.  U is the set of the members that have never restarted,   *)
(* and commits[j] what the member j has committed.                            *)

MemberFields == {"status", "view", "log", "lastOp", "lastCommitted", "cleanUpTo",
                 "startViewChanges", "recoveryResponses"}

ReplicaFields ==
  {"executed", "lastCommitteds", "clientTable", "clientAddresses", "lastBatchEnd",
   "batchComplete", "closeBatch", "prepareOKs", "doViewChanges"} \cup MemberFields

(* What brings a log, the answer of a recovery among them.                   *)
Brings(m) == m.lastOp \in Int /\ m.lastCommitted \in Nat /\ IsEntries(m.entries)

Core(s) ==
  /\ IsLog(s.log) /\ s.log.start - 1 <= s.cleanUpTo
  /\ s.lastCommitted \in Nat /\ s.cleanUpTo \in Nat /\ s.lastOp \in Int
  /\ \A q \in s.startViewChanges : q.lastCommitted \in Nat
  /\ \A q \in s.recoveryResponses : Brings(q)

WitnessOK(s) == DOMAIN s = MemberFields /\ Core(s)

ReplicaOK(s) ==
  /\ DOMAIN s = ReplicaFields /\ Core(s)
  /\ s.lastCommitteds \in [Indices -> Nat] /\ IsFiniteSet(s.prepareOKs)
  /\ IsFiniteSet(s.doViewChanges) /\ \A q \in s.doViewChanges : Brings(q)

(* All of U have committed up to k.                                           *)
AllCommitted(k, U, commits) == \A j \in U : k <= commits[j]

(* What a leader has heard of is committed.                                   *)
Known(s, U, commits) == \A j \in U : s.lastCommitteds[j] <= commits[j]

MessageOK(m, U, commits) ==
  /\ m.type = "PREPARE" => /\ m.opnum \in Int /\ m.cleanUpTo \in Nat
                           /\ AllCommitted(m.cleanUpTo, U, commits)
  /\ m.type = "PREPAREOK" => /\ m.src \in Indices /\ m.opnum \in Int
                             /\ m.lastCommitted \in Nat
                             /\ m.src \in U => m.lastCommitted <= commits[m.src]
  /\ m.type \in {"COMMIT", "REQUESTSTATETRANSFER"} => m.opnum \in Int
  /\ m.type = "STATETRANSFER" => m.opnum \in Int /\ IsEntries(m.entries)
  /\ m.type = "STARTVIEWCHANGE" => m.lastCommitted \in Nat
  /\ m.type \in {"DOVIEWCHANGE", "STARTVIEW", "RECOVERYRESPONSE"} => Brings(m)

Holds(U, commits) ==
  /\ DOMAIN replica = Replicas /\ DOMAIN witness = Witnesses
  /\ \A r \in Replicas : /\ ReplicaOK(replica[r])
                         /\ AllCommitted(replica[r].cleanUpTo, U, commits)
                         /\ Known(replica[r], U, commits)
  /\ \A w \in Witnesses : /\ WitnessOK(witness[w])
                          /\ AllCommitted(witness[w].cleanUpTo, U, commits)
  /\ \A m \in msgs : MessageOK(m, U, commits)

Alive == {i \in Indices : restarts[i] = 0}

Commits == [i \in Indices |-> Member(i).lastCommitted]

CleanedHolds == restarts \in [Indices -> Nat] /\ Holds(Alive, Commits)

(* What of it is left when members commit more, or are no longer counted.    *)
Grows(U, commits, V, new) ==
  /\ U \subseteq Indices /\ V \subseteq U
  /\ commits \in [Indices -> Nat] /\ new \in [Indices -> Nat]
  /\ \A j \in V : commits[j] <= new[j]

LEMMA AllCommittedStays ==
  ASSUME NEW U, NEW commits, NEW V, NEW new, Grows(U, commits, V, new),
         NEW k \in Int, AllCommitted(k, U, commits)
  PROVE  AllCommitted(k, V, new)
<1>. SUFFICES ASSUME NEW j \in V PROVE k <= new[j]
  BY DEF AllCommitted
<1>1. k <= commits[j] /\ commits[j] <= new[j] /\ commits[j] \in Nat /\ new[j] \in Nat
  BY DEF AllCommitted, Grows
<1>. QED BY <1>1

LEMMA KnownStays ==
  ASSUME NEW U, NEW commits, NEW V, NEW new, Grows(U, commits, V, new),
         NEW s, s.lastCommitteds \in [Indices -> Nat], Known(s, U, commits)
  PROVE  Known(s, V, new)
<1>. SUFFICES ASSUME NEW j \in V PROVE s.lastCommitteds[j] <= new[j]
  BY DEF Known
<1>1. /\ s.lastCommitteds[j] <= commits[j] /\ commits[j] <= new[j]
      /\ commits[j] \in Nat /\ new[j] \in Nat /\ s.lastCommitteds[j] \in Nat
  BY DEF Known, Grows
<1>. QED BY <1>1

LEMMA MessageStays ==
  ASSUME NEW U, NEW commits, NEW V, NEW new, Grows(U, commits, V, new),
         NEW m, MessageOK(m, U, commits)
  PROVE  MessageOK(m, V, new)
<1>1. m.type = "PREPARE" => AllCommitted(m.cleanUpTo, V, new)
  BY AllCommittedStays DEF MessageOK
<1>2. ASSUME m.type = "PREPAREOK", m.src \in V
      PROVE  m.lastCommitted <= new[m.src]
  <2>1. /\ m.lastCommitted \in Nat /\ m.lastCommitted <= commits[m.src]
        /\ commits[m.src] <= new[m.src]
        /\ commits[m.src] \in Nat /\ new[m.src] \in Nat
    BY <1>2 DEF MessageOK, Grows
  <2>. QED BY <2>1
<1>. QED BY <1>1, <1>2 DEF MessageOK

LEMMA MembersAre ==
  /\ Replicas \subseteq Indices /\ Witnesses \subseteq Indices
  /\ Replicas \cap Witnesses = {} /\ Indices = Replicas \cup Witnesses
  /\ \A r \in Replicas : Member(r) = replica[r]
  /\ \A w \in Witnesses : Member(w) = witness[w]
BY DEF Replicas, Witnesses, Member

LEMMA HeldParts ==
  ASSUME CleanedHolds
  PROVE  /\ Alive \subseteq Indices /\ Commits \in [Indices -> Nat]
         /\ \A r \in Replicas : /\ ReplicaOK(replica[r])
                                /\ AllCommitted(replica[r].cleanUpTo, Alive, Commits)
                                /\ Known(replica[r], Alive, Commits)
                                /\ Commits[r] = replica[r].lastCommitted
         /\ \A w \in Witnesses : /\ WitnessOK(witness[w])
                                 /\ AllCommitted(witness[w].cleanUpTo, Alive, Commits)
                                 /\ Commits[w] = witness[w].lastCommitted
         /\ \A m \in msgs : MessageOK(m, Alive, Commits)
<1>1. Holds(Alive, Commits)
  BY DEF CleanedHolds
<1>2. \A i \in Indices : Member(i).lastCommitted \in Nat
  BY <1>1, MembersAre DEF Holds, ReplicaOK, WitnessOK, Core
<1>3. Commits \in [Indices -> Nat]
  BY <1>2 DEF Commits
<1>4. \A i \in Indices : Commits[i] = Member(i).lastCommitted
  BY DEF Commits
<1>. QED BY <1>1, <1>3, <1>4, MembersAre DEF Holds, Alive

-----------------------------------------------------------------------------
(* A step                                                                     *)

(* Where a step of a member may go: x.s.lastCommitted is what it has         *)
(* committed by then.                                                         *)
Goes(i, U, commits, x) ==
  LET new == [commits EXCEPT ![i] = x.s.lastCommitted] IN
  /\ commits[i] <= x.s.lastCommitted
  /\ AllCommitted(x.s.cleanUpTo, U, new)
  /\ \A m \in x.out : MessageOK(m, U, new)

ReplicaGoes(r, U, commits, x) ==
  /\ ReplicaOK(x.s) /\ Goes(r, U, commits, x)
  /\ Known(x.s, U, [commits EXCEPT ![r] = x.s.lastCommitted])

WitnessGoes(w, U, commits, x) == WitnessOK(x.s) /\ Goes(w, U, commits, x)

(* What does not change, when one member commits more.                       *)
LEMMA OneGrows ==
  ASSUME NEW U, U \subseteq Indices, NEW commits \in [Indices -> Nat],
         NEW i \in Indices, NEW k \in Nat, commits[i] <= k
  PROVE  Grows(U, commits, U, [commits EXCEPT ![i] = k])
<1>1. \A j \in U : commits[j] <= [commits EXCEPT ![i] = k][j]
  <2>. SUFFICES ASSUME NEW j \in U PROVE commits[j] <= [commits EXCEPT ![i] = k][j]
    OBVIOUS
  <2>1. commits[j] \in Nat
    OBVIOUS
  <2>2. CASE j = i
    BY <2>2
  <2>3. CASE j # i
    BY <2>1, <2>3
  <2>. QED BY <2>2, <2>3
<1>. QED BY <1>1 DEF Grows

LEMMA ReplicaStep ==
  ASSUME CleanedHolds, NEW r \in Replicas, NEW x, Step(r, x),
         ReplicaGoes(r, Alive, Commits, x)
  PROVE  CleanedHolds'
<1>. DEFINE new == [Commits EXCEPT ![r] = x.s.lastCommitted]
<1>1. /\ replica' = [replica EXCEPT ![r] = x.s] /\ msgs' = msgs \cup x.out
      /\ witness' = witness /\ restarts' = restarts
  BY DEF Step
<1>2. /\ ReplicaOK(x.s) /\ AllCommitted(x.s.cleanUpTo, Alive, new)
      /\ Known(x.s, Alive, new) /\ Commits[r] <= x.s.lastCommitted
      /\ \A m \in x.out : MessageOK(m, Alive, new)
  BY DEF ReplicaGoes, Goes
<1>3. Grows(Alive, Commits, Alive, new)
  <2>1. r \in Indices /\ x.s.lastCommitted \in Nat
    BY <1>2, MembersAre DEF ReplicaOK, Core
  <2>. QED BY <1>2, <2>1, HeldParts, OneGrows
<1>4. DOMAIN replica = Replicas /\ DOMAIN witness = Witnesses
  BY DEF CleanedHolds, Holds
<1>5. Commits' = new /\ Alive' = Alive
  <2>1. \A i \in Indices : Member(i)'.lastCommitted = new[i]
    <3>. SUFFICES ASSUME NEW i \in Indices
                  PROVE  Member(i)'.lastCommitted = new[i]
      OBVIOUS
    <3>1. Commits[i] = Member(i).lastCommitted /\ i \in DOMAIN Commits
      BY DEF Commits
    <3>2. CASE IsWitness(i)
      <4>1. Member(i)' = Member(i) /\ i # r
        BY <1>1, <3>2 DEF Member, Replicas
      <4>. QED BY <3>1, <4>1
    <3>3. CASE ~IsWitness(i)
      <4>1. i \in Replicas /\ Member(i)' = [replica EXCEPT ![r] = x.s][i]
        BY <1>1, <3>3 DEF Member, Replicas
      <4>2. CASE i = r
        BY <1>4, <3>1, <4>1, <4>2
      <4>3. CASE i # r
        <5>1. Member(i) = replica[i]
          BY <3>3 DEF Member
        <5>. QED BY <1>4, <3>1, <4>1, <4>3, <5>1
      <4>. QED BY <4>2, <4>3
    <3>. QED BY <3>2, <3>3
  <2>2. Commits' = [i \in Indices |-> new[i]]
    BY <2>1 DEF Commits
  <2>3. DOMAIN new = Indices
    BY DEF Commits
  <2>4. new = [i \in Indices |-> new[i]]
    BY <2>3
  <2>. QED BY <1>1, <2>2, <2>4 DEF Alive
<1>. HIDE DEF new
<1>6. \A m \in msgs \cup x.out : MessageOK(m, Alive, new)
  BY <1>2, <1>3, HeldParts, MessageStays
<1>7. ASSUME NEW w \in Witnesses
      PROVE  WitnessOK(witness[w]) /\ AllCommitted(witness[w].cleanUpTo, Alive, new)
  <2>1. WitnessOK(witness[w]) /\ AllCommitted(witness[w].cleanUpTo, Alive, Commits)
    BY HeldParts
  <2>2. witness[w].cleanUpTo \in Int
    BY <2>1 DEF WitnessOK, Core
  <2>. QED BY <1>3, <2>1, <2>2, AllCommittedStays
<1>8. ASSUME NEW i \in Replicas, i # r
      PROVE  /\ ReplicaOK(replica[i]) /\ AllCommitted(replica[i].cleanUpTo, Alive, new)
             /\ Known(replica[i], Alive, new)
  <2>1. /\ ReplicaOK(replica[i]) /\ AllCommitted(replica[i].cleanUpTo, Alive, Commits)
        /\ Known(replica[i], Alive, Commits)
    BY HeldParts
  <2>2. /\ replica[i].cleanUpTo \in Int
        /\ replica[i].lastCommitteds \in [Indices -> Nat]
    BY <2>1 DEF ReplicaOK, Core
  <2>. QED BY <1>3, <2>1, <2>2, AllCommittedStays, KnownStays
<1>9. ASSUME NEW i \in Replicas
      PROVE  /\ ReplicaOK(replica'[i]) /\ AllCommitted(replica'[i].cleanUpTo, Alive, new)
             /\ Known(replica'[i], Alive, new)
  <2>1. CASE i = r
    <3>1. replica'[i] = x.s
      BY <1>1, <1>4, <2>1
    <3>. QED BY <1>2, <3>1
  <2>2. CASE i # r
    <3>1. replica'[i] = replica[i]
      BY <1>1, <1>4, <2>2
    <3>. QED BY <1>8, <2>2, <3>1
  <2>. QED BY <2>1, <2>2
<1>10. DOMAIN replica' = Replicas
  BY <1>1, <1>4
<1>11. Holds(Alive, Commits)'
  BY <1>1, <1>4, <1>5, <1>6, <1>7, <1>9, <1>10 DEF Holds
<1>. QED BY <1>1, <1>5, <1>11 DEF CleanedHolds

LEMMA WitnessStepHolds ==
  ASSUME CleanedHolds, NEW w \in Witnesses, NEW x, WitnessStep(w, x),
         WitnessGoes(w, Alive, Commits, x)
  PROVE  CleanedHolds'
<1>. DEFINE new == [Commits EXCEPT ![w] = x.s.lastCommitted]
<1>1. /\ witness' = [witness EXCEPT ![w] = x.s] /\ msgs' = msgs \cup x.out
      /\ replica' = replica /\ restarts' = restarts
  BY DEF WitnessStep
<1>2. /\ WitnessOK(x.s) /\ AllCommitted(x.s.cleanUpTo, Alive, new)
      /\ Commits[w] <= x.s.lastCommitted
      /\ \A m \in x.out : MessageOK(m, Alive, new)
  BY DEF WitnessGoes, Goes
<1>3. Grows(Alive, Commits, Alive, new)
  <2>1. w \in Indices /\ x.s.lastCommitted \in Nat
    BY <1>2, MembersAre DEF WitnessOK, Core
  <2>. QED BY <1>2, <2>1, HeldParts, OneGrows
<1>4. DOMAIN replica = Replicas /\ DOMAIN witness = Witnesses
  BY DEF CleanedHolds, Holds
<1>5. Commits' = new /\ Alive' = Alive
  <2>1. \A i \in Indices : Member(i)'.lastCommitted = new[i]
    <3>. SUFFICES ASSUME NEW i \in Indices
                  PROVE  Member(i)'.lastCommitted = new[i]
      OBVIOUS
    <3>1. Commits[i] = Member(i).lastCommitted /\ i \in DOMAIN Commits
      BY DEF Commits
    <3>2. CASE ~IsWitness(i)
      <4>1. Member(i)' = Member(i) /\ i # w
        BY <1>1, <3>2 DEF Member, Witnesses
      <4>. QED BY <3>1, <4>1
    <3>3. CASE IsWitness(i)
      <4>1. i \in Witnesses /\ Member(i)' = [witness EXCEPT ![w] = x.s][i]
        BY <1>1, <3>3 DEF Member, Witnesses
      <4>2. CASE i = w
        BY <1>4, <3>1, <4>1, <4>2
      <4>3. CASE i # w
        <5>1. Member(i) = witness[i]
          BY <3>3 DEF Member
        <5>. QED BY <1>4, <3>1, <4>1, <4>3, <5>1
      <4>. QED BY <4>2, <4>3
    <3>. QED BY <3>2, <3>3
  <2>2. Commits' = [i \in Indices |-> new[i]]
    BY <2>1 DEF Commits
  <2>3. DOMAIN new = Indices
    BY DEF Commits
  <2>4. new = [i \in Indices |-> new[i]]
    BY <2>3
  <2>. QED BY <1>1, <2>2, <2>4 DEF Alive
<1>. HIDE DEF new
<1>6. \A m \in msgs \cup x.out : MessageOK(m, Alive, new)
  BY <1>2, <1>3, HeldParts, MessageStays
<1>7. ASSUME NEW r \in Replicas
      PROVE  /\ ReplicaOK(replica[r]) /\ AllCommitted(replica[r].cleanUpTo, Alive, new)
             /\ Known(replica[r], Alive, new)
  <2>1. /\ ReplicaOK(replica[r]) /\ AllCommitted(replica[r].cleanUpTo, Alive, Commits)
        /\ Known(replica[r], Alive, Commits)
    BY HeldParts
  <2>2. /\ replica[r].cleanUpTo \in Int
        /\ replica[r].lastCommitteds \in [Indices -> Nat]
    BY <2>1 DEF ReplicaOK, Core
  <2>. QED BY <1>3, <2>1, <2>2, AllCommittedStays, KnownStays
<1>8. ASSUME NEW i \in Witnesses, i # w
      PROVE  WitnessOK(witness[i]) /\ AllCommitted(witness[i].cleanUpTo, Alive, new)
  <2>1. WitnessOK(witness[i]) /\ AllCommitted(witness[i].cleanUpTo, Alive, Commits)
    BY HeldParts
  <2>2. witness[i].cleanUpTo \in Int
    BY <2>1 DEF WitnessOK, Core
  <2>. QED BY <1>3, <2>1, <2>2, AllCommittedStays
<1>9. ASSUME NEW i \in Witnesses
      PROVE  WitnessOK(witness'[i]) /\ AllCommitted(witness'[i].cleanUpTo, Alive, new)
  <2>1. CASE i = w
    <3>1. witness'[i] = x.s
      BY <1>1, <1>4, <2>1
    <3>. QED BY <1>2, <3>1
  <2>2. CASE i # w
    <3>1. witness'[i] = witness[i]
      BY <1>1, <1>4, <2>2
    <3>. QED BY <1>8, <2>2, <3>1
  <2>. QED BY <2>1, <2>2
<1>10. DOMAIN witness' = Witnesses
  BY <1>1, <1>4
<1>11. Holds(Alive, Commits)'
  BY <1>1, <1>4, <1>5, <1>6, <1>7, <1>9, <1>10 DEF Holds
<1>. QED BY <1>1, <1>5, <1>11 DEF CleanedHolds

-----------------------------------------------------------------------------
(* Folds over a sequence                                                      *)

ExecuteAt(p, x, opnum) == Execute(x, opnum)

Executing == INSTANCE LeftFolds WITH Op <- ExecuteAt

KnowClient(p, t, e) == UpdateClientTable(t, e.request)

Knowing == INSTANCE LeftFolds WITH Op <- KnowClient

AppendAt(m, t, op) ==
  LET request == m.requests[op - m.batchStart + 1]
  IN  UpdateClientTable(
        [t EXCEPT !.lastOp = @ + 1,
                  !.log = AppendEntry(@, Entry(m.view, op, request))],
        request)

Appending == INSTANCE LeftFolds WITH Op <- AppendAt

Acknowledge(r, y, k) ==
  Went(UpdateClientTable(y.s, Find(y.s.log, k).request),
       y.out \cup {PrepareOK(r, y.s, y.s.view, k)})

Acknowledging == INSTANCE LeftFolds WITH Op <- Acknowledge

TransferAt(p, y, e) == Transferred(y, e)

Transferring == INSTANCE LeftFolds WITH Op <- TransferAt

(* What the proofs look at is as before, but what is committed.              *)
Alike(s, t) ==
  /\ DOMAIN t = DOMAIN s
  /\ t.log = s.log /\ t.lastOp = s.lastOp /\ t.cleanUpTo = s.cleanUpTo
  /\ t.startViewChanges = s.startViewChanges
  /\ t.recoveryResponses = s.recoveryResponses
  /\ t.lastCommitteds = s.lastCommitteds /\ t.doViewChanges = s.doViewChanges
  /\ t.prepareOKs = s.prepareOKs

Same(s, t) == Alike(s, t) /\ t.lastCommitted = s.lastCommitted

(* What another step has no use for.                                         *)
IsReply(m) == m.type = "REPLY"

LEMMA AlikeOK ==
  ASSUME NEW s, ReplicaOK(s), NEW t, Alike(s, t), t.lastCommitted \in Nat
  PROVE  ReplicaOK(t)
BY DEF ReplicaOK, Core, Alike

LEMMA UpdateClientTableSame ==
  ASSUME NEW s, DOMAIN s = ReplicaFields, NEW request
  PROVE  Same(s, UpdateClientTable(s, request))
<1>. DEFINE f == [s.clientTable EXCEPT ![request.client] =
                    IF @.id >= request.id THEN @
                    ELSE [id |-> request.id, replied |-> FALSE, opnum |-> 0]]
<1>1. UpdateClientTable(s, request) = [s EXCEPT !.clientTable = f]
  BY DEF UpdateClientTable
<1>. HIDE DEF f
<1>. QED BY <1>1 DEF ReplicaFields, MemberFields, Same, Alike

LEMMA UpdateClientsSame ==
  ASSUME NEW s, DOMAIN s = ReplicaFields, NEW es, IsSeq(es)
  PROVE  Same(s, UpdateClients(s, es))
<1>1. UpdateClients(s, es) = Knowing!Fold({}, s, es)
  BY DEF UpdateClients, Knowing!Fold, FoldLeft, MapThenFoldSet, KnowClient,
         Knowing!FoldLeft, Knowing!MapThenFoldSet, Max, Knowing!Max
<1>2. PICK S : es \in Seq(S)
  BY DEF IsSeq
<1>3. PICK run : Knowing!IsRun(run, {}, s, es)
  BY <1>2, Knowing!FoldSteps, Zenon
<1>. DEFINE n == Len(es)
            T == {i \in 0 .. n : Same(s, run[i])}
<1>4. n \in Nat
  BY SeqIs
<1>5. /\ run[0] = s /\ UpdateClients(s, es) = run[n]
      /\ \A i \in 1 .. n : run[i] = UpdateClientTable(run[i - 1], es[i].request)
  BY <1>1, <1>3 DEF Knowing!IsRun, KnowClient
<1>. HIDE DEF n
<1>6. 0 \in T
  BY <1>4, <1>5 DEF Same, Alike
<1>7. ASSUME NEW i \in 1 .. n, i - 1 \in T PROVE i \in T
  <2>1. Same(s, run[i - 1]) /\ i \in 0 .. n
    BY <1>4, <1>7
  <2>2. DOMAIN run[i - 1] = ReplicaFields
    BY <2>1 DEF Same, Alike
  <2>3. Same(run[i - 1], run[i])
    BY <1>5, <2>2, UpdateClientTableSame
  <2>4. Same(s, run[i])
    BY <2>1, <2>3 DEF Same, Alike
  <2>. QED BY <2>1, <2>4
<1>8. \A i \in 0 .. n : i \in T
  <2>. HIDE DEF T
  <2>. QED BY <1>4, <1>6, <1>7, RangeInduction
<1>. QED BY <1>4, <1>5, <1>8

(* What executing leads to.                                                   *)
Executed(x, y) ==
  /\ Alike(x.s, y.s) /\ y.s.lastCommitted \in Nat
  /\ x.s.lastCommitted <= y.s.lastCommitted
  /\ \A m \in y.out : m \in x.out \/ IsReply(m)

LEMMA ExecuteFine ==
  ASSUME NEW x, DOMAIN x.s = ReplicaFields, x.s.lastCommitted \in Nat,
         NEW opnum \in Nat, x.s.lastCommitted <= opnum
  PROVE  Executed(x, Execute(x, opnum)) /\ Execute(x, opnum).s.lastCommitted = opnum
<1>. DEFINE e == Find(x.s.log, opnum)
            c == e.request.client
            ex == Append(x.s.executed, e.request)
            f == [x.s.clientTable EXCEPT ![c] =
                    IF @.id > e.request.id THEN @
                    ELSE [id |-> e.request.id, replied |-> TRUE, opnum |-> e.opnum]]
            t == [x.s EXCEPT !.lastCommitted = opnum, !.executed = ex,
                             !.clientTable = f]
            out == IF c \in x.s.clientAddresses
                   THEN x.out \cup {Reply(e.request, e.opnum)} ELSE x.out
<1>1. Execute(x, opnum) = Went(t, out)
  BY DEF Execute
<1>. HIDE DEF t, out
<1>2. Execute(x, opnum).s = t /\ Execute(x, opnum).out = out
  BY <1>1 DEF Went
<1>. HIDE DEF f, ex
<1>3. Alike(x.s, t) /\ t.lastCommitted = opnum
  BY DEF t, ReplicaFields, MemberFields, Alike
<1>4. \A m \in out : m \in x.out \/ IsReply(m)
  BY DEF out, Reply, IsReply
<1>. QED BY <1>2, <1>3, <1>4 DEF Executed

LEMMA CommitUpToFine ==
  ASSUME NEW x, DOMAIN x.s = ReplicaFields, x.s.lastCommitted \in Nat,
         NEW upto \in Int
  PROVE  Executed(x, CommitUpTo(x, upto))
<1>. DEFINE k == x.s.lastCommitted
            ops == Opnums(k + 1, upto)
            n == Len(ops)
<1>1. CommitUpTo(x, upto) = Executing!Fold({}, x, ops)
  BY DEF CommitUpTo, Executing!Fold, FoldLeft, MapThenFoldSet, ExecuteAt,
         Executing!FoldLeft, Executing!MapThenFoldSet, Max, Executing!Max
<1>2. ops \in Seq(Int) /\ n \in Nat /\ \A i \in 1 .. n : ops[i] = k + 1 + i - 1
  <2>. HIDE DEF k
  <2>1. k + 1 \in Int
    BY DEF k
  <2>. QED BY <2>1, OpnumsAre, LenProperties
<1>. HIDE DEF ops
<1>3. PICK run : Executing!IsRun(run, {}, x, ops)
  BY <1>2, Executing!FoldSteps, Zenon
<1>4. /\ run[0] = x /\ CommitUpTo(x, upto) = run[n]
      /\ \A i \in 1 .. n : run[i] = Execute(run[i - 1], ops[i])
  BY <1>1, <1>3 DEF Executing!IsRun, ExecuteAt
<1>. DEFINE T == {i \in 0 .. n : /\ Executed(x, run[i])
                                 /\ run[i].s.lastCommitted = k + i}
<1>. HIDE DEF n
<1>5. 0 \in T
  BY <1>2, <1>4 DEF Executed, Alike
<1>6. ASSUME NEW i \in 1 .. n, i - 1 \in T PROVE i \in T
  <2>. DEFINE y == run[i - 1]
  <2>1. Executed(x, y) /\ y.s.lastCommitted = k + (i - 1)
    BY <1>6
  <2>. HIDE DEF y
  <2>2. /\ DOMAIN y.s = ReplicaFields /\ y.s.lastCommitted \in Nat
        /\ ops[i] = k + i /\ ops[i] \in Nat /\ y.s.lastCommitted <= ops[i]
    <3>1. DOMAIN y.s = ReplicaFields /\ y.s.lastCommitted \in Nat
      BY <2>1 DEF Executed, Alike
    <3>2. ops[i] = k + 1 + i - 1
      BY <1>2
    <3>3. k \in Nat
      OBVIOUS
    <3>. HIDE DEF k
    <3>. QED BY <1>2, <2>1, <3>1, <3>2, <3>3
  <2>3. Executed(y, run[i]) /\ run[i].s.lastCommitted = ops[i]
    BY <1>4, <2>2, ExecuteFine DEF y
  <2>4. Executed(x, run[i])
    <3>1. Alike(x.s, run[i].s)
      BY <2>1, <2>3 DEF Executed, Alike
    <3>2. \A m \in run[i].out : m \in x.out \/ IsReply(m)
      BY <2>1, <2>3 DEF Executed
    <3>3. run[i].s.lastCommitted \in Nat /\ x.s.lastCommitted <= run[i].s.lastCommitted
      BY <2>2, <2>3 DEF k
    <3>. QED BY <3>1, <3>2, <3>3 DEF Executed
  <2>. QED BY <1>2, <2>2, <2>3, <2>4
<1>7. \A i \in 0 .. n : i \in T
  <2>. HIDE DEF T
  <2>. QED BY <1>2, <1>5, <1>6, RangeInduction
<1>. QED BY <1>2, <1>4, <1>7

-----------------------------------------------------------------------------
(* The parts of a handler                                                     *)

Group(U, commits) == U \subseteq Indices /\ commits \in [Indices -> Nat]

(* What may happen to a member's state without harm: the log changes, not    *)
(* where it starts, and messages collected are thrown away.                  *)
Changed(s, t) ==
  /\ DOMAIN t = DOMAIN s
  /\ IsLog(t.log) /\ t.log.start = s.log.start /\ t.lastOp \in Int
  /\ t.lastCommitted = s.lastCommitted /\ t.cleanUpTo = s.cleanUpTo
  /\ t.startViewChanges \subseteq s.startViewChanges
  /\ t.recoveryResponses \subseteq s.recoveryResponses
  /\ DOMAIN s = ReplicaFields =>
       /\ t.lastCommitteds = s.lastCommitteds
       /\ t.doViewChanges \subseteq s.doViewChanges
       /\ t.prepareOKs \subseteq s.prepareOKs

LEMMA SameChanged ==
  ASSUME NEW s, ReplicaOK(s), NEW t, Same(s, t)
  PROVE  Changed(s, t)
BY DEF ReplicaOK, Core, Same, Alike, Changed

LEMMA ChangedOK ==
  ASSUME NEW s, NEW t, Changed(s, t)
  PROVE  /\ ReplicaOK(s) => ReplicaOK(t)
         /\ WitnessOK(s) => WitnessOK(t)
<1>1. Core(s) => Core(t)
  BY DEF Core, Changed
<1>2. ASSUME ReplicaOK(s) PROVE ReplicaOK(t)
  <2>1. IsFiniteSet(t.doViewChanges) /\ IsFiniteSet(t.prepareOKs)
    BY <1>2, FS_Subset DEF ReplicaOK, Changed
  <2>. QED BY <1>1, <1>2, <2>1 DEF ReplicaOK, Changed
<1>3. ASSUME WitnessOK(s) PROVE WitnessOK(t)
  BY <1>1, <1>3 DEF WitnessOK, Changed
<1>. QED BY <1>2, <1>3

LEMMA ChangedTwice ==
  ASSUME NEW s, NEW t, NEW u, Changed(s, t), Changed(t, u)
  PROVE  Changed(s, u)
BY DEF Changed

LEMMA StartGoes ==
  ASSUME CleanedHolds
  PROVE  /\ Group(Alive, Commits)
         /\ \A r \in Replicas :
              ReplicaGoes(r, Alive, Commits, Went(replica[r], {}))
         /\ \A w \in Witnesses :
              WitnessGoes(w, Alive, Commits, Went(witness[w], {}))
<1>1. \A i \in Indices : [Commits EXCEPT ![i] = Commits[i]] = Commits
  BY HeldParts
<1>2. \A s : Went(s, {}).s = s /\ Went(s, {}).out = {}
  BY DEF Went
<1>3. ASSUME NEW r \in Replicas
      PROVE  ReplicaGoes(r, Alive, Commits, Went(replica[r], {}))
  <2>1. /\ ReplicaOK(replica[r]) /\ AllCommitted(replica[r].cleanUpTo, Alive, Commits)
        /\ Known(replica[r], Alive, Commits) /\ Commits[r] = replica[r].lastCommitted
        /\ Commits[r] \in Nat
    BY HeldParts, MembersAre
  <2>2. [Commits EXCEPT ![r] = replica[r].lastCommitted] = Commits
    BY <1>1, <2>1, MembersAre
  <2>. DEFINE x == Went(replica[r], {})
  <2>3. x.s = replica[r] /\ x.out = {}
    BY <1>2
  <2>4. Commits[r] <= x.s.lastCommitted
    BY <2>1, <2>3
  <2>. HIDE DEF x
  <2>5. ReplicaGoes(r, Alive, Commits, x)
    BY <2>1, <2>2, <2>3, <2>4 DEF ReplicaGoes, Goes
  <2>. QED BY <2>5 DEF x
<1>4. ASSUME NEW w \in Witnesses
      PROVE  WitnessGoes(w, Alive, Commits, Went(witness[w], {}))
  <2>1. /\ WitnessOK(witness[w]) /\ AllCommitted(witness[w].cleanUpTo, Alive, Commits)
        /\ Commits[w] = witness[w].lastCommitted /\ Commits[w] \in Nat
    BY HeldParts, MembersAre
  <2>2. [Commits EXCEPT ![w] = witness[w].lastCommitted] = Commits
    BY <1>1, <2>1, MembersAre
  <2>. DEFINE x == Went(witness[w], {})
  <2>3. x.s = witness[w] /\ x.out = {}
    BY <1>2
  <2>4. Commits[w] <= x.s.lastCommitted
    BY <2>1, <2>3
  <2>. HIDE DEF x
  <2>5. WitnessGoes(w, Alive, Commits, x)
    BY <2>1, <2>2, <2>3, <2>4 DEF WitnessGoes, Goes
  <2>. QED BY <2>5 DEF x
<1>. QED BY <1>3, <1>4, HeldParts DEF Group

(* A change, and datagrams that may be sent when commits[i] is lastCommitted. *)
Sends(i, U, commits, x, y) ==
  \A m \in y.out : \/ m \in x.out
                   \/ MessageOK(m, U, [commits EXCEPT ![i] = x.s.lastCommitted])

LEMMA ChangedGoes ==
  ASSUME NEW i, NEW U, NEW commits, NEW x, NEW y, Changed(x.s, y.s),
         Sends(i, U, commits, x, y)
  PROVE  /\ ReplicaGoes(i, U, commits, x) => ReplicaGoes(i, U, commits, y)
         /\ WitnessGoes(i, U, commits, x) => WitnessGoes(i, U, commits, y)
<1>1. y.s.lastCommitted = x.s.lastCommitted /\ y.s.cleanUpTo = x.s.cleanUpTo
  BY DEF Changed
<1>2. Goes(i, U, commits, x) => Goes(i, U, commits, y)
  BY <1>1 DEF Goes, Sends
<1>3. ASSUME ReplicaGoes(i, U, commits, x)
      PROVE  ReplicaGoes(i, U, commits, y)
  <2>1. ReplicaOK(x.s) /\ ReplicaOK(y.s)
    BY <1>3, ChangedOK DEF ReplicaGoes
  <2>2. y.s.lastCommitteds = x.s.lastCommitteds
    BY <2>1 DEF ReplicaOK, Changed
  <2>3. Known(y.s, U, [commits EXCEPT ![i] = y.s.lastCommitted])
    BY <1>1, <1>3, <2>2 DEF ReplicaGoes, Known
  <2>. QED BY <1>2, <1>3, <2>1, <2>3 DEF ReplicaGoes
<1>4. ASSUME WitnessGoes(i, U, commits, x)
      PROVE  WitnessGoes(i, U, commits, y)
  BY <1>2, <1>4, ChangedOK DEF WitnessGoes
<1>. QED BY <1>3, <1>4

(* What is known stays so when the member commits more.                       *)
LEMMA GoesGrow ==
  ASSUME NEW U, NEW commits, Group(U, commits), NEW i \in Indices,
         NEW k \in Nat, NEW l \in Nat, k <= l
  PROVE  Grows(U, [commits EXCEPT ![i] = k], U, [commits EXCEPT ![i] = l])
<1>. DEFINE new == [commits EXCEPT ![i] = k]
<1>1. new \in [Indices -> Nat] /\ new[i] = k /\ U \subseteq Indices
  BY DEF Group
<1>2. [new EXCEPT ![i] = l] = [commits EXCEPT ![i] = l]
  BY DEF Group
<1>. HIDE DEF new
<1>3. Grows(U, new, U, [new EXCEPT ![i] = l])
  BY <1>1, OneGrows
<1>. QED BY <1>2, <1>3 DEF new

LEMMA ExecutedGoes ==
  ASSUME NEW U, NEW commits, Group(U, commits), NEW r \in Indices, NEW x,
         ReplicaGoes(r, U, commits, x), NEW y, Executed(x, y)
  PROVE  ReplicaGoes(r, U, commits, y)
<1>. DEFINE old == [commits EXCEPT ![r] = x.s.lastCommitted]
            new == [commits EXCEPT ![r] = y.s.lastCommitted]
<1>1. /\ ReplicaOK(x.s) /\ commits[r] <= x.s.lastCommitted
      /\ AllCommitted(x.s.cleanUpTo, U, old) /\ Known(x.s, U, old)
      /\ \A m \in x.out : MessageOK(m, U, old)
  BY DEF ReplicaGoes, Goes
<1>2. /\ Alike(x.s, y.s) /\ y.s.lastCommitted \in Nat
      /\ x.s.lastCommitted <= y.s.lastCommitted
      /\ \A m \in y.out : m \in x.out \/ IsReply(m)
  BY DEF Executed
<1>3. x.s.lastCommitted \in Nat /\ x.s.cleanUpTo \in Int
  BY <1>1 DEF ReplicaOK, Core
<1>4. Grows(U, old, U, new)
  BY <1>2, <1>3, GoesGrow
<1>. HIDE DEF old, new
<1>5. ReplicaOK(y.s)
  BY <1>1, <1>2, AlikeOK
<1>6. AllCommitted(y.s.cleanUpTo, U, new)
  BY <1>1, <1>2, <1>3, <1>4, AllCommittedStays DEF Alike
<1>7. Known(y.s, U, new)
  <2>1. Known(x.s, U, new)
    BY <1>1, <1>4, KnownStays DEF ReplicaOK
  <2>. QED BY <1>2, <2>1 DEF Known, Alike
<1>8. \A m \in y.out : MessageOK(m, U, new)
  <2>1. \A m \in x.out : MessageOK(m, U, new)
    BY <1>1, <1>4, MessageStays
  <2>2. \A m : IsReply(m) => MessageOK(m, U, new)
    BY DEF IsReply, MessageOK
  <2>. QED BY <1>2, <2>1, <2>2
<1>9. commits[r] <= y.s.lastCommitted
  <2>1. commits[r] \in Nat
    BY DEF Group
  <2>. QED BY <1>1, <1>2, <1>3, <2>1
<1>. QED BY <1>5, <1>6, <1>7, <1>8, <1>9 DEF ReplicaGoes, Goes, new

LEMMA CommitGoes ==
  ASSUME NEW U, NEW commits, Group(U, commits), NEW r \in Indices, NEW x,
         ReplicaGoes(r, U, commits, x), NEW upto \in Int
  PROVE  ReplicaGoes(r, U, commits, CommitUpTo(x, upto))
<1>1. DOMAIN x.s = ReplicaFields /\ x.s.lastCommitted \in Nat
  BY DEF ReplicaGoes, ReplicaOK, Core
<1>2. Executed(x, CommitUpTo(x, upto))
  BY <1>1, CommitUpToFine
<1>. QED BY <1>2, ExecutedGoes

(* A log is cleaned up to what all have committed.                            *)
LEMMA CleanCore ==
  ASSUME NEW s, IsLog(s.log), s.log.start - 1 <= s.cleanUpTo, s.cleanUpTo \in Nat,
         {"cleanUpTo", "log"} \subseteq DOMAIN s, NEW upto \in Nat
  PROVE  LET t == CleanLog(s, upto) IN
         /\ DOMAIN t = DOMAIN s
         /\ IsLog(t.log) /\ t.log.start - 1 <= t.cleanUpTo
         /\ t.cleanUpTo \in {s.cleanUpTo, upto}
         /\ \A f \in DOMAIN s \ {"cleanUpTo", "log"} : t[f] = s[f]
<1>. DEFINE t == CleanLog(s, upto)
<1>1. CASE upto <= s.cleanUpTo
  BY <1>1 DEF CleanLog
<1>2. CASE ~(upto <= s.cleanUpTo)
  <2>. DEFINE log == RemoveUpTo(s.log, upto)
  <2>1. IsLog(log) /\ log.start = IF upto < s.log.start THEN s.log.start ELSE upto + 1
    BY RemoveUpToKept
  <2>. HIDE DEF log
  <2>2. t = [s EXCEPT !.cleanUpTo = upto, !.log = log]
    BY <1>2 DEF log, CleanLog
  <2>. HIDE DEF t
  <2>3. t.cleanUpTo = upto /\ t.log = log
    BY <2>2
  <2>4. s.log.start \in Nat
    BY DEF IsLog
  <2>5. log.start - 1 <= upto
    BY <2>1, <2>4, <1>2
  <2>. QED BY <2>1, <2>2, <2>3, <2>5 DEF t
<1>. QED BY <1>1, <1>2

LEMMA CleanGoes ==
  ASSUME NEW U, NEW commits, NEW r, NEW x, ReplicaGoes(r, U, commits, x),
         NEW upto \in Nat,
         AllCommitted(upto, U, [commits EXCEPT ![r] = x.s.lastCommitted])
  PROVE  ReplicaGoes(r, U, commits, Went(CleanLog(x.s, upto), x.out))
<1>. DEFINE t == CleanLog(x.s, upto)
            s == x.s
<1>1. ReplicaOK(s) /\ IsLog(s.log) /\ s.log.start - 1 <= s.cleanUpTo
      /\ s.cleanUpTo \in Nat /\ {"cleanUpTo", "log"} \subseteq DOMAIN s
  BY DEF ReplicaGoes, ReplicaOK, Core, ReplicaFields, MemberFields
<1>2. /\ DOMAIN t = DOMAIN s
      /\ IsLog(t.log) /\ t.log.start - 1 <= t.cleanUpTo
      /\ t.cleanUpTo \in {s.cleanUpTo, upto}
      /\ \A f \in DOMAIN s \ {"cleanUpTo", "log"} : t[f] = s[f]
  BY <1>1, CleanCore
<1>. HIDE DEF t
<1>3. DOMAIN s = ReplicaFields
  BY <1>1 DEF ReplicaOK
<1>4. /\ t.lastCommitted = s.lastCommitted /\ t.lastOp = s.lastOp
      /\ t.startViewChanges = s.startViewChanges
      /\ t.recoveryResponses = s.recoveryResponses
      /\ t.lastCommitteds = s.lastCommitteds /\ t.doViewChanges = s.doViewChanges
      /\ t.prepareOKs = s.prepareOKs
  BY <1>2, <1>3 DEF ReplicaFields, MemberFields
<1>. HIDE DEF s
<1>5. ReplicaOK(t)
  BY <1>1, <1>2, <1>4 DEF ReplicaOK, Core
<1>6. Went(t, x.out).s = t /\ Went(t, x.out).out = x.out
  BY DEF Went
<1>. QED BY <1>2, <1>4, <1>5, <1>6 DEF ReplicaGoes, Goes, Known, s, t

LEMMA WitnessCleanGoes ==
  ASSUME NEW U, NEW commits, NEW w, NEW x, WitnessGoes(w, U, commits, x),
         NEW upto \in Nat,
         AllCommitted(upto, U, [commits EXCEPT ![w] = x.s.lastCommitted])
  PROVE  WitnessGoes(w, U, commits, Went(WitnessCleanLog(x.s, upto), x.out))
<1>. DEFINE t == WitnessCleanLog(x.s, upto)
            s == x.s
<1>1. WitnessOK(s) /\ IsLog(s.log) /\ s.log.start - 1 <= s.cleanUpTo
      /\ s.cleanUpTo \in Nat /\ {"cleanUpTo", "log"} \subseteq DOMAIN s
  BY DEF WitnessGoes, WitnessOK, Core, MemberFields
<1>2. /\ DOMAIN t = DOMAIN s
      /\ IsLog(t.log) /\ t.log.start - 1 <= t.cleanUpTo
      /\ t.cleanUpTo \in {s.cleanUpTo, upto}
      /\ \A f \in DOMAIN s \ {"cleanUpTo", "log"} : t[f] = s[f]
  <2>. HIDE DEF s
  <2>1. t = CleanLog(s, upto)
    BY DEF CleanLog, WitnessCleanLog, s
  <2>. HIDE DEF t
  <2>. QED BY <1>1, <2>1, CleanCore
<1>. HIDE DEF t
<1>3. DOMAIN s = MemberFields
  BY <1>1 DEF WitnessOK
<1>4. /\ t.lastCommitted = s.lastCommitted /\ t.lastOp = s.lastOp
      /\ t.startViewChanges = s.startViewChanges
      /\ t.recoveryResponses = s.recoveryResponses
  BY <1>2, <1>3 DEF MemberFields
<1>. HIDE DEF s
<1>5. WitnessOK(t)
  BY <1>1, <1>2, <1>4 DEF WitnessOK, Core
<1>6. Went(t, x.out).s = t /\ Went(t, x.out).out = x.out
  BY DEF Went
<1>. QED BY <1>2, <1>4, <1>5, <1>6 DEF WitnessGoes, Goes, s, t

-----------------------------------------------------------------------------
(* What is sent                                                               *)

LEMMA PrepareOKFine ==
  ASSUME NEW U, NEW commits, Group(U, commits), NEW i \in Indices, NEW s,
         s.lastCommitted \in Nat, NEW view, NEW k \in Int
  PROVE  MessageOK(PrepareOK(i, s, view, k), U,
                   [commits EXCEPT ![i] = s.lastCommitted])
BY DEF Group, PrepareOK, MessageOK

LEMMA NoteFine ==
  ASSUME NEW U, NEW new, NEW i, NEW s, s.lastCommitted \in Nat
  PROVE  /\ MessageOK(Commit(s), U, new)
         /\ \A m \in RequestStateTransfer(i, s) : MessageOK(m, U, new)
         /\ \A view : MessageOK(StartViewChangeMessage(i, s, view), U, new)
         /\ \A request, opnum : MessageOK(Reply(request, opnum), U, new)
<1>1. MessageOK(Commit(s), U, new)
  BY DEF Commit, MessageOK
<1>2. \A m \in RequestStateTransfer(i, s) : MessageOK(m, U, new)
  BY DEF RequestStateTransfer, MessageOK
<1>3. \A view : MessageOK(StartViewChangeMessage(i, s, view), U, new)
  BY DEF StartViewChangeMessage, MessageOK
<1>4. \A request, opnum : MessageOK(Reply(request, opnum), U, new)
  BY DEF Reply, MessageOK
<1>. QED BY <1>1, <1>2, <1>3, <1>4

LEMMA LogMessageFine ==
  ASSUME NEW U, NEW new, NEW i, NEW s, Core(s), InOrder(s.log), NEW from \in Int
  PROVE  /\ \A to : MessageOK(StateTransfer(s, from, to), U, new)
         /\ MessageOK(DoViewChange(i, s, from), U, new)
         /\ MessageOK(StartView(s, from), U, new)
<1>1. IsEntries(Dump(s.log, from)) /\ IsEntries(Dump(s.log, from + 1))
  BY DumpEntries DEF Core
<1>2. \A to : MessageOK(StateTransfer(s, from, to), U, new)
  BY <1>1 DEF StateTransfer, MessageOK, Core
<1>3. MessageOK(DoViewChange(i, s, from), U, new)
  BY <1>1 DEF DoViewChange, MessageOK, Core, Brings
<1>4. MessageOK(StartView(s, from), U, new)
  BY <1>1 DEF StartView, MessageOK, Core, Brings
<1>. QED BY <1>2, <1>3, <1>4

-----------------------------------------------------------------------------
(* The leader's batch                                                         *)

LEMMA LowestFine ==
  ASSUME NEW s, s.lastCommitteds \in [Indices -> Nat]
  PROVE  /\ GetLowestReplicaCommit(s) \in Nat
         /\ \A U, new : U \subseteq Indices /\ Known(s, U, new)
                          /\ new \in [Indices -> Nat] =>
              AllCommitted(GetLowestReplicaCommit(s), U, new)
<1>. DEFINE S == {s.lastCommitteds[i] : i \in Indices}
            low == GetLowestReplicaCommit(s)
<1>1. 0 \in Indices
  BY ConfigurationAssumption DEF Indices
<1>2. S \subseteq Nat /\ S # {}
  BY <1>1
<1>3. low = Min(S)
  BY DEF GetLowestReplicaCommit
<1>4. \A i \in Indices : s.lastCommitteds[i] \in S
  OBVIOUS
<1>. HIDE DEF S, low
<1>5. low \in Nat /\ \A k \in S : low <= k
  BY <1>2, <1>3, MinOfNaturals
<1>6. ASSUME NEW U, NEW new, U \subseteq Indices, Known(s, U, new),
             new \in [Indices -> Nat]
      PROVE  AllCommitted(low, U, new)
  <2>. SUFFICES ASSUME NEW j \in U PROVE low <= new[j]
    BY DEF AllCommitted
  <2>1. /\ low <= s.lastCommitteds[j] /\ s.lastCommitteds[j] <= new[j]
        /\ s.lastCommitteds[j] \in Nat /\ new[j] \in Nat
    BY <1>4, <1>5, <1>6 DEF Known
  <2>. QED BY <1>5, <2>1
<1>. QED BY <1>5, <1>6 DEF low

LEMMA CloseBatchGoes ==
  ASSUME NEW U, NEW commits, Group(U, commits), NEW r \in Indices, NEW x,
         ReplicaGoes(r, U, commits, x)
  PROVE  ReplicaGoes(r, U, commits, CloseBatch(x))
<1>. DEFINE s        == x.s
            new      == [commits EXCEPT ![r] = s.lastCommitted]
            lowest   == GetLowestReplicaCommit(s)
            ops      == Opnums(s.lastBatchEnd + 1, s.lastOp)
            closed   == [s EXCEPT !.lastBatchEnd = s.lastOp, !.batchComplete = FALSE,
                                  !.closeBatch = FALSE]
            prepare  == [type |-> "PREPARE", view |-> s.view, opnum |-> s.lastOp,
                         batchStart |-> s.lastBatchEnd + 1, cleanUpTo |-> lowest,
                         requests |-> [i \in DOMAIN ops |->
                                         Find(s.log, ops[i]).request]]
            out      == x.out \cup {prepare}
            panic    == [closed EXCEPT !.status = "PANIC"]
<1>1. CloseBatch(x) = Went(IF lowest < s.cleanUpTo THEN panic
                           ELSE CleanLog(closed, lowest), out)
  BY DEF CloseBatch
<1>2. ReplicaOK(s) /\ Known(s, U, new)
  BY DEF ReplicaGoes
<1>3. new \in [Indices -> Nat]
  BY <1>2 DEF Group, ReplicaOK, Core
<1>4. lowest \in Nat /\ AllCommitted(lowest, U, new)
  <2>. HIDE DEF lowest, new, s
  <2>. QED BY <1>2, <1>3, LowestFine DEF Group, ReplicaOK, lowest
<1>5. MessageOK(prepare, U, new)
  <2>1. prepare.type = "PREPARE" /\ prepare.opnum = s.lastOp /\ prepare.cleanUpTo = lowest
    OBVIOUS
  <2>. HIDE DEF prepare, lowest, new, s
  <2>. QED BY <1>2, <1>4, <2>1 DEF MessageOK, ReplicaOK, Core
<1>6. DOMAIN s = ReplicaFields
  BY <1>2 DEF ReplicaOK
<1>7. Same(s, closed) /\ Same(s, panic)
  <2>. HIDE DEF s
  <2>. QED BY <1>6 DEF Same, Alike, ReplicaFields, MemberFields
<1>8. Changed(s, closed) /\ Changed(s, panic)
  <2>. HIDE DEF closed, panic, s
  <2>. QED BY <1>2, <1>7, SameChanged
<1>. HIDE DEF closed, panic, prepare, lowest
<1>9. /\ ReplicaGoes(r, U, commits, Went(closed, out))
      /\ ReplicaGoes(r, U, commits, Went(panic, out))
  <2>1. \A t : Went(t, out).s = t /\ Went(t, out).out = out
    BY DEF Went
  <2>2. \A t : Sends(r, U, commits, x, Went(t, out))
    BY <1>5, <2>1 DEF Sends
  <2>. HIDE DEF out
  <2>. QED BY <1>8, <2>1, <2>2, ChangedGoes
<1>10. ReplicaGoes(r, U, commits, Went(CleanLog(closed, lowest), out))
  <2>. DEFINE y == Went(closed, out)
  <2>1. y.s = closed /\ y.out = out
    BY DEF Went
  <2>2. closed.lastCommitted = s.lastCommitted
    BY <1>7 DEF Same
  <2>3. AllCommitted(lowest, U, [commits EXCEPT ![r] = y.s.lastCommitted])
    BY <1>4, <2>1, <2>2
  <2>4. ReplicaGoes(r, U, commits, y)
    BY <1>9
  <2>. HIDE DEF y, out
  <2>5. ReplicaGoes(r, U, commits, Went(CleanLog(y.s, lowest), y.out))
    BY <1>4, <2>3, <2>4, CleanGoes
  <2>. QED BY <2>1, <2>5
<1>. HIDE DEF out
<1>. QED BY <1>1, <1>9, <1>10

LEMMA SendPrepareOKsGoes ==
  ASSUME NEW U, NEW commits, Group(U, commits), NEW r \in Indices, NEW x,
         ReplicaGoes(r, U, commits, x), NEW old \in Int
  PROVE  ReplicaGoes(r, U, commits, SendPrepareOKs(r, x, old))
<1>. DEFINE ops == Opnums(Larger(old, x.s.lastCommitted + 1), x.s.lastOp)
            n == Len(ops)
            new == [commits EXCEPT ![r] = x.s.lastCommitted]
            y == SendPrepareOKs(r, x, old)
<1>1. y = Acknowledging!Fold(r, x, ops)
  BY DEF SendPrepareOKs, Acknowledging!Fold, FoldLeft, MapThenFoldSet, Acknowledge,
         Acknowledging!FoldLeft, Acknowledging!MapThenFoldSet, Max, Acknowledging!Max
<1>2. ReplicaOK(x.s) /\ x.s.lastCommitted \in Nat /\ x.s.lastOp \in Int
  BY DEF ReplicaGoes, ReplicaOK, Core
<1>3. ops \in Seq(Int) /\ n \in Nat
  <2>1. Larger(old, x.s.lastCommitted + 1) \in Int
    BY <1>2 DEF Larger
  <2>. QED BY <1>2, <2>1, OpnumsAre, LenProperties
<1>. HIDE DEF ops, y
<1>4. PICK run : Acknowledging!IsRun(run, r, x, ops)
  BY <1>3, Acknowledging!FoldSteps, Zenon
<1>5. /\ run[0] = x /\ y = run[n]
      /\ \A i \in 1 .. n : run[i] = Acknowledge(r, run[i - 1], ops[i])
  BY <1>1, <1>4 DEF Acknowledging!IsRun
<1>. DEFINE Fine(z) == Same(x.s, z.s) /\ Sends(r, U, commits, x, z)
            T == {i \in 0 .. n : Fine(run[i])}
<1>6. \A i \in 1 .. n : ops[i] \in Int
  BY <1>3, ElementOfSeq
<1>. HIDE DEF n
<1>7. 0 \in T
  BY <1>3, <1>5 DEF Same, Alike, Sends
<1>8. ASSUME NEW i \in 1 .. n, i - 1 \in T PROVE i \in T
  <2>. DEFINE z == run[i - 1]
              k == ops[i]
              t == UpdateClientTable(z.s, Find(z.s.log, k).request)
              m == PrepareOK(r, z.s, z.s.view, k)
  <2>1. Same(x.s, z.s) /\ Sends(r, U, commits, x, z) /\ i \in 0 .. n
    BY <1>3, <1>8
  <2>2. run[i].s = t /\ run[i].out = z.out \cup {m}
    <3>1. run[i] = Acknowledge(r, z, k)
      BY <1>5
    <3>. HIDE DEF z, k
    <3>2. run[i] = Went(t, z.out \cup {m})
      BY <3>1 DEF Acknowledge
    <3>. HIDE DEF t, m
    <3>. QED BY <3>2 DEF Went
  <2>. HIDE DEF z, k
  <2>3. DOMAIN z.s = ReplicaFields /\ z.s.lastCommitted = x.s.lastCommitted
    BY <1>2, <2>1 DEF Same, Alike, ReplicaOK
  <2>4. Same(z.s, t)
    BY <2>3, UpdateClientTableSame
  <2>5. MessageOK(m, U, new)
    BY <1>2, <1>6, <2>3, PrepareOKFine DEF k
  <2>. HIDE DEF t, m
  <2>6. Same(x.s, run[i].s)
    BY <2>1, <2>2, <2>4 DEF Same, Alike
  <2>7. Sends(r, U, commits, x, run[i])
    BY <2>1, <2>2, <2>5 DEF Sends
  <2>. QED BY <2>1, <2>6, <2>7
<1>9. \A i \in 0 .. n : i \in T
  <2>. HIDE DEF T
  <2>. QED BY <1>3, <1>7, <1>8, RangeInduction
<1>10. Fine(y)
  BY <1>3, <1>5, <1>9
<1>11. Changed(x.s, y.s)
  BY <1>2, <1>10, SameChanged
<1>12. ReplicaGoes(r, U, commits, y)
  BY <1>10, <1>11, ChangedGoes
<1>. QED BY <1>12 DEF y

-----------------------------------------------------------------------------
(* The normal case                                                            *)

IsMember(s) == DOMAIN s \in {ReplicaFields, MemberFields} /\ Core(s)

LEMMA MemberIs ==
  ASSUME NEW s
  PROVE  /\ ReplicaOK(s) => IsMember(s) /\ DOMAIN s = ReplicaFields
         /\ WitnessOK(s) => IsMember(s) /\ DOMAIN s = MemberFields
         /\ ReplicaFields # MemberFields
<1>1. ReplicaFields # MemberFields
  <2>1. "executed" \in ReplicaFields /\ "executed" \notin MemberFields
    BY DEF ReplicaFields, MemberFields
  <2>. QED BY <2>1
<1>. QED BY <1>1 DEF ReplicaOK, WitnessOK, IsMember

LEMMA ChangedMember ==
  ASSUME NEW s, IsMember(s), NEW t, Changed(s, t)
  PROVE  IsMember(t)
BY DEF IsMember, Core, Changed

(* A step that only changes the state without harm.                          *)
LEMMA ReplicaChanges ==
  ASSUME CleanedHolds, NEW r \in Replicas, NEW y, Step(r, y),
         Changed(replica[r], y.s), \A m \in y.out : MessageOK(m, Alive, Commits)
  PROVE  CleanedHolds'
<1>. DEFINE x == Went(replica[r], {})
<1>1. x.s = replica[r] /\ x.out = {}
  BY DEF Went
<1>2. ReplicaGoes(r, Alive, Commits, x)
  BY StartGoes
<1>. HIDE DEF x
<1>3. [Commits EXCEPT ![r] = x.s.lastCommitted] = Commits
  BY <1>1, HeldParts, MembersAre
<1>4. Sends(r, Alive, Commits, x, y)
  BY <1>3 DEF Sends
<1>. QED BY <1>1, <1>2, <1>4, ChangedGoes, ReplicaStep

LEMMA WitnessChanges ==
  ASSUME CleanedHolds, NEW w \in Witnesses, NEW y, WitnessStep(w, y),
         Changed(witness[w], y.s), \A m \in y.out : MessageOK(m, Alive, Commits)
  PROVE  CleanedHolds'
<1>. DEFINE x == Went(witness[w], {})
<1>1. x.s = witness[w] /\ x.out = {}
  BY DEF Went
<1>2. WitnessGoes(w, Alive, Commits, x)
  BY StartGoes
<1>. HIDE DEF x
<1>3. [Commits EXCEPT ![w] = x.s.lastCommitted] = Commits
  BY <1>1, HeldParts, MembersAre
<1>4. Sends(w, Alive, Commits, x, y)
  BY <1>3 DEF Sends
<1>. QED BY <1>1, <1>2, <1>4, ChangedGoes, WitnessStepHolds

LEMMA Unchanged ==
  ASSUME NEW s, IsMember(s)
  PROVE  Changed(s, s)
BY DEF IsMember, Core, Changed

LEMMA Relog ==
  ASSUME NEW s, IsMember(s), NEW log, Kept(s.log, log), NEW op \in Int
  PROVE  /\ Changed(s, [s EXCEPT !.lastOp = op, !.log = log])
         /\ Changed(s, [s EXCEPT !.log = log, !.lastOp = op])
         /\ Changed(s, [s EXCEPT !.log = log])
<1>1. MemberFields \subseteq DOMAIN s
  BY DEF IsMember, ReplicaFields
<1>2. ASSUME NEW t, t.log = log, t.lastOp \in Int, DOMAIN t = DOMAIN s,
             \A f \in DOMAIN s \ {"log", "lastOp"} : t[f] = s[f]
      PROVE  Changed(s, t)
  <2>1. /\ t.lastCommitted = s.lastCommitted /\ t.cleanUpTo = s.cleanUpTo
        /\ t.startViewChanges = s.startViewChanges
        /\ t.recoveryResponses = s.recoveryResponses
    BY <1>1, <1>2 DEF MemberFields
  <2>2. DOMAIN s = ReplicaFields =>
          /\ t.lastCommitteds = s.lastCommitteds /\ t.doViewChanges = s.doViewChanges
          /\ t.prepareOKs = s.prepareOKs
    BY <1>2 DEF ReplicaFields
  <2>. QED BY <1>2, <2>1, <2>2 DEF Changed, Kept
<1>3. {"log", "lastOp"} \subseteq DOMAIN s /\ s.lastOp \in Int
  BY <1>1 DEF MemberFields, IsMember, Core
<1>4. Changed(s, [s EXCEPT !.lastOp = op, !.log = log])
  <2>. DEFINE t == [s EXCEPT !.lastOp = op, !.log = log]
  <2>1. /\ t.log = log /\ t.lastOp \in Int /\ DOMAIN t = DOMAIN s
        /\ \A f \in DOMAIN s \ {"log", "lastOp"} : t[f] = s[f]
    BY <1>3
  <2>. HIDE DEF t
  <2>2. Changed(s, t)
    BY <2>1, <1>2
  <2>. QED BY <2>2 DEF t
<1>5. Changed(s, [s EXCEPT !.log = log, !.lastOp = op])
  <2>. DEFINE t == [s EXCEPT !.log = log, !.lastOp = op]
  <2>1. /\ t.log = log /\ t.lastOp \in Int /\ DOMAIN t = DOMAIN s
        /\ \A f \in DOMAIN s \ {"log", "lastOp"} : t[f] = s[f]
    BY <1>3
  <2>. HIDE DEF t
  <2>2. Changed(s, t)
    BY <2>1, <1>2
  <2>. QED BY <2>2 DEF t
<1>6. Changed(s, [s EXCEPT !.log = log])
  <2>. DEFINE t == [s EXCEPT !.log = log]
  <2>1. /\ t.log = log /\ t.lastOp \in Int /\ DOMAIN t = DOMAIN s
        /\ \A f \in DOMAIN s \ {"log", "lastOp"} : t[f] = s[f]
    BY <1>3
  <2>. HIDE DEF t
  <2>2. Changed(s, t)
    BY <2>1, <1>2
  <2>. QED BY <2>2 DEF t
<1>. QED BY <1>4, <1>5, <1>6

LEMMA Requests ==
  ASSUME CleanedHolds, NEW r \in Replicas, HandleRequest(r)
  PROVE  CleanedHolds'
<1>1. PICK c, id :
        LET s       == [replica[r] EXCEPT !.clientAddresses = @ \cup {c}]
            request == [client |-> c, id |-> id]
        IN  IF id <= s.clientTable[c].id THEN HandleDuplicateRequest(r, s, request)
            ELSE AppendRequest(r, s, request)
  BY DEF HandleRequest
<1>. DEFINE s       == [replica[r] EXCEPT !.clientAddresses = @ \cup {c}]
            request == [client |-> c, id |-> id]
            known == UpdateClientTable(s, request)
            op    == s.lastOp + 1
            e     == Entry(s.view, op, request)
            t     == [known EXCEPT !.lastOp = op, !.log = AppendEntry(@, e)]
            u     == [t EXCEPT !.closeBatch = TRUE]
            entry == s.clientTable[c]
            out == IF id = entry.id /\ entry.replied
                   THEN {Reply(request, entry.opnum)} ELSE {}
<1>2. \/ Step(r, Went(s, out))
      \/ Step(r, CloseBatch(Went(t, {})))
      \/ Step(r, Went(u, {}))
  <2>1. CASE id <= s.clientTable[c].id
    BY <1>1, <2>1 DEF HandleDuplicateRequest
  <2>2. CASE ~(id <= s.clientTable[c].id)
    <3>1. AppendRequest(r, s, request)
      BY <1>1, <2>2
    <3>. QED BY <3>1 DEF AppendRequest
  <2>. QED BY <2>1, <2>2
<1>3. ReplicaOK(replica[r])
  BY HeldParts
<1>4. Same(replica[r], s)
  BY <1>3 DEF ReplicaOK, Same, Alike, ReplicaFields, MemberFields
<1>5. \A m \in out : MessageOK(m, Alive, Commits)
  <2>. HIDE DEF s
  <2>. QED BY DEF Reply, MessageOK
<1>. HIDE DEF s, out
<1>6. Changed(replica[r], s)
  BY <1>3, <1>4, SameChanged
<1>7. ReplicaOK(s) /\ IsMember(s) /\ DOMAIN s = ReplicaFields /\ op \in Int
  BY <1>3, <1>6, ChangedOK, MemberIs DEF IsMember, Core
<1>8. Same(s, known)
  BY <1>7, UpdateClientTableSame
<1>. HIDE DEF known, e, op
<1>9. Changed(s, known)
  BY <1>7, <1>8, SameChanged
<1>10. ReplicaOK(known) /\ IsMember(known)
  BY <1>7, <1>9, ChangedOK, MemberIs
<1>11. Changed(known, t)
  <2>. DEFINE log == AppendEntry(known.log, e)
  <2>1. Kept(known.log, log)
    BY <1>10, AppendKept DEF IsMember, Core
  <2>. HIDE DEF log
  <2>2. Changed(known, [known EXCEPT !.lastOp = op, !.log = log])
    BY <1>7, <1>10, <2>1, Relog
  <2>. QED BY <2>2 DEF log
<1>. HIDE DEF t
<1>12. Changed(replica[r], t)
  BY <1>6, <1>9, <1>11, ChangedTwice
<1>13. ReplicaOK(t)
  BY <1>3, <1>12, ChangedOK
<1>14. Same(t, u)
  BY <1>13 DEF ReplicaOK, Same, Alike, ReplicaFields, MemberFields
<1>. HIDE DEF u
<1>15. Changed(replica[r], u)
  BY <1>12, <1>13, <1>14, SameChanged, ChangedTwice
<1>16. \A v, sent : Went(v, sent).s = v /\ Went(v, sent).out = sent
  BY DEF Went
<1>17. CASE Step(r, Went(s, out))
  <2>. DEFINE y == Went(s, out)
  <2>1. y.s = s /\ y.out = out /\ Step(r, y)
    BY <1>16, <1>17
  <2>. HIDE DEF y
  <2>. QED BY <1>5, <1>6, <2>1, ReplicaChanges
<1>18. CASE Step(r, Went(u, {}))
  <2>. DEFINE y == Went(u, {})
  <2>1. y.s = u /\ y.out = {} /\ Step(r, y)
    BY <1>16, <1>18
  <2>. HIDE DEF y
  <2>. QED BY <1>15, <2>1, ReplicaChanges
<1>19. CASE Step(r, CloseBatch(Went(t, {})))
  <2>. DEFINE x == Went(replica[r], {})
              y == Went(t, {})
  <2>1. x.s = replica[r] /\ y.s = t /\ y.out = {} /\ Step(r, CloseBatch(y))
    BY <1>16, <1>19
  <2>2. ReplicaGoes(r, Alive, Commits, x) /\ Group(Alive, Commits)
    BY StartGoes
  <2>. HIDE DEF x, y
  <2>3. Sends(r, Alive, Commits, x, y)
    BY <2>1 DEF Sends
  <2>4. ReplicaGoes(r, Alive, Commits, y)
    BY <1>12, <2>1, <2>2, <2>3, ChangedGoes
  <2>5. ReplicaGoes(r, Alive, Commits, CloseBatch(y))
    BY <2>2, <2>4, CloseBatchGoes, MembersAre
  <2>. QED BY <2>1, <2>5, ReplicaStep
<1>. QED BY <1>2, <1>17, <1>18, <1>19

LEMMA Timeouts ==
  ASSUME CleanedHolds, NEW r \in Replicas, CloseBatchTimeout(r) \/ SendNullCommit(r)
  PROVE  CleanedHolds'
<1>. DEFINE x == Went(replica[r], {})
            y == Went(replica[r], {Commit(replica[r])})
<1>1. Step(r, CloseBatch(x)) \/ Step(r, y)
  BY DEF CloseBatchTimeout, SendNullCommit
<1>2. y.s = replica[r] /\ y.out = {Commit(replica[r])}
  BY DEF Went
<1>3. ReplicaGoes(r, Alive, Commits, x) /\ Group(Alive, Commits)
  BY StartGoes
<1>4. ReplicaOK(replica[r])
  BY HeldParts
<1>. HIDE DEF x, y
<1>5. CASE Step(r, CloseBatch(x))
  <2>1. ReplicaGoes(r, Alive, Commits, CloseBatch(x))
    BY <1>3, CloseBatchGoes, MembersAre
  <2>. QED BY <1>5, <2>1, ReplicaStep
<1>6. CASE Step(r, y)
  <2>1. Changed(replica[r], y.s)
    BY <1>2, <1>4, MemberIs, Unchanged
  <2>2. MessageOK(Commit(replica[r]), Alive, Commits)
    BY <1>4, NoteFine DEF ReplicaOK, Core
  <2>. QED BY <1>2, <1>6, <2>1, <2>2, ReplicaChanges
<1>. QED BY <1>1, <1>5, <1>6

LEMMA WentIs == \A s, out : Went(s, out).s = s /\ Went(s, out).out = out
BY DEF Went

LEMMA ReplicaFineIs ==
  ASSUME CleanedHolds, NEW r \in Replicas
  PROVE  /\ ReplicaOK(replica[r]) /\ IsMember(replica[r])
         /\ DOMAIN replica[r] = ReplicaFields
         /\ replica[r].lastCommitted \in Nat /\ replica[r].lastOp \in Int
         /\ r \in Indices
BY HeldParts, MemberIs, MembersAre DEF IsMember, Core

(* A step that leaves the state alone.                                        *)
LEMMA ReplicaSays ==
  ASSUME CleanedHolds, NEW r \in Replicas, NEW out, Step(r, Went(replica[r], out)),
         \A m \in out : MessageOK(m, Alive, Commits)
  PROVE  CleanedHolds'
<1>. DEFINE y == Went(replica[r], out)
<1>1. y.s = replica[r] /\ y.out = out /\ Step(r, y)
  BY WentIs
<1>2. Changed(replica[r], replica[r])
  BY ReplicaFineIs, Unchanged
<1>. HIDE DEF y
<1>. QED BY <1>1, <1>2, ReplicaChanges

LEMMA ReplicaAsks ==
  ASSUME CleanedHolds, NEW r \in Replicas,
         Step(r, Went(replica[r], RequestStateTransfer(r, replica[r])))
  PROVE  CleanedHolds'
BY ReplicaFineIs, NoteFine, ReplicaSays

LEMMA AppendedFine ==
  ASSUME NEW s, ReplicaOK(s), NEW m, m.opnum \in Int
  PROVE  Changed(s, Appended(s, m))
<1>. DEFINE ops == Opnums(s.lastOp + 1, m.opnum)
            n == Len(ops)
            y == Appended(s, m)
<1>1. y = Appending!Fold(m, s, ops)
  BY DEF Appended, Appending!Fold, FoldLeft, MapThenFoldSet, AppendAt,
         Appending!FoldLeft, Appending!MapThenFoldSet, Max, Appending!Max
<1>2. ops \in Seq(Int) /\ n \in Nat
  <2>1. s.lastOp + 1 \in Int
    BY DEF ReplicaOK, Core
  <2>. QED BY <2>1, OpnumsAre, LenProperties
<1>. HIDE DEF ops, y
<1>3. PICK run : Appending!IsRun(run, m, s, ops)
  BY <1>2, Appending!FoldSteps, Zenon
<1>4. /\ run[0] = s /\ y = run[n]
      /\ \A i \in 1 .. n : run[i] = AppendAt(m, run[i - 1], ops[i])
  BY <1>1, <1>3 DEF Appending!IsRun
<1>. DEFINE T == {i \in 0 .. n : Changed(s, run[i])}
<1>. HIDE DEF n
<1>5. 0 \in T
  <2>1. Changed(s, s)
    BY MemberIs, Unchanged
  <2>. QED BY <1>2, <1>4, <2>1
<1>6. ASSUME NEW i \in 1 .. n, i - 1 \in T PROVE i \in T
  <2>. DEFINE t == run[i - 1]
              op == ops[i]
              request == m.requests[op - m.batchStart + 1]
              e == Entry(m.view, op, request)
              log == AppendEntry(t.log, e)
              last == t.lastOp + 1
              u == [t EXCEPT !.lastOp = last, !.log = log]
              v == UpdateClientTable(u, request)
  <2>1. Changed(s, t) /\ i \in 0 .. n
    BY <1>2, <1>6
  <2>2. run[i] = v
    <3>1. run[i] = AppendAt(m, t, op)
      BY <1>4
    <3>. HIDE DEF t, op
    <3>. QED BY <3>1 DEF AppendAt
  <2>. HIDE DEF t, op, request
  <2>3. ReplicaOK(t) /\ IsMember(t) /\ last \in Int
    BY <2>1, ChangedOK, MemberIs DEF IsMember, Core
  <2>. HIDE DEF e, last
  <2>4. Kept(t.log, log)
    BY <2>3, AppendKept DEF IsMember, Core
  <2>. HIDE DEF log
  <2>5. Changed(t, u)
    BY <2>3, <2>4, Relog
  <2>. HIDE DEF u
  <2>6. ReplicaOK(u)
    BY <2>3, <2>5, ChangedOK
  <2>7. Same(u, v)
    BY <2>6, UpdateClientTableSame DEF ReplicaOK
  <2>. HIDE DEF v
  <2>8. Changed(u, v)
    BY <2>6, <2>7, SameChanged
  <2>9. Changed(s, v)
    BY <2>1, <2>5, <2>8, ChangedTwice
  <2>. QED BY <2>1, <2>2, <2>9
<1>7. \A i \in 0 .. n : i \in T
  <2>. HIDE DEF T
  <2>. QED BY <1>2, <1>5, <1>6, RangeInduction
<1>8. Changed(s, y)
  BY <1>2, <1>4, <1>7
<1>. QED BY <1>8 DEF y

LEMMA PreparesInView ==
  ASSUME CleanedHolds, NEW r \in Replicas, NEW m \in Received("PREPARE"),
         HandlePrepareInView(r, m)
  PROVE  CleanedHolds'
<1>. DEFINE x == Went(replica[r], {})
            s == CleanLog(replica[r], m.cleanUpTo)
            z == Went(s, {})
            ok == PrepareOK(r, s, m.view, m.opnum)
            ask == RequestStateTransfer(r, s)
            t == Appended(s, m)
<1>1. Step(r, Went(s, {ok})) \/ Step(r, Went(s, ask)) \/ Step(r, Went(t, {ok}))
  BY DEF HandlePrepareInView
<1>2. /\ m.opnum \in Int /\ m.cleanUpTo \in Nat
      /\ AllCommitted(m.cleanUpTo, Alive, Commits)
  BY HeldParts DEF Received, MessageOK
<1>3. /\ ReplicaGoes(r, Alive, Commits, x) /\ Group(Alive, Commits) /\ r \in Indices
      /\ x.s = replica[r] /\ x.out = {}
  BY StartGoes, WentIs, MembersAre
<1>4. [Commits EXCEPT ![r] = x.s.lastCommitted] = Commits
  BY <1>3, HeldParts
<1>. HIDE DEF x
<1>5. ReplicaGoes(r, Alive, Commits, z)
  BY <1>2, <1>3, <1>4, CleanGoes
<1>6. z.s = s /\ z.out = {}
  BY WentIs
<1>. HIDE DEF z, s
<1>7. ReplicaOK(s) /\ s.lastCommitted \in Nat
  BY <1>5, <1>6 DEF ReplicaGoes, ReplicaOK, Core
<1>8. Changed(s, t) /\ Changed(s, s)
  BY <1>2, <1>7, AppendedFine, Unchanged, MemberIs
<1>9. MessageOK(ok, Alive, [Commits EXCEPT ![r] = z.s.lastCommitted])
  BY <1>2, <1>3, <1>6, <1>7, PrepareOKFine
<1>10. \A n \in ask : MessageOK(n, Alive, [Commits EXCEPT ![r] = z.s.lastCommitted])
  BY <1>7, NoteFine
<1>. HIDE DEF t, ok, ask
<1>11. ASSUME NEW v, NEW out, Step(r, Went(v, out)), Changed(s, v), out \in {{ok}, ask}
       PROVE  CleanedHolds'
  <2>. DEFINE y == Went(v, out)
  <2>1. y.s = v /\ y.out = out /\ Step(r, y)
    BY <1>11, WentIs
  <2>. HIDE DEF y
  <2>2. Sends(r, Alive, Commits, z, y)
    BY <1>9, <1>10, <1>11, <2>1 DEF Sends
  <2>3. ReplicaGoes(r, Alive, Commits, y)
    BY <1>5, <1>6, <1>11, <2>1, <2>2, ChangedGoes
  <2>. QED BY <2>1, <2>3, ReplicaStep
<1>12. CASE Step(r, Went(s, {ok}))
  BY <1>8, <1>11, <1>12
<1>13. CASE Step(r, Went(s, ask))
  BY <1>8, <1>11, <1>13
<1>14. CASE Step(r, Went(t, {ok}))
  BY <1>8, <1>11, <1>14
<1>. QED BY <1>1, <1>12, <1>13, <1>14

LEMMA Prepares ==
  ASSUME CleanedHolds, NEW r \in Replicas, HandlePrepare(r)
  PROVE  CleanedHolds'
<1>1. \/ Step(r, Went(replica[r], RequestStateTransfer(r, replica[r])))
      \/ \E m \in Received("PREPARE") : HandlePrepareInView(r, m)
  BY DEF HandlePrepare
<1>. QED BY <1>1, ReplicaAsks, PreparesInView

(* What is heard of a member's commits.                                       *)
LEMMA HearGoes ==
  ASSUME NEW U, NEW commits, Group(U, commits), NEW r \in Indices, NEW x,
         ReplicaGoes(r, U, commits, x), NEW i \in Indices, NEW k \in Nat,
         i \in U => k <= [commits EXCEPT ![r] = x.s.lastCommitted][i]
  PROVE  ReplicaGoes(r, U, commits,
                     Went([x.s EXCEPT !.lastCommitteds[i] = k], x.out))
<1>. DEFINE new == [commits EXCEPT ![r] = x.s.lastCommitted]
            heard == [x.s.lastCommitteds EXCEPT ![i] = k]
            t == [x.s EXCEPT !.lastCommitteds = heard]
            y == Went(t, x.out)
<1>1. /\ ReplicaOK(x.s) /\ Goes(r, U, commits, x) /\ Known(x.s, U, new)
      /\ DOMAIN x.s = ReplicaFields
  BY DEF ReplicaGoes, ReplicaOK
<1>2. heard \in [Indices -> Nat] /\ \A j \in U : heard[j] <= new[j]
  <2>1. /\ x.s.lastCommitteds \in [Indices -> Nat]
        /\ \A j \in U : x.s.lastCommitteds[j] <= new[j]
    BY <1>1 DEF ReplicaOK, Known
  <2>2. heard \in [Indices -> Nat]
    BY <2>1
  <2>3. \A j \in U : heard[j] = IF j = i THEN k ELSE x.s.lastCommitteds[j]
    BY <2>1 DEF Group
  <2>. HIDE DEF heard, new
  <2>4. i \in U => k <= new[i]
    BY DEF new
  <2>. QED BY <2>1, <2>2, <2>3, <2>4
<1>. HIDE DEF heard
<1>3. y.s = t /\ y.out = x.out
  BY WentIs
<1>. HIDE DEF y
<1>4. /\ DOMAIN t = ReplicaFields /\ t.lastCommitteds = heard
      /\ t.log = x.s.log /\ t.lastOp = x.s.lastOp /\ t.cleanUpTo = x.s.cleanUpTo
      /\ t.lastCommitted = x.s.lastCommitted
      /\ t.startViewChanges = x.s.startViewChanges
      /\ t.recoveryResponses = x.s.recoveryResponses
      /\ t.doViewChanges = x.s.doViewChanges /\ t.prepareOKs = x.s.prepareOKs
  BY <1>1 DEF ReplicaFields, MemberFields
<1>. HIDE DEF t
<1>5. ReplicaOK(t)
  BY <1>1, <1>2, <1>4 DEF ReplicaOK, Core
<1>6. Goes(r, U, commits, y) /\ Known(t, U, new)
  BY <1>1, <1>2, <1>3, <1>4 DEF Goes, Known
<1>7. ReplicaGoes(r, U, commits, y)
  BY <1>3, <1>4, <1>5, <1>6 DEF ReplicaGoes
<1>. QED BY <1>7 DEF y, t, heard

LEMMA PrepareOKQuorumGoes ==
  ASSUME NEW U, NEW commits, Group(U, commits), NEW r \in Indices, NEW x,
         ReplicaGoes(r, U, commits, x), NEW opnum \in Int
  PROVE  ReplicaGoes(r, U, commits, HandlePrepareOKQuorum(r, x, opnum))
<1>. DEFINE committed == CommitUpTo(x, opnum)
            s   == [committed.s EXCEPT !.lastCommitteds[r] =
                      committed.s.lastCommitted]
            all == {q \in s.prepareOKs : q.opnum = opnum}
            n   == Cardinality(all)
            said == Went(s, committed.out)
            announced == Went(s, committed.out \cup {Commit(s)})
            t   == [s EXCEPT !.batchComplete = TRUE]
            done == Went(t, announced.out)
<1>1. ReplicaGoes(r, U, commits, committed)
  BY CommitGoes
<1>2. HandlePrepareOKQuorum(r, x, opnum) =
        CASE n >= QuorumSize -> said
          [] n < QuorumSize /\ s.lastBatchEnd # opnum -> announced
          [] n < QuorumSize /\ s.lastBatchEnd = opnum ->
               IF s.lastOp > opnum THEN CloseBatch(done) ELSE done
  BY DEF HandlePrepareOKQuorum
<1>. HIDE DEF committed
<1>3. ReplicaGoes(r, U, commits, said)
  <2>1. committed.s.lastCommitted \in Nat
    BY <1>1 DEF ReplicaGoes, ReplicaOK, Core
  <2>2. [commits EXCEPT ![r] = committed.s.lastCommitted][r]
          = committed.s.lastCommitted
    BY DEF Group
  <2>. QED BY <1>1, <2>1, <2>2, HearGoes
<1>4. /\ said.s = s /\ said.out = committed.out
      /\ announced.s = s /\ announced.out = said.out \cup {Commit(s)}
      /\ done.s = t /\ done.out = announced.out
  BY WentIs
<1>. HIDE DEF s, n, all, said, announced, done
<1>5. ReplicaOK(s) /\ s.lastCommitted \in Nat /\ Changed(s, s)
  BY <1>3, <1>4, Unchanged, MemberIs DEF ReplicaGoes, ReplicaOK, Core
<1>6. MessageOK(Commit(s), U, [commits EXCEPT ![r] = said.s.lastCommitted])
  BY <1>5, NoteFine
<1>7. ReplicaGoes(r, U, commits, announced)
  <2>1. Sends(r, U, commits, said, announced)
    BY <1>4, <1>6 DEF Sends
  <2>. QED BY <1>3, <1>4, <1>5, <2>1, ChangedGoes
<1>8. Same(s, t)
  BY <1>5 DEF ReplicaOK, Same, Alike, ReplicaFields, MemberFields
<1>. HIDE DEF t
<1>9. ReplicaGoes(r, U, commits, done)
  <2>1. Changed(s, t)
    BY <1>5, <1>8, SameChanged
  <2>2. Sends(r, U, commits, announced, done)
    BY <1>4 DEF Sends
  <2>. QED BY <1>4, <1>7, <2>1, <2>2, ChangedGoes
<1>10. ReplicaGoes(r, U, commits, CloseBatch(done))
  BY <1>9, CloseBatchGoes
<1>11. n >= QuorumSize \/ n < QuorumSize
  <2>1. IsFiniteSet(s.prepareOKs) /\ all \subseteq s.prepareOKs
    BY <1>5 DEF ReplicaOK, all
  <2>2. n \in Nat
    BY <2>1, FS_Subset, FS_CardinalityType DEF n
  <2>3. QuorumSize \in Nat
    BY ConfigurationAssumption DEF QuorumSize
  <2>. QED BY <2>2, <2>3
<1>. QED BY <1>2, <1>3, <1>7, <1>9, <1>10, <1>11

LEMMA PrepareOKs ==
  ASSUME CleanedHolds, NEW r \in Replicas, HandlePrepareOK(r)
  PROVE  CleanedHolds'
<1>1. PICK m \in Received("PREPAREOK") :
        \/ Step(r, Went(replica[r], RequestStateTransfer(r, replica[r])))
        \/ Step(r, Went(Heard(replica[r], m), {}))
        \/ Step(r, HandlePrepareOKQuorum(r, Went(Heard(replica[r], m), {}), m.opnum))
  BY DEF HandlePrepareOK
<1>2. /\ m.src \in Indices /\ m.opnum \in Int /\ m.lastCommitted \in Nat
      /\ m.src \in Alive => m.lastCommitted <= Commits[m.src]
  BY HeldParts DEF Received, MessageOK
<1>. DEFINE x == Went(replica[r], {})
            i == m.src
            k == m.lastCommitted
            u == [x.s EXCEPT !.lastCommitteds[i] = k]
            y == Went(u, x.out)
            oks == u.prepareOKs \cup {[opnum |-> m.opnum, src |-> i]}
            t == [u EXCEPT !.prepareOKs = oks]
            z == Went(Heard(replica[r], m), {})
<1>3. /\ ReplicaGoes(r, Alive, Commits, x) /\ Group(Alive, Commits) /\ r \in Indices
      /\ x.s = replica[r] /\ x.out = {} /\ DOMAIN replica[r] = ReplicaFields
  BY StartGoes, WentIs, ReplicaFineIs
<1>4. [Commits EXCEPT ![r] = x.s.lastCommitted] = Commits
  BY <1>3, HeldParts
<1>5. Heard(replica[r], m) = t
  <2>. DEFINE f == [replica[r].lastCommitteds EXCEPT ![i] = k]
  <2>1. u = [replica[r] EXCEPT !.lastCommitteds = f]
    BY <1>3
  <2>2. Heard(replica[r], m) =
          [replica[r] EXCEPT !.lastCommitteds = f,
             !.prepareOKs = @ \cup {[opnum |-> m.opnum, src |-> i]}]
    BY DEF Heard
  <2>. HIDE DEF f
  <2>3. u.prepareOKs = replica[r].prepareOKs
    BY <1>3, <2>1
  <2>. QED BY <2>1, <2>2, <2>3
<1>. HIDE DEF x
<1>6. ReplicaGoes(r, Alive, Commits, y)
  BY <1>2, <1>3, <1>4, HearGoes
<1>7. y.s = u /\ y.out = x.out
  BY WentIs
<1>. HIDE DEF y, u
<1>8. ReplicaOK(u)
  BY <1>6, <1>7 DEF ReplicaGoes
<1>9. IsFiniteSet(oks)
  BY <1>8, FS_AddElement DEF ReplicaOK
<1>10. z.s = t /\ z.out = {}
  BY <1>5, WentIs
<1>. HIDE DEF oks, z
<1>11. /\ DOMAIN t = ReplicaFields /\ t.prepareOKs = oks
       /\ t.log = u.log /\ t.lastOp = u.lastOp /\ t.cleanUpTo = u.cleanUpTo
       /\ t.lastCommitted = u.lastCommitted
       /\ t.lastCommitteds = u.lastCommitteds
       /\ t.startViewChanges = u.startViewChanges
       /\ t.recoveryResponses = u.recoveryResponses
       /\ t.doViewChanges = u.doViewChanges
  BY <1>8 DEF ReplicaOK, ReplicaFields, MemberFields
<1>. HIDE DEF t
<1>12. ReplicaOK(t)
  BY <1>8, <1>9, <1>11 DEF ReplicaOK, Core
<1>13. ReplicaGoes(r, Alive, Commits, z)
  BY <1>6, <1>7, <1>10, <1>11, <1>12 DEF ReplicaGoes, Goes, Known
<1>14. ReplicaGoes(r, Alive, Commits, HandlePrepareOKQuorum(r, z, m.opnum))
  BY <1>2, <1>3, <1>13, PrepareOKQuorumGoes
<1>15. Step(r, z) => CleanedHolds'
  BY <1>13, ReplicaStep
<1>16. Step(r, HandlePrepareOKQuorum(r, z, m.opnum)) => CleanedHolds'
  BY <1>14, ReplicaStep
<1>. QED BY <1>1, <1>15, <1>16, ReplicaAsks DEF z

LEMMA CommitsHeard ==
  ASSUME CleanedHolds, NEW r \in Replicas, HandleCommit(r)
  PROVE  CleanedHolds'
<1>. DEFINE x == Went(replica[r], {})
<1>1. \/ Step(r, Went(replica[r], RequestStateTransfer(r, replica[r])))
      \/ \E m \in Received("COMMIT") : Step(r, CommitUpTo(x, m.opnum))
  BY DEF HandleCommit
<1>2. \A m \in Received("COMMIT") : m.opnum \in Int
  BY HeldParts DEF Received, MessageOK
<1>3. ReplicaGoes(r, Alive, Commits, x) /\ Group(Alive, Commits) /\ r \in Indices
  BY StartGoes, MembersAre
<1>. HIDE DEF x
<1>4. ASSUME NEW m \in Received("COMMIT"), Step(r, CommitUpTo(x, m.opnum))
      PROVE  CleanedHolds'
  <2>1. ReplicaGoes(r, Alive, Commits, CommitUpTo(x, m.opnum))
    BY <1>2, <1>3, CommitGoes
  <2>. QED BY <1>4, <2>1, ReplicaStep
<1>. QED BY <1>1, <1>4, ReplicaAsks

-----------------------------------------------------------------------------
(* State transfer                                                             *)

LEMMA SetLastOp ==
  ASSUME NEW s, IsMember(s), NEW op \in Int
  PROVE  Changed(s, [s EXCEPT !.lastOp = op])
<1>. DEFINE t == [s EXCEPT !.lastOp = op]
<1>1. MemberFields \subseteq DOMAIN s
  BY DEF IsMember, ReplicaFields
<1>2. /\ DOMAIN t = DOMAIN s /\ t.lastOp = op
      /\ \A f \in DOMAIN s \ {"lastOp"} : t[f] = s[f]
  BY <1>1 DEF MemberFields
<1>. HIDE DEF t
<1>3. /\ t.log = s.log /\ t.lastCommitted = s.lastCommitted
      /\ t.cleanUpTo = s.cleanUpTo
      /\ t.startViewChanges = s.startViewChanges
      /\ t.recoveryResponses = s.recoveryResponses
  BY <1>1, <1>2 DEF MemberFields
<1>4. DOMAIN s = ReplicaFields =>
        /\ t.lastCommitteds = s.lastCommitteds /\ t.doViewChanges = s.doViewChanges
        /\ t.prepareOKs = s.prepareOKs
  BY <1>2 DEF ReplicaFields
<1>5. IsLog(s.log)
  BY DEF IsMember, Core
<1>6. Changed(s, t)
  BY <1>2, <1>3, <1>4, <1>5 DEF Changed
<1>. QED BY <1>6 DEF t

(* One entry, whoever takes it.                                               *)
LEMMA TransferredOne ==
  ASSUME NEW y, DOMAIN y = {"s", "old"}, IsMember(y.s), y.old \in Int,
         NEW e, e.opnum \in Int
  PROVE  LET z == Transferred(y, e) IN
         /\ DOMAIN z = {"s", "old"} /\ z.old \in Int /\ Changed(y.s, z.s)
<1>. DEFINE s    == y.s
            next == [s EXCEPT !.log = AppendEntry(@, e), !.lastOp = @ + 1]
            removed == RemoveAfter(s.log, e.opnum)
            log  == AppendEntry(removed, e)
            kept == [s EXCEPT !.log = log, !.lastOp = e.opnum]
            replaced == [s |-> kept, old |-> e.opnum]
            z == Transferred(y, e)
<1>1. IsLog(s.log) /\ s.lastCommitted \in Nat /\ s.lastOp \in Int /\ Changed(s, s)
  BY Unchanged DEF IsMember, Core
<1>2. z \in {y, replaced, [y EXCEPT !.s = next]}
  <2>1. \/ e.opnum <= s.lastCommitted
        \/ e.opnum > s.lastCommitted /\ e.opnum <= s.lastOp
        \/ e.opnum > s.lastCommitted /\ e.opnum > s.lastOp
    <3>. HIDE DEF s
    <3>. QED BY <1>1
  <2>2. z = CASE e.opnum <= s.lastCommitted -> y
              [] e.opnum > s.lastCommitted /\ e.opnum <= s.lastOp ->
                   IF Find(s.log, e.opnum).view = e.view THEN y ELSE replaced
              [] e.opnum > s.lastCommitted /\ e.opnum > s.lastOp ->
                   [y EXCEPT !.s = next]
    BY DEF Transferred
  <2>. HIDE DEF s, replaced, next, z
  <2>. QED BY <2>1, <2>2
<1>. HIDE DEF z
<1>3. Changed(s, next)
  <2>. DEFINE new == AppendEntry(s.log, e)
              last == s.lastOp + 1
  <2>1. Kept(s.log, new) /\ last \in Int
    BY <1>1, AppendKept
  <2>. HIDE DEF new, last
  <2>2. Changed(s, [s EXCEPT !.log = new, !.lastOp = last])
    BY <2>1, Relog
  <2>. QED BY <2>2 DEF new, last
<1>4. Changed(s, kept)
  <2>1. Kept(s.log, removed)
    BY <1>1, RemoveAfterKept
  <2>. HIDE DEF removed
  <2>2. Kept(removed, log)
    BY <2>1, AppendKept DEF Kept
  <2>3. Kept(s.log, log)
    BY <2>1, <2>2 DEF Kept
  <2>. HIDE DEF log
  <2>. QED BY <2>3, Relog
<1>. HIDE DEF next, kept
<1>5. CASE z = y
  BY <1>1, <1>5 DEF z
<1>6. CASE z = replaced
  BY <1>4, <1>6 DEF z
<1>7. CASE z = [y EXCEPT !.s = next]
  <2>1. z.s = next /\ z.old = y.old /\ DOMAIN z = DOMAIN y
    BY <1>7
  <2>. QED BY <1>3, <2>1 DEF z
<1>. QED BY <1>2, <1>5, <1>6, <1>7

LEMMA TransferredFine ==
  ASSUME NEW s, IsMember(s), NEW old \in Int, NEW es, IsEntries(es)
  PROVE  LET y == FoldLeft(Transferred, [s |-> s, old |-> old], es) IN
         Changed(s, y.s) /\ y.old \in Int
<1>. DEFINE base == [s |-> s, old |-> old]
            n == Len(es)
            y == FoldLeft(Transferred, base, es)
<1>1. y = Transferring!Fold({}, base, es)
  BY DEF Transferring!Fold, FoldLeft, MapThenFoldSet, TransferAt,
         Transferring!FoldLeft, Transferring!MapThenFoldSet, Max, Transferring!Max
<1>. HIDE DEF y
<1>2. PICK S : es \in Seq(S)
  BY DEF IsEntries, IsSeq
<1>3. n \in Nat /\ \A i \in 1 .. n : es[i].opnum \in Int
  BY SeqIs DEF IsEntries
<1>4. PICK run : Transferring!IsRun(run, {}, base, es)
  BY <1>2, Transferring!FoldSteps, Zenon
<1>5. /\ run[0] = base /\ y = run[n]
      /\ \A i \in 1 .. n : run[i] = Transferred(run[i - 1], es[i])
  BY <1>1, <1>4 DEF Transferring!IsRun, TransferAt
<1>. DEFINE Fine(z) == DOMAIN z = {"s", "old"} /\ z.old \in Int /\ Changed(s, z.s)
            T == {i \in 0 .. n : Fine(run[i])}
<1>. HIDE DEF n
<1>6. 0 \in T
  <2>1. Fine(base)
    BY Unchanged
  <2>. HIDE DEF Fine
  <2>. QED BY <1>3, <1>5, <2>1
<1>7. ASSUME NEW i \in 1 .. n, i - 1 \in T PROVE i \in T
  <2>. DEFINE z == run[i - 1]
              e == es[i]
  <2>1. Fine(z) /\ i \in 0 .. n /\ e.opnum \in Int /\ run[i] = Transferred(z, e)
    BY <1>3, <1>5, <1>7
  <2>. HIDE DEF z, e
  <2>2. IsMember(z.s)
    BY <2>1, ChangedMember
  <2>3. DOMAIN run[i] = {"s", "old"} /\ run[i].old \in Int /\ Changed(z.s, run[i].s)
    BY <2>1, <2>2, TransferredOne
  <2>4. Fine(run[i])
    BY <2>1, <2>3, ChangedTwice
  <2>. QED BY <2>1, <2>4
<1>8. \A i \in 0 .. n : i \in T
  <2>. HIDE DEF T
  <2>. QED BY <1>3, <1>6, <1>7, RangeInduction
<1>9. Fine(y)
  BY <1>3, <1>5, <1>8
<1>. QED BY <1>9 DEF y

LEMMA UpdateClientsChanged ==
  ASSUME NEW s, ReplicaOK(s), NEW es, IsEntries(es)
  PROVE  Changed(s, UpdateClients(s, es))
<1>1. Same(s, UpdateClients(s, es))
  BY UpdateClientsSame DEF ReplicaOK, IsEntries
<1>. QED BY <1>1, SameChanged

LEMMA EnterViewChanged ==
  ASSUME NEW s, ReplicaOK(s), NEW view
  PROVE  Changed(s, EnterView(s, view))
<1>. DEFINE t == EnterView(s, view)
<1>1. /\ DOMAIN t = DOMAIN s /\ t.log = s.log /\ t.lastOp = s.lastOp
      /\ t.lastCommitted = s.lastCommitted /\ t.cleanUpTo = s.cleanUpTo
      /\ t.startViewChanges = {} /\ t.recoveryResponses = {}
      /\ t.lastCommitteds = s.lastCommitteds /\ t.doViewChanges = {}
      /\ t.prepareOKs = {}
  BY DEF EnterView, ReplicaOK, ReplicaFields, MemberFields
<1>. HIDE DEF t
<1>2. IsLog(s.log) /\ s.lastOp \in Int
  BY DEF ReplicaOK, Core
<1>3. Changed(s, t)
  BY <1>1, <1>2 DEF Changed
<1>. QED BY <1>3 DEF t

(* What a changed state commits and acknowledges.                             *)
LEMMA AdoptGoes ==
  ASSUME CleanedHolds, NEW r \in Replicas, NEW t, Changed(replica[r], t),
         NEW upto \in Int, NEW old \in Int
  PROVE  /\ ReplicaGoes(r, Alive, Commits, CommitUpTo(Went(t, {}), upto))
         /\ ReplicaGoes(r, Alive, Commits,
                        SendPrepareOKs(r, CommitUpTo(Went(t, {}), upto), old))
<1>. DEFINE x == Went(replica[r], {})
            y == Went(t, {})
            z == CommitUpTo(y, upto)
<1>1. /\ ReplicaGoes(r, Alive, Commits, x) /\ Group(Alive, Commits) /\ r \in Indices
      /\ x.s = replica[r] /\ y.s = t /\ y.out = {}
  BY StartGoes, WentIs, MembersAre
<1>. HIDE DEF x, y
<1>2. ReplicaGoes(r, Alive, Commits, y)
  <2>1. Sends(r, Alive, Commits, x, y)
    BY <1>1 DEF Sends
  <2>. QED BY <1>1, <2>1, ChangedGoes
<1>3. ReplicaGoes(r, Alive, Commits, z)
  BY <1>1, <1>2, CommitGoes
<1>. HIDE DEF z
<1>4. ReplicaGoes(r, Alive, Commits, SendPrepareOKs(r, z, old))
  BY <1>1, <1>3, SendPrepareOKsGoes
<1>. QED BY <1>3, <1>4 DEF z, y

LEMMA TransferRequests ==
  ASSUME CleanedHolds, LogsInOrder, NEW r \in Replicas, HandleRequestStateTransfer(r)
  PROVE  CleanedHolds'
<1>. DEFINE s == replica[r]
<1>1. PICK m \in Received("REQUESTSTATETRANSFER") :
        Step(r, Went(s, IF m.view > s.view THEN RequestStateTransfer(r, s)
                        ELSE {StateTransfer(s, m.opnum, m.src)}))
  BY DEF HandleRequestStateTransfer
<1>2. m.opnum \in Int
  BY HeldParts DEF Received, MessageOK
<1>3. Core(s) /\ InOrder(s.log)
  BY ReplicaFineIs, MembersAre DEF IsMember, LogsInOrder
<1>4. MessageOK(StateTransfer(s, m.opnum, m.src), Alive, Commits)
  <2>. HIDE DEF s
  <2>. QED BY <1>2, <1>3, LogMessageFine
<1>5. \A n \in {StateTransfer(s, m.opnum, m.src)} : MessageOK(n, Alive, Commits)
  BY <1>4
<1>. QED BY <1>1, <1>5, ReplicaAsks, ReplicaSays

LEMMA Transfers ==
  ASSUME CleanedHolds, NEW r \in Replicas, HandleStateTransfer(r)
  PROVE  CleanedHolds'
<1>. DEFINE s == replica[r]
<1>1. PICK m \in Received("STATETRANSFER") :
        LET y == FoldLeft(Transferred, [s |-> s, old |-> s.lastOp], m.entries)
            u == UpdateClients(y.s, m.entries)
            t == IF Joins(s, m.view) THEN EnterView(u, m.view) ELSE u
        IN  Step(r, SendPrepareOKs(r, CommitUpTo(Went(t, {}), m.opnum), y.old))
  BY DEF HandleStateTransfer
<1>. DEFINE y == FoldLeft(Transferred, [s |-> s, old |-> s.lastOp], m.entries)
            u == UpdateClients(y.s, m.entries)
            v == EnterView(u, m.view)
            t == IF Joins(s, m.view) THEN v ELSE u
            z == SendPrepareOKs(r, CommitUpTo(Went(t, {}), m.opnum), y.old)
<1>2. m.opnum \in Int /\ IsEntries(m.entries)
  BY HeldParts DEF Received, MessageOK
<1>3. ReplicaOK(s) /\ IsMember(s) /\ s.lastOp \in Int
  BY ReplicaFineIs
<1>4. Step(r, z)
  BY <1>1
<1>. HIDE DEF s
<1>5. Changed(s, y.s) /\ y.old \in Int
  BY <1>2, <1>3, TransferredFine
<1>. HIDE DEF y
<1>6. ReplicaOK(y.s)
  BY <1>3, <1>5, ChangedOK
<1>7. Changed(y.s, u)
  BY <1>2, <1>6, UpdateClientsChanged
<1>. HIDE DEF u
<1>8. Changed(u, v)
  BY <1>6, <1>7, ChangedOK, EnterViewChanged
<1>. HIDE DEF v
<1>9. Changed(s, t)
  BY <1>5, <1>7, <1>8, ChangedTwice
<1>. HIDE DEF t
<1>10. ReplicaGoes(r, Alive, Commits, z)
  BY <1>2, <1>5, <1>9, AdoptGoes DEF s
<1>. HIDE DEF z
<1>. QED BY <1>4, <1>10, ReplicaStep

-----------------------------------------------------------------------------
(* View change                                                                *)

(* What has been committed and heard of is as before.                        *)
Keeps(s, t) ==
  /\ t.lastCommitted = s.lastCommitted /\ t.cleanUpTo = s.cleanUpTo
  /\ DOMAIN s = ReplicaFields => t.lastCommitteds = s.lastCommitteds

LEMMA KeepsGoes ==
  ASSUME NEW i, NEW U, NEW commits, NEW x, NEW y, Keeps(x.s, y.s),
         Sends(i, U, commits, x, y)
  PROVE  /\ ReplicaGoes(i, U, commits, x) /\ ReplicaOK(y.s)
              => ReplicaGoes(i, U, commits, y)
         /\ WitnessGoes(i, U, commits, x) /\ WitnessOK(y.s)
              => WitnessGoes(i, U, commits, y)
<1>1. Goes(i, U, commits, x) => Goes(i, U, commits, y)
  BY DEF Keeps, Goes, Sends
<1>2. ASSUME ReplicaGoes(i, U, commits, x), ReplicaOK(y.s)
      PROVE  ReplicaGoes(i, U, commits, y)
  <2>1. y.s.lastCommitteds = x.s.lastCommitteds
    BY <1>2 DEF ReplicaGoes, ReplicaOK, Keeps
  <2>2. y.s.lastCommitted = x.s.lastCommitted
    BY DEF Keeps
  <2>3. Known(y.s, U, [commits EXCEPT ![i] = y.s.lastCommitted])
    BY <1>2, <2>1, <2>2 DEF ReplicaGoes, Known
  <2>. QED BY <1>1, <1>2, <2>3 DEF ReplicaGoes
<1>3. ASSUME WitnessGoes(i, U, commits, x), WitnessOK(y.s)
      PROVE  WitnessGoes(i, U, commits, y)
  BY <1>1, <1>3 DEF WitnessGoes
<1>. QED BY <1>2, <1>3

LEMMA ReplicaKeeps ==
  ASSUME CleanedHolds, NEW r \in Replicas, NEW y, Step(r, y),
         Keeps(replica[r], y.s), ReplicaOK(y.s),
         \A m \in y.out : MessageOK(m, Alive, Commits)
  PROVE  CleanedHolds'
<1>. DEFINE x == Went(replica[r], {})
<1>1. x.s = replica[r] /\ x.out = {} /\ ReplicaGoes(r, Alive, Commits, x)
  BY StartGoes, WentIs
<1>. HIDE DEF x
<1>2. [Commits EXCEPT ![r] = x.s.lastCommitted] = Commits
  BY <1>1, HeldParts, MembersAre
<1>3. Sends(r, Alive, Commits, x, y)
  BY <1>2 DEF Sends
<1>. QED BY <1>1, <1>3, KeepsGoes, ReplicaStep

LEMMA WitnessKeeps ==
  ASSUME CleanedHolds, NEW w \in Witnesses, NEW y, WitnessStep(w, y),
         Keeps(witness[w], y.s), WitnessOK(y.s),
         \A m \in y.out : MessageOK(m, Alive, Commits)
  PROVE  CleanedHolds'
<1>. DEFINE x == Went(witness[w], {})
<1>1. x.s = witness[w] /\ x.out = {} /\ WitnessGoes(w, Alive, Commits, x)
  BY StartGoes, WentIs
<1>. HIDE DEF x
<1>2. [Commits EXCEPT ![w] = x.s.lastCommitted] = Commits
  BY <1>1, HeldParts, MembersAre
<1>3. Sends(w, Alive, Commits, x, y)
  BY <1>2 DEF Sends
<1>. QED BY <1>1, <1>3, KeepsGoes, WitnessStepHolds

LEMMA ChangedKeeps ==
  ASSUME NEW s, NEW t, Changed(s, t)
  PROVE  Keeps(s, t)
BY DEF Changed, Keeps

(* What joining a view's change does, and its timeout.                       *)
LEMMA StartViewChangeFine ==
  ASSUME NEW r, NEW s, ReplicaOK(s), NEW view
  PROVE  LET x == StartViewChange(r, s, view) IN
         /\ Changed(s, x.s) /\ x.s.log = s.log
         /\ \A U, new : \A m \in x.out : MessageOK(m, U, new)
<1>. DEFINE t == [s EXCEPT !.view = view, !.status = "VIEW_CHANGE",
                           !.closeBatch = FALSE, !.startViewChanges = {},
                           !.doViewChanges = {}]
            out == {StartViewChangeMessage(r, s, view)}
            x == StartViewChange(r, s, view)
<1>1. x.s = t /\ x.out = out
  BY WentIs DEF StartViewChange
<1>2. \A U, new : \A m \in out : MessageOK(m, U, new)
  BY NoteFine DEF ReplicaOK, Core
<1>3. /\ DOMAIN t = DOMAIN s /\ t.log = s.log /\ t.lastOp = s.lastOp
      /\ t.lastCommitted = s.lastCommitted /\ t.cleanUpTo = s.cleanUpTo
      /\ t.startViewChanges = {} /\ t.recoveryResponses = s.recoveryResponses
      /\ t.lastCommitteds = s.lastCommitteds /\ t.doViewChanges = {}
      /\ t.prepareOKs = s.prepareOKs
  BY DEF ReplicaOK, ReplicaFields, MemberFields
<1>. HIDE DEF t, out, x
<1>4. IsLog(s.log) /\ s.lastOp \in Int
  BY DEF ReplicaOK, Core
<1>5. Changed(s, t)
  BY <1>3, <1>4 DEF Changed
<1>. QED BY <1>1, <1>2, <1>3, <1>5 DEF x

LEMMA JoinedFine ==
  ASSUME NEW r, NEW s, ReplicaOK(s), NEW view
  PROVE  LET x == Joined(r, s, view) IN
         /\ Changed(s, x.s) /\ x.s.log = s.log
         /\ \A U, new : \A m \in x.out : MessageOK(m, U, new)
<1>1. Changed(s, s)
  BY MemberIs, Unchanged
<1>2. CASE view > s.view
  BY <1>2, StartViewChangeFine DEF Joined
<1>3. CASE ~(view > s.view)
  BY <1>1, <1>3, WentIs DEF Joined
<1>. QED BY <1>2, <1>3

LEMMA ViewChangeTimeouts ==
  ASSUME CleanedHolds, NEW r \in Replicas, ViewChangeTimeout(r)
  PROVE  CleanedHolds'
<1>. DEFINE x == StartViewChange(r, replica[r], NextView(replica[r].view))
<1>1. Step(r, x)
  BY DEF ViewChangeTimeout
<1>2. Changed(replica[r], x.s) /\ \A m \in x.out : MessageOK(m, Alive, Commits)
  BY ReplicaFineIs, StartViewChangeFine
<1>. HIDE DEF x
<1>. QED BY <1>1, <1>2, ReplicaChanges

(* A message is collected in place of its sender's earlier one.               *)
LEMMA WithIs ==
  ASSUME NEW quorum, NEW m
  PROVE  /\ \A q \in With(quorum, m) : q \in quorum \/ q = m
         /\ IsFiniteSet(quorum) => IsFiniteSet(With(quorum, m))
<1>1. {q \in quorum : q.src # m.src} \subseteq quorum
  OBVIOUS
<1>2. IsFiniteSet(quorum) => IsFiniteSet(With(quorum, m))
  BY <1>1, FS_Subset, FS_AddElement DEF With
<1>. QED BY <1>2 DEF With

LEMMA LowestHeardFine ==
  ASSUME NEW s, Core(s)
  PROVE  LowestHeard(s) \in Nat
<1>. DEFINE S == {q.lastCommitted : q \in s.startViewChanges} \cup {s.lastCommitted}
<1>1. S \subseteq Nat /\ S # {}
  BY DEF Core
<1>2. LowestHeard(s) = Min(S)
  BY DEF LowestHeard
<1>. HIDE DEF S
<1>. QED BY <1>1, <1>2, MinOfNaturals

LEMMA StartViewChanges ==
  ASSUME CleanedHolds, LogsInOrder, NEW r \in Replicas, HandleStartViewChange(r)
  PROVE  CleanedHolds'
<1>1. PICK m \in Received("STARTVIEWCHANGE") :
        LET x      == Joined(r, replica[r], m.view)
            s      == [x.s EXCEPT !.startViewChanges = With(@, m)]
            lowest == Min({LowestHeard(s), GetLowestReplicaCommit(s)})
        IN  \/ Step(r, Went(s, x.out \cup {DoViewChange(r, s, lowest)}))
            \/ Step(r, Went(s, x.out))
  BY DEF HandleStartViewChange
<1>2. m.lastCommitted \in Nat
  BY HeldParts DEF Received, MessageOK
<1>. DEFINE x      == Joined(r, replica[r], m.view)
            quorum == With(x.s.startViewChanges, m)
            s      == [x.s EXCEPT !.startViewChanges = quorum]
            lowest == Min({LowestHeard(s), GetLowestReplicaCommit(s)})
            change == DoViewChange(r, s, lowest)
            y == Went(s, x.out)
            z == Went(s, x.out \cup {change})
<1>3. ReplicaOK(replica[r]) /\ InOrder(replica[r].log)
  BY ReplicaFineIs, MembersAre DEF LogsInOrder
<1>4. /\ Changed(replica[r], x.s) /\ x.s.log = replica[r].log
      /\ \A n \in x.out : MessageOK(n, Alive, Commits)
  BY <1>3, JoinedFine
<1>5. /\ y.s = s /\ y.out = x.out /\ z.s = s /\ z.out = x.out \cup {change}
      /\ Step(r, y) \/ Step(r, z)
  BY <1>1, WentIs
<1>. HIDE DEF x, y, z
<1>6. ReplicaOK(x.s)
  BY <1>3, <1>4, ChangedOK
<1>7. \A q \in quorum : q.lastCommitted \in Nat
  BY <1>2, <1>6, WithIs DEF ReplicaOK, Core
<1>. HIDE DEF quorum
<1>8. /\ DOMAIN s = ReplicaFields /\ s.startViewChanges = quorum
      /\ s.log = x.s.log /\ s.lastOp = x.s.lastOp /\ s.cleanUpTo = x.s.cleanUpTo
      /\ s.lastCommitted = x.s.lastCommitted
      /\ s.lastCommitteds = x.s.lastCommitteds
      /\ s.recoveryResponses = x.s.recoveryResponses
      /\ s.doViewChanges = x.s.doViewChanges /\ s.prepareOKs = x.s.prepareOKs
  BY <1>6 DEF ReplicaOK, ReplicaFields, MemberFields
<1>. HIDE DEF s
<1>9. ReplicaOK(s)
  BY <1>6, <1>7, <1>8 DEF ReplicaOK, Core
<1>10. Keeps(replica[r], s)
  BY <1>4, <1>8 DEF Changed, Keeps
<1>11. MessageOK(change, Alive, Commits)
  <2>1. LowestHeard(s) \in Nat /\ GetLowestReplicaCommit(s) \in Nat
    BY <1>9, LowestHeardFine, LowestFine DEF ReplicaOK
  <2>2. lowest \in Int
    <3>. DEFINE S == {LowestHeard(s), GetLowestReplicaCommit(s)}
    <3>1. S \subseteq Nat /\ S # {}
      BY <2>1
    <3>. HIDE DEF S
    <3>2. Min(S) \in Nat
      BY <3>1, MinOfNaturals
    <3>. QED BY <3>2 DEF S
  <2>. HIDE DEF lowest
  <2>. QED BY <1>3, <1>4, <1>8, <1>9, <2>2, LogMessageFine DEF ReplicaOK
<1>. HIDE DEF change
<1>12. CASE Step(r, y)
  BY <1>4, <1>5, <1>9, <1>10, <1>12, ReplicaKeeps
<1>13. CASE Step(r, z)
  BY <1>4, <1>5, <1>9, <1>10, <1>11, <1>13, ReplicaKeeps
<1>. QED BY <1>5, <1>12, <1>13

LEMMA ReplacedKept ==
  ASSUME NEW log, IsLog(log), NEW m, Brings(m)
  PROVE  Kept(log, Replaced(log, m))
<1>1. CASE m.entries = << >>
  BY <1>1 DEF Replaced, Kept
<1>2. CASE m.entries # << >>
  <2>. DEFINE removed == RemoveAfter(log, m.lastOp + 1)
  <2>1. Kept(log, removed)
    BY RemoveAfterKept DEF Brings
  <2>. HIDE DEF removed
  <2>2. Kept(removed, Install(removed, m.entries))
    BY <2>1, InstallKept DEF Kept, Brings
  <2>3. Replaced(log, m) = Install(removed, m.entries)
    BY <1>2 DEF Replaced, removed
  <2>. QED BY <2>1, <2>2, <2>3 DEF Kept
<1>. QED BY <1>1, <1>2

(* The state once a message's log is taken over, and its clients.             *)
LEMMA InstalledFine ==
  ASSUME NEW s, ReplicaOK(s), NEW m, Brings(m)
  PROVE  Changed(s, UpdateClients([s EXCEPT !.log = Replaced(@, m)], m.entries))
<1>. DEFINE log == Replaced(s.log, m)
            t == [s EXCEPT !.log = log]
<1>1. Kept(s.log, log)
  BY ReplacedKept DEF ReplicaOK, Core
<1>. HIDE DEF log
<1>2. Changed(s, t)
  BY <1>1, MemberIs, Relog DEF ReplicaOK, Core
<1>. HIDE DEF t
<1>3. ReplicaOK(t)
  BY <1>2, ChangedOK
<1>4. Changed(t, UpdateClients(t, m.entries))
  BY <1>3, UpdateClientsChanged DEF Brings
<1>5. Changed(s, UpdateClients(t, m.entries))
  BY <1>2, <1>4, ChangedTwice
<1>. QED BY <1>5 DEF t, log

LEMMA LowestCommittedFine ==
  ASSUME NEW s, ReplicaOK(s), NEW low \in LowestCommitted(s)
  PROVE  low \in Int
<1>. DEFINE S == {d.lastCommitted : d \in s.doViewChanges}
                    \cup {s.lastCommitted, GetLowestReplicaCommit(s)}
            lowest == Min(S)
            T == {q.lastCommitted : q \in s.startViewChanges} \cup {lowest}
<1>1. S \subseteq Nat /\ S # {}
  <2>1. GetLowestReplicaCommit(s) \in Nat
    BY LowestFine DEF ReplicaOK
  <2>. QED BY <2>1 DEF ReplicaOK, Core, Brings
<1>2. lowest \in Nat
  <2>. HIDE DEF S
  <2>. QED BY <1>1, MinOfNaturals
<1>3. LowestCommitted(s) = IF s.startViewChanges = {} THEN 0 .. lowest ELSE {Min(T)}
  BY DEF LowestCommitted
<1>. HIDE DEF lowest
<1>4. T \subseteq Nat /\ T # {}
  BY <1>2 DEF ReplicaOK, Core
<1>. HIDE DEF T
<1>5. Min(T) \in Nat
  BY <1>4, MinOfNaturals
<1>. QED BY <1>2, <1>3, <1>5

(* The leader of a new view forgets what it has heard: all have committed    *)
(* what it has cleaned.                                                        *)
LEMMA ForgottenGoes ==
  ASSUME NEW U, NEW commits, Group(U, commits), NEW r, NEW x,
         ReplicaGoes(r, U, commits, x)
  PROVE  ReplicaGoes(r, U, commits, Went(Forgotten(x.s), x.out))
<1>. DEFINE new == [commits EXCEPT ![r] = x.s.lastCommitted]
            heard == [i \in Indices |-> x.s.cleanUpTo]
            t == [x.s EXCEPT !.lastCommitteds = heard]
            y == Went(t, x.out)
<1>1. /\ ReplicaOK(x.s) /\ Goes(r, U, commits, x) /\ DOMAIN x.s = ReplicaFields
      /\ AllCommitted(x.s.cleanUpTo, U, new)
  BY DEF ReplicaGoes, Goes, ReplicaOK
<1>2. heard \in [Indices -> Nat] /\ \A j \in U : heard[j] = x.s.cleanUpTo
  BY <1>1 DEF ReplicaOK, Core, Group
<1>3. y.s = t /\ y.out = x.out
  BY WentIs
<1>. HIDE DEF heard, y
<1>4. /\ DOMAIN t = ReplicaFields /\ t.lastCommitteds = heard
      /\ t.log = x.s.log /\ t.lastOp = x.s.lastOp /\ t.cleanUpTo = x.s.cleanUpTo
      /\ t.lastCommitted = x.s.lastCommitted
      /\ t.startViewChanges = x.s.startViewChanges
      /\ t.recoveryResponses = x.s.recoveryResponses
      /\ t.doViewChanges = x.s.doViewChanges /\ t.prepareOKs = x.s.prepareOKs
  BY <1>1 DEF ReplicaFields, MemberFields
<1>. HIDE DEF t
<1>5. ReplicaOK(t)
  BY <1>1, <1>2, <1>4 DEF ReplicaOK, Core
<1>6. Goes(r, U, commits, y)
  BY <1>1, <1>3, <1>4 DEF Goes
<1>7. Known(t, U, new)
  BY <1>1, <1>2, <1>4 DEF Known, AllCommitted
<1>8. ReplicaGoes(r, U, commits, y)
  BY <1>3, <1>4, <1>5, <1>6, <1>7 DEF ReplicaGoes
<1>. QED BY <1>8 DEF y, t, heard, Forgotten

LEMMA TakeOverGoes ==
  ASSUME NEW U, NEW commits, Group(U, commits), NEW r \in Indices, NEW x,
         ReplicaGoes(r, U, commits, x), InOrder(x.s.log), NEW view,
         NEW low \in Int, InOrder(TakeOver(x, view, low).s.log)
  PROVE  ReplicaGoes(r, U, commits, TakeOver(x, view, low))
<1>. DEFINE latest    == LatestMessages(x.s)
            d         == CHOOSE e \in latest : TRUE
            updated   == UpdateClients([x.s EXCEPT !.log = Replaced(@, d)], d.entries)
            installed == IF latest = {} THEN x.s ELSE updated
            op        == IF latest = {} THEN LastOpnum(x.s.log) ELSE d.lastOp
            C         == {e.lastCommitted : e \in x.s.doViewChanges}
                           \cup {x.s.lastCommitted}
            committed == Max(C)
            t == [installed EXCEPT !.lastOp = op]
            u == EnterView(t, view)
            w == Went(u, x.out)
            y == CommitUpTo(w, committed)
            s == Forgotten(y.s)
            z == Went(s, y.out)
            start == StartView(s, low)
            over == Went(s, y.out \cup {start})
<1>1. ReplicaOK(x.s) /\ Changed(x.s, x.s) /\ IsMember(x.s)
  BY MemberIs, Unchanged DEF ReplicaGoes
<1>2. TakeOver(x, view, low) = over
  BY DEF TakeOver, TakenOver, HighestCommitted
<1>3. latest # {} => d \in x.s.doViewChanges
  <2>1. latest \subseteq x.s.doViewChanges
    BY DEF LatestMessages
  <2>. HIDE DEF latest
  <2>. QED BY <2>1
<1>4. latest # {} => Brings(d)
  BY <1>1, <1>3 DEF ReplicaOK
<1>. HIDE DEF d
<1>5. Changed(x.s, installed)
  <2>1. latest # {} => Changed(x.s, updated)
    BY <1>1, <1>4, InstalledFine
  <2>. HIDE DEF updated, latest
  <2>. QED BY <1>1, <2>1
<1>6. op \in Int
  <2>1. LastOpnum(x.s.log) \in Int
    <3>1. IsLog(x.s.log) /\ x.s.log.start \in Int /\ Len(x.s.log.entries) \in Int
      BY <1>1, SeqIs DEF IsMember, Core, IsLog
    <3>. QED BY <3>1, LastInOrder
  <2>2. latest # {} => d.lastOp \in Int
    BY <1>4 DEF Brings
  <2>. HIDE DEF latest
  <2>. QED BY <2>1, <2>2
<1>7. committed \in Nat
  <2>1. C \subseteq Nat /\ C # {}
    BY <1>1 DEF ReplicaOK, Core, Brings
  <2>2. IsFiniteSet(C)
    <3>. DEFINE D == {e.lastCommitted : e \in x.s.doViewChanges}
    <3>1. IsFiniteSet(D)
      <4>. DEFINE f == [e \in x.s.doViewChanges |-> e.lastCommitted]
      <4>1. f \in Surjection(x.s.doViewChanges, D)
        BY DEF Surjection
      <4>. HIDE DEF D, f
      <4>. QED BY <1>1, <4>1, FS_Surjection DEF ReplicaOK
    <3>. HIDE DEF D
    <3>2. IsFiniteSet(D \cup {x.s.lastCommitted})
      BY <3>1, FS_AddElement
    <3>. QED BY <3>2 DEF D
  <2>. HIDE DEF C
  <2>. QED BY <2>1, <2>2, MaxOfFinite
<1>. HIDE DEF installed, op, committed
<1>8. Changed(x.s, u)
  <2>1. ReplicaOK(installed) /\ IsMember(installed)
    BY <1>1, <1>5, ChangedOK, MemberIs
  <2>2. Changed(installed, t)
    BY <1>6, <2>1, SetLastOp
  <2>. HIDE DEF t
  <2>3. Changed(t, u)
    BY <2>1, <2>2, ChangedOK, EnterViewChanged
  <2>. HIDE DEF u
  <2>. QED BY <1>5, <2>2, <2>3, ChangedTwice
<1>9. /\ w.s = u /\ w.out = x.out /\ z.s = s /\ z.out = y.out
      /\ over.s = s /\ over.out = z.out \cup {start}
  BY WentIs
<1>. HIDE DEF u, w
<1>10. ReplicaGoes(r, U, commits, w)
  <2>1. Sends(r, U, commits, x, w)
    BY <1>9 DEF Sends
  <2>. QED BY <1>8, <1>9, <2>1, ChangedGoes
<1>11. ReplicaGoes(r, U, commits, y)
  BY <1>7, <1>10, CommitGoes
<1>. HIDE DEF y
<1>12. ReplicaGoes(r, U, commits, z)
  BY <1>11, ForgottenGoes
<1>. HIDE DEF s, z, over
<1>13. ReplicaOK(s) /\ Changed(s, s)
  BY <1>9, <1>12, MemberIs, Unchanged DEF ReplicaGoes
<1>14. \A new : MessageOK(start, U, new)
  <2>1. InOrder(s.log) /\ Core(s)
    BY <1>2, <1>9, <1>13 DEF ReplicaOK
  <2>. QED BY <2>1, LogMessageFine
<1>. HIDE DEF start
<1>15. Sends(r, U, commits, z, over)
  BY <1>9, <1>14 DEF Sends
<1>16. ReplicaGoes(r, U, commits, over)
  BY <1>9, <1>12, <1>13, <1>15, ChangedGoes
<1>. QED BY <1>2, <1>16

LEMMA DoViewChanges ==
  ASSUME CleanedHolds, LogsInOrder, LogsInOrder', NEW r \in Replicas,
         HandleDoViewChange(r)
  PROVE  CleanedHolds'
<1>1. PICK m \in Received("DOVIEWCHANGE") :
        LET x == Joined(r, replica[r], m.view)
            s == [x.s EXCEPT !.doViewChanges = With(@, m)]
        IN  \/ Step(r, Went(s, x.out))
            \/ \E low \in LowestCommitted(s) :
                 Step(r, TakeOver(Went(s, x.out), m.view, low))
  BY DEF HandleDoViewChange
<1>2. Brings(m)
  BY HeldParts DEF Received, MessageOK
<1>. DEFINE x == Joined(r, replica[r], m.view)
            quorum == With(x.s.doViewChanges, m)
            s == [x.s EXCEPT !.doViewChanges = quorum]
            y == Went(s, x.out)
<1>3. ReplicaOK(replica[r]) /\ InOrder(replica[r].log) /\ r \in Indices
  BY ReplicaFineIs, MembersAre DEF LogsInOrder
<1>4. /\ Changed(replica[r], x.s) /\ x.s.log = replica[r].log
      /\ \A n \in x.out : MessageOK(n, Alive, Commits)
  BY <1>3, JoinedFine
<1>5. y.s = s /\ y.out = x.out
  BY WentIs
<1>6. \/ Step(r, y)
      \/ \E low \in LowestCommitted(s) : Step(r, TakeOver(y, m.view, low))
  BY <1>1
<1>. HIDE DEF x, y
<1>7. ReplicaOK(x.s)
  BY <1>3, <1>4, ChangedOK
<1>8. IsFiniteSet(quorum) /\ \A q \in quorum : Brings(q)
  BY <1>2, <1>7, WithIs DEF ReplicaOK
<1>. HIDE DEF quorum
<1>9. /\ DOMAIN s = ReplicaFields /\ s.doViewChanges = quorum
      /\ s.log = x.s.log /\ s.lastOp = x.s.lastOp /\ s.cleanUpTo = x.s.cleanUpTo
      /\ s.lastCommitted = x.s.lastCommitted
      /\ s.lastCommitteds = x.s.lastCommitteds
      /\ s.recoveryResponses = x.s.recoveryResponses
      /\ s.startViewChanges = x.s.startViewChanges /\ s.prepareOKs = x.s.prepareOKs
  BY <1>7 DEF ReplicaOK, ReplicaFields, MemberFields
<1>. HIDE DEF s
<1>10. ReplicaOK(s)
  BY <1>7, <1>8, <1>9 DEF ReplicaOK, Core
<1>11. Keeps(replica[r], s)
  BY <1>4, <1>9 DEF Changed, Keeps
<1>12. CASE Step(r, y)
  BY <1>4, <1>5, <1>10, <1>11, <1>12, ReplicaKeeps
<1>13. ASSUME NEW low \in LowestCommitted(s), Step(r, TakeOver(y, m.view, low))
       PROVE  CleanedHolds'
  <2>. DEFINE z == TakeOver(y, m.view, low)
              v == Went(replica[r], {})
  <2>1. low \in Int
    BY <1>10, LowestCommittedFine
  <2>2. InOrder(z.s.log)
    <3>1. replica' = [replica EXCEPT ![r] = z.s]
      BY <1>13 DEF Step
    <3>2. replica'[r] = z.s
      BY <3>1 DEF CleanedHolds, Holds
    <3>3. InOrder(Member(r)'.log)
      BY <1>3 DEF LogsInOrder
    <3>4. Member(r)' = replica'[r]
      BY DEF Member, Replicas
    <3>. QED BY <3>2, <3>3, <3>4
  <2>3. /\ ReplicaGoes(r, Alive, Commits, v) /\ Group(Alive, Commits)
        /\ v.s = replica[r] /\ v.out = {}
    BY StartGoes, WentIs
  <2>. HIDE DEF v
  <2>4. [Commits EXCEPT ![r] = v.s.lastCommitted] = Commits
    BY <1>3, <2>3, HeldParts
  <2>5. ReplicaGoes(r, Alive, Commits, y)
    <3>1. Sends(r, Alive, Commits, v, y)
      BY <1>4, <1>5, <2>4 DEF Sends
    <3>. QED BY <1>5, <1>10, <1>11, <2>3, <3>1, KeepsGoes
  <2>6. ReplicaGoes(r, Alive, Commits, z)
    BY <1>3, <1>4, <1>5, <1>9, <2>1, <2>2, <2>3, <2>5, TakeOverGoes
  <2>. HIDE DEF z
  <2>. QED BY <1>13, <2>6, ReplicaStep DEF z
<1>. QED BY <1>6, <1>12, <1>13

LEMMA StartViews ==
  ASSUME CleanedHolds, NEW r \in Replicas, HandleStartView(r)
  PROVE  CleanedHolds'
<1>. DEFINE s == replica[r]
<1>1. PICK m \in Received("STARTVIEW") :
        LET known   == UpdateClients([s EXCEPT !.log = Replaced(s.log, m)], m.entries)
            entered == [EnterView(known, m.view) EXCEPT !.lastOp = m.lastOp]
        IN  Step(r, SendPrepareOKs(r, CommitUpTo(Went(entered, {}),
                                                 m.lastCommitted), s.lastOp))
  BY DEF HandleStartView
<1>. DEFINE known   == UpdateClients([s EXCEPT !.log = Replaced(s.log, m)], m.entries)
            t == EnterView(known, m.view)
            entered == [t EXCEPT !.lastOp = m.lastOp]
            z == SendPrepareOKs(r, CommitUpTo(Went(entered, {}), m.lastCommitted),
                                s.lastOp)
<1>2. Brings(m) /\ m.lastOp \in Int /\ m.lastCommitted \in Int
  <2>1. Brings(m)
    BY HeldParts DEF Received, MessageOK
  <2>. QED BY <2>1 DEF Brings
<1>3. ReplicaOK(s) /\ s.lastOp \in Int
  BY ReplicaFineIs
<1>4. Step(r, z)
  BY <1>1
<1>. HIDE DEF s
<1>5. Changed(s, known)
  BY <1>2, <1>3, InstalledFine
<1>. HIDE DEF known
<1>6. Changed(known, t)
  BY <1>3, <1>5, ChangedOK, EnterViewChanged
<1>. HIDE DEF t
<1>7. Changed(s, t)
  BY <1>5, <1>6, ChangedTwice
<1>8. Changed(t, entered)
  BY <1>2, <1>3, <1>7, ChangedOK, MemberIs, SetLastOp
<1>. HIDE DEF entered
<1>9. Changed(s, entered)
  BY <1>7, <1>8, ChangedTwice
<1>10. ReplicaGoes(r, Alive, Commits, z)
  BY <1>2, <1>3, <1>9, AdoptGoes DEF s
<1>. HIDE DEF z
<1>. QED BY <1>4, <1>10, ReplicaStep

-----------------------------------------------------------------------------
(* Crash and recovery                                                         *)

LEMMA EmptyLogIs == IsLog(EmptyLog) /\ EmptyLog.start = 1
BY EmptyIsSeq DEF IsLog, EmptyLog

LEMMA InitialMemberOK ==
  ASSUME NEW s, s = InitialMember \/ s = [InitialMember EXCEPT !.status = "RECOVERING"]
  PROVE  WitnessOK(s) /\ s.cleanUpTo = 0 /\ s.lastCommitted = 0
<1>1. /\ DOMAIN s = MemberFields /\ s.log = EmptyLog /\ s.lastOp = 0
      /\ s.lastCommitted = 0 /\ s.cleanUpTo = 0
      /\ s.startViewChanges = {} /\ s.recoveryResponses = {}
  BY DEF InitialMember, MemberFields
<1>. QED BY <1>1, EmptyLogIs DEF WitnessOK, Core

LEMMA InitialReplicaOK ==
  ASSUME NEW s, s = InitialReplica \/ s = [InitialReplica EXCEPT !.status = "RECOVERING"]
  PROVE  /\ ReplicaOK(s) /\ s.cleanUpTo = 0 /\ s.lastCommitted = 0
         /\ \A j \in Indices : s.lastCommitteds[j] = 0
<1>5. /\ DOMAIN s = DOMAIN InitialReplica
      /\ \A f \in DOMAIN InitialReplica \ {"status"} : s[f] = InitialReplica[f]
  OBVIOUS
<1>6. /\ DOMAIN s = ReplicaFields /\ s.log = EmptyLog /\ s.lastOp = 0
      /\ s.lastCommitted = 0 /\ s.cleanUpTo = 0
      /\ s.startViewChanges = {} /\ s.recoveryResponses = {}
      /\ s.lastCommitteds = [i \in Indices |-> 0]
      /\ s.prepareOKs = {} /\ s.doViewChanges = {}
  BY <1>5 DEF InitialReplica, ReplicaFields, MemberFields
<1>7. IsFiniteSet({})
  BY FS_EmptySet
<1>. QED BY <1>6, <1>7, EmptyLogIs DEF ReplicaOK, Core

(* A member that restarts is no longer counted.                              *)
LEMMA RestartGrows ==
  ASSUME CleanedHolds, NEW i \in Indices,
         restarts' = [restarts EXCEPT ![i] = @ + 1],
         \A j \in Indices \ {i} : Member(j)' = Member(j),
         Member(i)'.lastCommitted = 0
  PROVE  /\ restarts' \in [Indices -> Nat]
         /\ Grows(Alive, Commits, Alive', Commits')
<1>1. restarts \in [Indices -> Nat]
  BY DEF CleanedHolds
<1>2. restarts' \in [Indices -> Nat] /\ restarts'[i] # 0
      /\ \A j \in Indices \ {i} : restarts'[j] = restarts[j]
  BY <1>1
<1>3. Alive' \subseteq Alive /\ i \notin Alive' /\ Alive' \subseteq Indices
  BY <1>2 DEF Alive
<1>4. Commits' \in [Indices -> Nat] /\ \A j \in Indices \ {i} : Commits'[j] = Commits[j]
  <2>1. Commits' = [j \in Indices |-> Member(j)'.lastCommitted]
    BY DEF Commits
  <2>2. \A j \in Indices : Commits[j] = Member(j).lastCommitted
    BY DEF Commits
  <2>3. \A j \in Indices : Commits[j] \in Nat
    BY HeldParts
  <2>4. \A j \in Indices : Member(j)'.lastCommitted \in Nat
    BY <2>2, <2>3
  <2>. QED BY <2>1, <2>2, <2>4
<1>5. ASSUME NEW j \in Alive' PROVE Commits[j] <= Commits'[j]
  <2>1. j \in Indices \ {i} /\ Commits[j] \in Nat
    BY <1>3, HeldParts
  <2>. QED BY <1>4, <2>1
<1>. QED BY <1>2, <1>3, <1>4, <1>5, HeldParts DEF Grows

(* All that is not restarted is fine after such a step.                       *)
LEMMA GrownFine ==
  ASSUME CleanedHolds, Grows(Alive, Commits, Alive', Commits')
  PROVE  /\ \A r \in Replicas :
              /\ AllCommitted(replica[r].cleanUpTo, Alive', Commits')
              /\ Known(replica[r], Alive', Commits')
         /\ \A w \in Witnesses : AllCommitted(witness[w].cleanUpTo, Alive', Commits')
         /\ \A m \in msgs : MessageOK(m, Alive', Commits')
<1>1. ASSUME NEW r \in Replicas
      PROVE  /\ AllCommitted(replica[r].cleanUpTo, Alive', Commits')
             /\ Known(replica[r], Alive', Commits')
  <2>1. ReplicaOK(replica[r]) /\ AllCommitted(replica[r].cleanUpTo, Alive, Commits)
        /\ Known(replica[r], Alive, Commits)
    BY HeldParts
  <2>2. replica[r].cleanUpTo \in Int /\ replica[r].lastCommitteds \in [Indices -> Nat]
    BY <2>1 DEF ReplicaOK, Core
  <2>. QED BY <2>1, <2>2, AllCommittedStays, KnownStays
<1>2. ASSUME NEW w \in Witnesses
      PROVE  AllCommitted(witness[w].cleanUpTo, Alive', Commits')
  <2>1. WitnessOK(witness[w]) /\ AllCommitted(witness[w].cleanUpTo, Alive, Commits)
    BY HeldParts
  <2>2. witness[w].cleanUpTo \in Int
    BY <2>1 DEF WitnessOK, Core
  <2>. QED BY <2>1, <2>2, AllCommittedStays
<1>3. \A m \in msgs : MessageOK(m, Alive', Commits')
  BY HeldParts, MessageStays
<1>. QED BY <1>1, <1>2, <1>3

LEMMA NoneCommitted ==
  ASSUME NEW U, NEW commits, U \subseteq Indices, commits \in [Indices -> Nat]
  PROVE  /\ AllCommitted(0, U, commits)
         /\ \A s : (\A j \in Indices : s.lastCommitteds[j] = 0) => Known(s, U, commits)
<1>1. \A j \in U : j \in Indices /\ commits[j] \in Nat
  OBVIOUS
<1>. QED BY <1>1 DEF AllCommitted, Known

LEMMA ReplicaRestarts ==
  ASSUME CleanedHolds, NEW r \in Replicas, Restart(r)
  PROVE  CleanedHolds'
<1>. DEFINE s == [InitialReplica EXCEPT !.status = "RECOVERING"]
            m == Recovery(r)'
<1>1. /\ restarts' = [restarts EXCEPT ![r] = @ + 1]
      /\ replica' = [replica EXCEPT ![r] = s]
      /\ msgs' = msgs \cup {m} /\ witness' = witness
  BY DEF Restart
<1>2. /\ DOMAIN replica = Replicas /\ DOMAIN witness = Witnesses
      /\ \A i \in Replicas : ReplicaOK(replica[i])
      /\ \A w \in Witnesses : WitnessOK(witness[w])
  BY DEF CleanedHolds, Holds
<1>3. /\ ReplicaOK(s) /\ s.cleanUpTo = 0 /\ s.lastCommitted = 0
      /\ \A j \in Indices : s.lastCommitteds[j] = 0
  BY InitialReplicaOK
<1>4. \A U, new : MessageOK(m, U, new)
  BY DEF Recovery, MessageOK
<1>. HIDE DEF s, m
<1>5. r \in Indices /\ DOMAIN replica' = Replicas /\ replica'[r] = s
      /\ \A i \in Replicas \ {r} : replica'[i] = replica[i]
  BY <1>1, <1>2, MembersAre
<1>6. Member(r)' = s /\ \A j \in Indices \ {r} : Member(j)' = Member(j)
  <2>1. Member(r)' = s
    BY <1>5 DEF Member, Replicas
  <2>2. ASSUME NEW j \in Indices \ {r} PROVE Member(j)' = Member(j)
    BY <1>1, <1>5 DEF Member, Replicas
  <2>. QED BY <2>1, <2>2
<1>7. restarts' \in [Indices -> Nat] /\ Grows(Alive, Commits, Alive', Commits')
  BY <1>1, <1>3, <1>5, <1>6, RestartGrows
<1>8. AllCommitted(s.cleanUpTo, Alive', Commits') /\ Known(s, Alive', Commits')
  <2>1. Alive' \subseteq Indices /\ Commits' \in [Indices -> Nat]
    BY <1>7 DEF Grows
  <2>. QED BY <1>3, <2>1, NoneCommitted
<1>9. ASSUME NEW i \in Replicas
      PROVE  /\ ReplicaOK(replica'[i])
             /\ AllCommitted(replica'[i].cleanUpTo, Alive', Commits')
             /\ Known(replica'[i], Alive', Commits')
  <2>1. CASE i = r
    BY <1>3, <1>5, <1>8, <2>1
  <2>2. CASE i # r
    <3>1. replica'[i] = replica[i]
      BY <1>5, <2>2
    <3>. QED BY <1>2, <1>7, <3>1, GrownFine
  <2>. QED BY <2>1, <2>2
<1>10. \A w \in Witnesses : AllCommitted(witness[w].cleanUpTo, Alive', Commits')
  BY <1>7, GrownFine
<1>11. \A n \in msgs' : MessageOK(n, Alive', Commits')
  BY <1>1, <1>4, <1>7, GrownFine
<1>12. Holds(Alive, Commits)'
  BY <1>1, <1>2, <1>5, <1>9, <1>10, <1>11 DEF Holds
<1>. QED BY <1>7, <1>12 DEF CleanedHolds

LEMMA WitnessRestarts ==
  ASSUME CleanedHolds, NEW w \in Witnesses, WitnessRestart(w)
  PROVE  CleanedHolds'
<1>. DEFINE s == [InitialMember EXCEPT !.status = "RECOVERING"]
            m == Recovery(w)'
<1>1. /\ restarts' = [restarts EXCEPT ![w] = @ + 1]
      /\ witness' = [witness EXCEPT ![w] = s]
      /\ msgs' = msgs \cup {m} /\ replica' = replica
  BY DEF WitnessRestart
<1>2. /\ DOMAIN replica = Replicas /\ DOMAIN witness = Witnesses
      /\ \A i \in Replicas : ReplicaOK(replica[i])
      /\ \A i \in Witnesses : WitnessOK(witness[i])
  BY DEF CleanedHolds, Holds
<1>3. WitnessOK(s) /\ s.cleanUpTo = 0 /\ s.lastCommitted = 0
  BY InitialMemberOK
<1>4. \A U, new : MessageOK(m, U, new)
  BY DEF Recovery, MessageOK
<1>. HIDE DEF s, m
<1>5. w \in Indices /\ DOMAIN witness' = Witnesses /\ witness'[w] = s
      /\ \A i \in Witnesses \ {w} : witness'[i] = witness[i]
  BY <1>1, <1>2, MembersAre
<1>6. Member(w)' = s /\ \A j \in Indices \ {w} : Member(j)' = Member(j)
  <2>1. Member(w)' = s
    BY <1>5 DEF Member, Witnesses
  <2>2. ASSUME NEW j \in Indices \ {w} PROVE Member(j)' = Member(j)
    BY <1>1, <1>5 DEF Member, Witnesses
  <2>. QED BY <2>1, <2>2
<1>7. restarts' \in [Indices -> Nat] /\ Grows(Alive, Commits, Alive', Commits')
  BY <1>1, <1>3, <1>5, <1>6, RestartGrows
<1>8. AllCommitted(s.cleanUpTo, Alive', Commits')
  <2>1. Alive' \subseteq Indices /\ Commits' \in [Indices -> Nat]
    BY <1>7 DEF Grows
  <2>. QED BY <1>3, <2>1, NoneCommitted
<1>9. ASSUME NEW i \in Witnesses
      PROVE  /\ WitnessOK(witness'[i])
             /\ AllCommitted(witness'[i].cleanUpTo, Alive', Commits')
  <2>1. CASE i = w
    BY <1>3, <1>5, <1>8, <2>1
  <2>2. CASE i # w
    <3>1. witness'[i] = witness[i]
      BY <1>5, <2>2
    <3>. QED BY <1>2, <1>7, <3>1, GrownFine
  <2>. QED BY <2>1, <2>2
<1>10. \A r \in Replicas : /\ AllCommitted(replica[r].cleanUpTo, Alive', Commits')
                           /\ Known(replica[r], Alive', Commits')
  BY <1>7, GrownFine
<1>11. \A n \in msgs' : MessageOK(n, Alive', Commits')
  BY <1>1, <1>4, <1>7, GrownFine
<1>12. Holds(Alive, Commits)'
  BY <1>1, <1>2, <1>5, <1>9, <1>10, <1>11 DEF Holds
<1>. QED BY <1>7, <1>12 DEF CleanedHolds

LEMMA Recoveries ==
  ASSUME CleanedHolds, LogsInOrder, NEW r \in Replicas, HandleRecovery(r)
  PROVE  CleanedHolds'
<1>. DEFINE s == replica[r]
<1>1. PICK m \in Received("RECOVERY") : Step(r, Went(s, {RecoveryResponse(r, s, m)}))
  BY DEF HandleRecovery
<1>2. Core(s) /\ InOrder(s.log)
  BY ReplicaFineIs, MembersAre DEF IsMember, LogsInOrder
<1>. DEFINE n == RecoveryResponse(r, s, m)
<1>3. n.type = "RECOVERYRESPONSE" /\ Brings(n)
  <2>. DEFINE leads == AmLeader(r, s)
              dumped == Dump(s.log, 0)
  <2>1. IsEntries(dumped)
    BY <1>2, DumpEntries DEF Core
  <2>2. IsEntries(<< >>)
    BY EmptyIsSeq DEF IsEntries
  <2>3. s.lastOp \in Int /\ s.lastCommitted \in Nat
    BY <1>2 DEF Core
  <2>4. /\ n.type = "RECOVERYRESPONSE"
        /\ n.lastOp = IF leads THEN s.lastOp ELSE 0
        /\ n.lastCommitted = IF leads THEN s.lastCommitted ELSE 0
        /\ n.entries = IF leads THEN dumped ELSE << >>
    BY DEF RecoveryResponse
  <2>. HIDE DEF n, leads, dumped, s
  <2>. QED BY <2>1, <2>2, <2>3, <2>4 DEF Brings
<1>. HIDE DEF n
<1>4. \A o \in {n} : MessageOK(o, Alive, Commits)
  BY <1>3 DEF MessageOK
<1>. QED BY <1>1, <1>4, ReplicaSays DEF n

(* The responses collected, and the leader's among them.                      *)
LEMMA ResponsesFine ==
  ASSUME NEW s, IsMember(s), NEW m, Brings(m)
  PROVE  LET t == [s EXCEPT !.recoveryResponses = With(@, m)] IN
         /\ (ReplicaOK(s) => ReplicaOK(t)) /\ (WitnessOK(s) => WitnessOK(t))
         /\ Keeps(s, t) /\ \A d \in FromLeader(t.recoveryResponses) : Brings(d)
<1>. DEFINE quorum == With(s.recoveryResponses, m)
            t == [s EXCEPT !.recoveryResponses = quorum]
<1>1. MemberFields \subseteq DOMAIN s
  BY DEF IsMember, ReplicaFields
<1>2. \A q \in quorum : Brings(q)
  BY WithIs DEF IsMember, Core
<1>. HIDE DEF quorum
<1>3. /\ DOMAIN t = DOMAIN s /\ t.recoveryResponses = quorum
      /\ \A f \in DOMAIN s \ {"recoveryResponses"} : t[f] = s[f]
  BY <1>1 DEF MemberFields
<1>. HIDE DEF t
<1>4. /\ t.log = s.log /\ t.lastOp = s.lastOp /\ t.lastCommitted = s.lastCommitted
      /\ t.cleanUpTo = s.cleanUpTo /\ t.startViewChanges = s.startViewChanges
  BY <1>1, <1>3 DEF MemberFields
<1>5. DOMAIN s = ReplicaFields =>
        /\ t.lastCommitteds = s.lastCommitteds /\ t.doViewChanges = s.doViewChanges
        /\ t.prepareOKs = s.prepareOKs
  BY <1>3 DEF ReplicaFields
<1>6. Core(t)
  BY <1>2, <1>3, <1>4 DEF IsMember, Core
<1>7. ReplicaOK(s) => ReplicaOK(t)
  BY <1>3, <1>5, <1>6 DEF ReplicaOK
<1>8. WitnessOK(s) => WitnessOK(t)
  BY <1>3, <1>6 DEF WitnessOK
<1>9. Keeps(s, t)
  BY <1>4, <1>5 DEF Keeps
<1>10. \A d \in FromLeader(t.recoveryResponses) : Brings(d)
  BY <1>2, <1>3 DEF FromLeader
<1>. QED BY <1>7, <1>8, <1>9, <1>10 DEF t, quorum

LEMMA RecoveryResponses ==
  ASSUME CleanedHolds, NEW r \in Replicas, HandleRecoveryResponse(r)
  PROVE  CleanedHolds'
<1>1. PICK m \in Received("RECOVERYRESPONSE") :
        LET s == [replica[r] EXCEPT !.recoveryResponses = With(@, m)] IN
        \/ Step(r, Went(s, {}))
        \/ \E d \in FromLeader(s.recoveryResponses) :
             LET t == [EnterView([s EXCEPT !.log = Install(@, d.entries)], d.view)
                         EXCEPT !.lastOp = d.lastOp]
             IN  Step(r, CommitUpTo(Went(t, {}), d.lastCommitted))
  BY DEF HandleRecoveryResponse
<1>2. Brings(m)
  BY HeldParts DEF Received, MessageOK
<1>. DEFINE s == [replica[r] EXCEPT !.recoveryResponses = With(@, m)]
            x == Went(replica[r], {})
            y == Went(s, {})
<1>3. ReplicaOK(replica[r]) /\ IsMember(replica[r]) /\ r \in Indices
  BY ReplicaFineIs
<1>4. ReplicaOK(s) /\ Keeps(replica[r], s) /\ \A d \in FromLeader(s.recoveryResponses) : Brings(d)
  BY <1>2, <1>3, ResponsesFine
<1>. HIDE DEF s
<1>5. /\ x.s = replica[r] /\ x.out = {} /\ y.s = s /\ y.out = {}
      /\ ReplicaGoes(r, Alive, Commits, x) /\ Group(Alive, Commits)
  BY StartGoes, WentIs
<1>. HIDE DEF x
<1>6. CASE Step(r, y)
  <2>. HIDE DEF y
  <2>. QED BY <1>4, <1>5, <1>6, ReplicaKeeps
<1>7. ASSUME NEW d \in FromLeader(s.recoveryResponses),
             LET t == [EnterView([s EXCEPT !.log = Install(@, d.entries)], d.view)
                         EXCEPT !.lastOp = d.lastOp]
             IN  Step(r, CommitUpTo(Went(t, {}), d.lastCommitted))
      PROVE  CleanedHolds'
  <2>. DEFINE log == Install(s.log, d.entries)
              u == [s EXCEPT !.log = log]
              v == EnterView(u, d.view)
              t == [v EXCEPT !.lastOp = d.lastOp]
              w == Went(t, {})
              z == CommitUpTo(w, d.lastCommitted)
  <2>1. /\ d.lastOp \in Int /\ d.lastCommitted \in Int /\ IsEntries(d.entries)
        /\ Step(r, z)
    BY <1>4, <1>7 DEF Brings
  <2>2. Kept(s.log, log)
    BY <1>4, <2>1, InstallKept DEF ReplicaOK, Core
  <2>. HIDE DEF log
  <2>3. Changed(s, u)
    BY <1>4, <2>2, MemberIs, Relog DEF ReplicaOK, Core
  <2>. HIDE DEF u
  <2>4. Changed(u, v)
    BY <1>4, <2>3, ChangedOK, EnterViewChanged
  <2>. HIDE DEF v
  <2>5. Changed(s, v)
    BY <2>3, <2>4, ChangedTwice
  <2>6. Changed(v, t)
    BY <1>4, <2>1, <2>5, ChangedOK, MemberIs, SetLastOp
  <2>. HIDE DEF t
  <2>7. Changed(s, t)
    BY <2>5, <2>6, ChangedTwice
  <2>8. ReplicaOK(t) /\ Keeps(replica[r], t)
    <3>1. DOMAIN s = ReplicaFields
      BY <1>4 DEF ReplicaOK
    <3>2. Keeps(s, t)
      BY <2>7, ChangedKeeps
    <3>. QED BY <1>4, <2>7, <3>1, <3>2, ChangedOK DEF Keeps
  <2>9. w.s = t /\ w.out = {}
    BY WentIs
  <2>. HIDE DEF w
  <2>10. ReplicaGoes(r, Alive, Commits, w)
    <3>1. Sends(r, Alive, Commits, x, w)
      BY <2>9 DEF Sends
    <3>. QED BY <1>5, <2>8, <2>9, <3>1, KeepsGoes
  <2>11. ReplicaGoes(r, Alive, Commits, z)
    BY <1>3, <1>5, <2>1, <2>10, CommitGoes
  <2>. HIDE DEF z
  <2>. QED BY <2>1, <2>11, ReplicaStep
<1>. QED BY <1>1, <1>6, <1>7 DEF y, s

-----------------------------------------------------------------------------
(* The witnesses                                                              *)

LEMMA WitnessFineIs ==
  ASSUME CleanedHolds, NEW w \in Witnesses
  PROVE  /\ WitnessOK(witness[w]) /\ IsMember(witness[w])
         /\ DOMAIN witness[w] = MemberFields
         /\ witness[w].lastCommitted \in Nat /\ witness[w].lastOp \in Int
         /\ w \in Indices
BY HeldParts, MemberIs, MembersAre DEF IsMember, Core

LEMMA WitnessSays ==
  ASSUME CleanedHolds, NEW w \in Witnesses, NEW out,
         WitnessStep(w, Went(witness[w], out)),
         \A m \in out : MessageOK(m, Alive, Commits)
  PROVE  CleanedHolds'
<1>. DEFINE y == Went(witness[w], out)
<1>1. y.s = witness[w] /\ y.out = out /\ WitnessStep(w, y)
  BY WentIs
<1>2. Changed(witness[w], witness[w])
  BY WitnessFineIs, Unchanged
<1>. HIDE DEF y
<1>. QED BY <1>1, <1>2, WitnessChanges

LEMMA WitnessAsks ==
  ASSUME CleanedHolds, NEW w \in Witnesses,
         WitnessStep(w, Went(witness[w], RequestStateTransfer(w, witness[w])))
  PROVE  CleanedHolds'
BY WitnessFineIs, NoteFine, WitnessSays

LEMMA WitnessAppendedFine ==
  ASSUME NEW s, IsMember(s), NEW m, m.opnum \in Int
  PROVE  Changed(s, WitnessAppended(s, m))
<1>. DEFINE new == Opnums(s.lastOp + 1, m.opnum)
            more == [i \in DOMAIN new |->
                       Entry(m.view, new[i], m.requests[new[i] - m.batchStart + 1])]
            fs == s.log.entries \o more
            log == [s.log EXCEPT !.entries = fs]
            t == [s EXCEPT !.lastOp = m.opnum, !.log = log]
<1>1. WitnessAppended(s, m) = t
  BY DEF WitnessAppended
<1>2. IsSeq(more)
  <2>1. new \in Seq(Int)
    <3>1. s.lastOp + 1 \in Int
      BY DEF IsMember, Core
    <3>. QED BY <3>1, OpnumsAre
  <2>. DEFINE n == Len(new)
              S == {more[i] : i \in 1 .. n}
  <2>2. n \in Nat /\ DOMAIN new = 1 .. n
    BY <2>1, LenProperties
  <2>3. DOMAIN more = 1 .. n /\ more = [i \in DOMAIN more |-> more[i]]
    <3>. HIDE DEF n, new
    <3>. QED BY <2>2
  <2>4. \A i \in 1 .. n : more[i] \in S
    OBVIOUS
  <2>. HIDE DEF n, S, new, more
  <2>5. more \in [1 .. n -> S]
    BY <2>3, <2>4
  <2>6. more \in Seq(S)
    BY <2>2, <2>5
  <2>. QED BY <2>6 DEF IsSeq
<1>3. IsLog(s.log)
  BY DEF IsMember, Core
<1>. HIDE DEF more
<1>4. IsSeq(fs)
  BY <1>2, <1>3, ConcatSeq DEF IsLog
<1>. HIDE DEF fs
<1>5. Kept(s.log, log)
  <2>1. DOMAIN log = DOMAIN s.log /\ log.start = s.log.start /\ log.entries = fs
    BY <1>3 DEF IsLog
  <2>. HIDE DEF log
  <2>. QED BY <1>3, <1>4, <2>1 DEF Kept, IsLog
<1>. HIDE DEF log
<1>6. Changed(s, t)
  BY <1>5, Relog
<1>. QED BY <1>1, <1>6

LEMMA WitnessPreparesInView ==
  ASSUME CleanedHolds, NEW w \in Witnesses, NEW m \in Received("PREPARE"),
         WitnessHandlePrepareInView(w, m)
  PROVE  CleanedHolds'
<1>. DEFINE x == Went(witness[w], {})
            s == WitnessCleanLog(witness[w], m.cleanUpTo)
            z == Went(s, {})
            ok == PrepareOK(w, s, m.view, m.opnum)
            ask == RequestStateTransfer(w, s)
            t == WitnessAppended(s, m)
<1>1. \/ WitnessStep(w, Went(s, {ok})) \/ WitnessStep(w, Went(s, ask))
      \/ WitnessStep(w, Went(t, {ok}))
  BY DEF WitnessHandlePrepareInView
<1>2. /\ m.opnum \in Int /\ m.cleanUpTo \in Nat
      /\ AllCommitted(m.cleanUpTo, Alive, Commits)
  BY HeldParts DEF Received, MessageOK
<1>3. /\ WitnessGoes(w, Alive, Commits, x) /\ Group(Alive, Commits) /\ w \in Indices
      /\ x.s = witness[w] /\ x.out = {}
  BY StartGoes, WentIs, MembersAre
<1>4. [Commits EXCEPT ![w] = x.s.lastCommitted] = Commits
  BY <1>3, HeldParts
<1>. HIDE DEF x
<1>5. WitnessGoes(w, Alive, Commits, z)
  BY <1>2, <1>3, <1>4, WitnessCleanGoes
<1>6. z.s = s /\ z.out = {}
  BY WentIs
<1>. HIDE DEF z, s
<1>7. WitnessOK(s) /\ s.lastCommitted \in Nat
  BY <1>5, <1>6 DEF WitnessGoes, WitnessOK, Core
<1>8. Changed(s, t) /\ Changed(s, s)
  BY <1>2, <1>7, WitnessAppendedFine, Unchanged, MemberIs
<1>9. MessageOK(ok, Alive, [Commits EXCEPT ![w] = z.s.lastCommitted])
  BY <1>2, <1>3, <1>6, <1>7, PrepareOKFine
<1>10. \A n \in ask : MessageOK(n, Alive, [Commits EXCEPT ![w] = z.s.lastCommitted])
  BY <1>7, NoteFine
<1>. HIDE DEF t, ok, ask
<1>11. ASSUME NEW v, NEW out, WitnessStep(w, Went(v, out)), Changed(s, v),
              out \in {{ok}, ask}
       PROVE  CleanedHolds'
  <2>. DEFINE y == Went(v, out)
  <2>1. y.s = v /\ y.out = out /\ WitnessStep(w, y)
    BY <1>11, WentIs
  <2>. HIDE DEF y
  <2>2. Sends(w, Alive, Commits, z, y)
    BY <1>9, <1>10, <1>11, <2>1 DEF Sends
  <2>3. WitnessGoes(w, Alive, Commits, y)
    BY <1>5, <1>6, <1>11, <2>1, <2>2, ChangedGoes
  <2>. QED BY <2>1, <2>3, WitnessStepHolds
<1>12. CASE WitnessStep(w, Went(s, {ok}))
  BY <1>8, <1>11, <1>12
<1>13. CASE WitnessStep(w, Went(s, ask))
  BY <1>8, <1>11, <1>13
<1>14. CASE WitnessStep(w, Went(t, {ok}))
  BY <1>8, <1>11, <1>14
<1>. QED BY <1>1, <1>12, <1>13, <1>14

LEMMA WitnessPrepares ==
  ASSUME CleanedHolds, NEW w \in Witnesses, WitnessHandlePrepare(w)
  PROVE  CleanedHolds'
<1>1. \/ WitnessStep(w, Went(witness[w], RequestStateTransfer(w, witness[w])))
      \/ \E m \in Received("PREPARE") : WitnessHandlePrepareInView(w, m)
  BY DEF WitnessHandlePrepare
<1>. QED BY <1>1, WitnessAsks, WitnessPreparesInView

(* Committing is noted, never taken back.                                     *)
LEMMA WitnessCommitGoes ==
  ASSUME NEW U, NEW commits, Group(U, commits), NEW w \in Indices, NEW x,
         WitnessGoes(w, U, commits, x), NEW upto \in Int
  PROVE  WitnessGoes(w, U, commits, Went(WitnessCommitUpTo(x.s, upto), x.out))
<1>. DEFINE k == IF upto > x.s.lastCommitted THEN upto ELSE x.s.lastCommitted
            t == [x.s EXCEPT !.lastCommitted = k]
            y == Went(t, x.out)
            old == [commits EXCEPT ![w] = x.s.lastCommitted]
            new == [commits EXCEPT ![w] = k]
<1>1. /\ WitnessOK(x.s) /\ commits[w] <= x.s.lastCommitted
      /\ AllCommitted(x.s.cleanUpTo, U, old)
      /\ \A m \in x.out : MessageOK(m, U, old)
  BY DEF WitnessGoes, Goes
<1>2. x.s.lastCommitted \in Nat /\ x.s.cleanUpTo \in Int /\ commits[w] \in Nat
  BY <1>1 DEF WitnessOK, Core, Group
<1>3. k \in Nat /\ x.s.lastCommitted <= k /\ commits[w] <= k
  BY <1>1, <1>2
<1>4. WitnessCommitUpTo(x.s, upto) = t
  BY DEF WitnessCommitUpTo
<1>. HIDE DEF k
<1>5. Grows(U, old, U, new)
  BY <1>2, <1>3, GoesGrow
<1>6. /\ DOMAIN t = DOMAIN x.s /\ t.log = x.s.log /\ t.lastOp = x.s.lastOp
      /\ t.lastCommitted = k /\ t.cleanUpTo = x.s.cleanUpTo
      /\ t.startViewChanges = x.s.startViewChanges
      /\ t.recoveryResponses = x.s.recoveryResponses
  BY <1>1 DEF WitnessOK, MemberFields
<1>7. y.s = t /\ y.out = x.out
  BY WentIs
<1>. HIDE DEF t, y, old
<1>8. WitnessOK(t)
  BY <1>1, <1>3, <1>6 DEF WitnessOK, Core
<1>9. AllCommitted(t.cleanUpTo, U, new) /\ \A m \in x.out : MessageOK(m, U, new)
  <2>. HIDE DEF new
  <2>. QED BY <1>1, <1>2, <1>5, <1>6, AllCommittedStays, MessageStays
<1>10. WitnessGoes(w, U, commits, y)
  BY <1>3, <1>6, <1>7, <1>8, <1>9 DEF WitnessGoes, Goes
<1>. QED BY <1>4, <1>10 DEF y

LEMMA WitnessCommits ==
  ASSUME CleanedHolds, NEW w \in Witnesses, WitnessHandleCommit(w)
  PROVE  CleanedHolds'
<1>. DEFINE x == Went(witness[w], {})
            y(m) == Went(WitnessCommitUpTo(x.s, m.opnum), x.out)
<1>1. x.s = witness[w] /\ x.out = {}
  BY WentIs
<1>2. \/ WitnessStep(w, Went(witness[w], RequestStateTransfer(w, witness[w])))
      \/ \E m \in Received("COMMIT") : WitnessStep(w, y(m))
  BY <1>1 DEF WitnessHandleCommit
<1>3. \A m \in Received("COMMIT") : m.opnum \in Int
  BY HeldParts DEF Received, MessageOK
<1>4. WitnessGoes(w, Alive, Commits, x) /\ Group(Alive, Commits) /\ w \in Indices
  BY StartGoes, MembersAre
<1>. HIDE DEF x
<1>5. ASSUME NEW m \in Received("COMMIT"), WitnessStep(w, y(m))
      PROVE  CleanedHolds'
  <2>1. WitnessGoes(w, Alive, Commits, y(m))
    BY <1>3, <1>4, WitnessCommitGoes
  <2>. HIDE DEF y
  <2>. QED BY <1>5, <2>1, WitnessStepHolds
<1>. QED BY <1>2, <1>5, WitnessAsks

LEMMA WitnessTransferRequests ==
  ASSUME CleanedHolds, LogsInOrder, NEW w \in Witnesses,
         WitnessHandleRequestStateTransfer(w)
  PROVE  CleanedHolds'
<1>. DEFINE s == witness[w]
<1>1. PICK m \in Received("REQUESTSTATETRANSFER") :
        WitnessStep(w, Went(s, IF m.view > s.view THEN RequestStateTransfer(w, s)
                               ELSE {StateTransfer(s, m.opnum, m.src)}))
  BY DEF WitnessHandleRequestStateTransfer
<1>2. m.opnum \in Int
  BY HeldParts DEF Received, MessageOK
<1>3. Core(s) /\ InOrder(s.log)
  BY WitnessFineIs, MembersAre DEF IsMember, LogsInOrder
<1>4. MessageOK(StateTransfer(s, m.opnum, m.src), Alive, Commits)
  <2>. HIDE DEF s
  <2>. QED BY <1>2, <1>3, LogMessageFine
<1>5. \A n \in {StateTransfer(s, m.opnum, m.src)} : MessageOK(n, Alive, Commits)
  BY <1>4
<1>. QED BY <1>1, <1>5, WitnessAsks, WitnessSays

LEMMA WitnessEnterViewChanged ==
  ASSUME NEW s, WitnessOK(s), NEW view
  PROVE  Changed(s, WitnessEnterView(s, view))
<1>. DEFINE t == WitnessEnterView(s, view)
<1>1. /\ DOMAIN t = DOMAIN s /\ t.log = s.log /\ t.lastOp = s.lastOp
      /\ t.lastCommitted = s.lastCommitted /\ t.cleanUpTo = s.cleanUpTo
      /\ t.startViewChanges = {} /\ t.recoveryResponses = {}
  BY DEF WitnessEnterView, WitnessOK, MemberFields
<1>. HIDE DEF t
<1>2. IsLog(s.log) /\ s.lastOp \in Int /\ DOMAIN s # ReplicaFields
  BY MemberIs DEF WitnessOK, Core
<1>3. Changed(s, t)
  BY <1>1, <1>2 DEF Changed
<1>. QED BY <1>3 DEF t

(* What a changed state of a witness notes and acknowledges.                 *)
LEMMA WitnessAdoptGoes ==
  ASSUME CleanedHolds, NEW w \in Witnesses, NEW t, Keeps(witness[w], t), WitnessOK(t),
         NEW upto \in Int, NEW old \in Int
  PROVE  LET u == WitnessCommitUpTo(t, upto) IN
         /\ WitnessGoes(w, Alive, Commits, Went(u, {}))
         /\ WitnessGoes(w, Alive, Commits, WitnessSendPrepareOKs(w, u, old))
<1>. DEFINE x == Went(witness[w], {})
            y == Went(t, {})
            u == WitnessCommitUpTo(y.s, upto)
            z == Went(u, y.out)
            sent == {PrepareOK(w, u, u.view, k) :
                       k \in Larger(old, u.lastCommitted + 1) .. u.lastOp}
            v == Went(u, sent)
<1>1. /\ WitnessGoes(w, Alive, Commits, x) /\ Group(Alive, Commits) /\ w \in Indices
      /\ x.s = witness[w] /\ y.s = t /\ y.out = {} /\ z.s = u /\ z.out = y.out
      /\ v.s = u /\ v.out = sent
  BY StartGoes, WentIs, MembersAre
<1>. HIDE DEF x, y
<1>2. WitnessGoes(w, Alive, Commits, y)
  <2>1. Sends(w, Alive, Commits, x, y)
    BY <1>1 DEF Sends
  <2>. QED BY <1>1, <2>1, KeepsGoes
<1>3. WitnessGoes(w, Alive, Commits, z)
  BY <1>1, <1>2, WitnessCommitGoes
<1>. HIDE DEF u, z
<1>4. WitnessOK(u) /\ u.lastCommitted \in Nat /\ Changed(u, u)
  BY <1>1, <1>3, Unchanged, MemberIs DEF WitnessGoes, WitnessOK, Core
<1>5. \A m \in sent : MessageOK(m, Alive, [Commits EXCEPT ![w] = u.lastCommitted])
  <2>. SUFFICES ASSUME NEW k \in Larger(old, u.lastCommitted + 1) .. u.lastOp
                PROVE  MessageOK(PrepareOK(w, u, u.view, k), Alive,
                                 [Commits EXCEPT ![w] = u.lastCommitted])
    OBVIOUS
  <2>1. k \in Int
    OBVIOUS
  <2>. QED BY <1>1, <1>4, <2>1, PrepareOKFine
<1>. HIDE DEF sent, v
<1>6. WitnessGoes(w, Alive, Commits, v)
  <2>1. Sends(w, Alive, Commits, z, v)
    BY <1>1, <1>5 DEF Sends
  <2>. QED BY <1>1, <1>3, <1>4, <2>1, ChangedGoes
<1>7. /\ Went(WitnessCommitUpTo(t, upto), {}) = z
      /\ WitnessSendPrepareOKs(w, WitnessCommitUpTo(t, upto), old) = v
  BY <1>1 DEF z, v, sent, u, WitnessSendPrepareOKs
<1>. QED BY <1>3, <1>6, <1>7

LEMMA WitnessTransfers ==
  ASSUME CleanedHolds, NEW w \in Witnesses, WitnessHandleStateTransfer(w)
  PROVE  CleanedHolds'
<1>. DEFINE s == witness[w]
<1>1. PICK m \in Received("STATETRANSFER") :
        LET y == FoldLeft(WitnessTransferred, [s |-> s, old |-> s.lastOp], m.entries)
            t == IF m.view > s.view THEN WitnessEnterView(y.s, m.view) ELSE y.s
        IN  WitnessStep(w, WitnessSendPrepareOKs(w, WitnessCommitUpTo(t, m.opnum),
                                                 y.old))
  BY DEF WitnessHandleStateTransfer
<1>. DEFINE y == FoldLeft(Transferred, [s |-> s, old |-> s.lastOp], m.entries)
            v == WitnessEnterView(y.s, m.view)
            t == IF m.view > s.view THEN v ELSE y.s
            z == WitnessSendPrepareOKs(w, WitnessCommitUpTo(t, m.opnum), y.old)
<1>2. m.opnum \in Int /\ IsEntries(m.entries)
  BY HeldParts DEF Received, MessageOK
<1>3. WitnessOK(s) /\ IsMember(s) /\ s.lastOp \in Int
  BY WitnessFineIs
<1>4. WitnessStep(w, z)
  <2>1. FoldLeft(WitnessTransferred, [s |-> s, old |-> s.lastOp], m.entries) = y
    BY DEF WitnessTransferred, Transferred, FoldLeft, MapThenFoldSet
  <2>. QED BY <1>1, <2>1
<1>. HIDE DEF s
<1>5. Changed(s, y.s) /\ y.old \in Int
  BY <1>2, <1>3, TransferredFine
<1>. HIDE DEF y
<1>6. WitnessOK(y.s)
  BY <1>3, <1>5, ChangedOK
<1>7. Changed(y.s, v)
  BY <1>6, WitnessEnterViewChanged
<1>. HIDE DEF v
<1>8. Changed(s, t)
  BY <1>5, <1>7, ChangedTwice
<1>. HIDE DEF t
<1>9. WitnessOK(t) /\ Keeps(s, t)
  BY <1>3, <1>8, ChangedOK, ChangedKeeps
<1>10. WitnessGoes(w, Alive, Commits, z)
  BY <1>2, <1>5, <1>9, WitnessAdoptGoes DEF s
<1>. HIDE DEF z
<1>. QED BY <1>4, <1>10, WitnessStepHolds

LEMMA WitnessStartViewChangeFine ==
  ASSUME NEW w, NEW s, WitnessOK(s), NEW view
  PROVE  LET x == WitnessStartViewChange(w, s, view) IN
         /\ Changed(s, x.s) /\ x.s.log = s.log
         /\ \A U, new : \A m \in x.out : MessageOK(m, U, new)
<1>. DEFINE t == [s EXCEPT !.view = view, !.status = "VIEW_CHANGE",
                           !.startViewChanges = {}]
            out == {StartViewChangeMessage(w, s, view)}
            x == WitnessStartViewChange(w, s, view)
<1>1. x.s = t /\ x.out = out
  BY WentIs DEF WitnessStartViewChange
<1>2. \A U, new : \A m \in out : MessageOK(m, U, new)
  BY NoteFine DEF WitnessOK, Core
<1>3. /\ DOMAIN t = DOMAIN s /\ t.log = s.log /\ t.lastOp = s.lastOp
      /\ t.lastCommitted = s.lastCommitted /\ t.cleanUpTo = s.cleanUpTo
      /\ t.startViewChanges = {} /\ t.recoveryResponses = s.recoveryResponses
  BY DEF WitnessOK, MemberFields
<1>. HIDE DEF t, out, x
<1>4. IsLog(s.log) /\ s.lastOp \in Int /\ DOMAIN s # ReplicaFields
  BY MemberIs DEF WitnessOK, Core
<1>5. Changed(s, t)
  BY <1>3, <1>4 DEF Changed
<1>. QED BY <1>1, <1>2, <1>3, <1>5 DEF x

LEMMA WitnessJoinedFine ==
  ASSUME NEW w, NEW s, WitnessOK(s), NEW view
  PROVE  LET x == WitnessJoined(w, s, view) IN
         /\ Changed(s, x.s) /\ x.s.log = s.log
         /\ \A U, new : \A m \in x.out : MessageOK(m, U, new)
<1>1. Changed(s, s)
  BY MemberIs, Unchanged
<1>2. CASE view > s.view
  BY <1>2, WitnessStartViewChangeFine DEF WitnessJoined
<1>3. CASE ~(view > s.view)
  BY <1>1, <1>3, WentIs DEF WitnessJoined
<1>. QED BY <1>2, <1>3

LEMMA WitnessViewChangeTimeouts ==
  ASSUME CleanedHolds, NEW w \in Witnesses, WitnessViewChangeTimeout(w)
  PROVE  CleanedHolds'
<1>. DEFINE x == WitnessStartViewChange(w, witness[w], NextView(witness[w].view))
<1>1. WitnessStep(w, x)
  BY DEF WitnessViewChangeTimeout
<1>2. Changed(witness[w], x.s) /\ \A m \in x.out : MessageOK(m, Alive, Commits)
  BY WitnessFineIs, WitnessStartViewChangeFine
<1>. HIDE DEF x
<1>. QED BY <1>1, <1>2, WitnessChanges

LEMMA WitnessStartViewChanges ==
  ASSUME CleanedHolds, LogsInOrder, NEW w \in Witnesses,
         WitnessHandleStartViewChange(w)
  PROVE  CleanedHolds'
<1>1. PICK m \in Received("STARTVIEWCHANGE") :
        LET x == WitnessJoined(w, witness[w], m.view)
            s == [x.s EXCEPT !.startViewChanges = With(@, m)]
        IN  \/ WitnessStep(w, Went(s, x.out \cup {DoViewChange(w, s, 0)}))
            \/ WitnessStep(w, Went(s, x.out))
  BY DEF WitnessHandleStartViewChange
<1>2. m.lastCommitted \in Nat
  BY HeldParts DEF Received, MessageOK
<1>. DEFINE x      == WitnessJoined(w, witness[w], m.view)
            quorum == With(x.s.startViewChanges, m)
            s      == [x.s EXCEPT !.startViewChanges = quorum]
            change == DoViewChange(w, s, 0)
            y == Went(s, x.out)
            z == Went(s, x.out \cup {change})
<1>3. WitnessOK(witness[w]) /\ InOrder(witness[w].log)
  BY WitnessFineIs, MembersAre DEF LogsInOrder
<1>4. /\ Changed(witness[w], x.s) /\ x.s.log = witness[w].log
      /\ \A n \in x.out : MessageOK(n, Alive, Commits)
  BY <1>3, WitnessJoinedFine
<1>5. /\ y.s = s /\ y.out = x.out /\ z.s = s /\ z.out = x.out \cup {change}
      /\ WitnessStep(w, y) \/ WitnessStep(w, z)
  BY <1>1, WentIs
<1>. HIDE DEF x, y, z
<1>6. WitnessOK(x.s)
  BY <1>3, <1>4, ChangedOK
<1>7. \A q \in quorum : q.lastCommitted \in Nat
  BY <1>2, <1>6, WithIs DEF WitnessOK, Core
<1>. HIDE DEF quorum
<1>8. /\ DOMAIN s = MemberFields /\ s.startViewChanges = quorum
      /\ s.log = x.s.log /\ s.lastOp = x.s.lastOp /\ s.cleanUpTo = x.s.cleanUpTo
      /\ s.lastCommitted = x.s.lastCommitted
      /\ s.recoveryResponses = x.s.recoveryResponses
  BY <1>6 DEF WitnessOK, MemberFields
<1>. HIDE DEF s
<1>9. WitnessOK(s)
  BY <1>6, <1>7, <1>8 DEF WitnessOK, Core
<1>10. Keeps(witness[w], s)
  <2>1. DOMAIN witness[w] # ReplicaFields
    BY WitnessFineIs, MemberIs
  <2>. QED BY <1>4, <1>8, <2>1 DEF Changed, Keeps
<1>11. MessageOK(change, Alive, Commits)
  BY <1>3, <1>4, <1>8, <1>9, LogMessageFine DEF WitnessOK
<1>. HIDE DEF change
<1>12. CASE WitnessStep(w, y)
  BY <1>4, <1>5, <1>9, <1>10, <1>12, WitnessKeeps
<1>13. CASE WitnessStep(w, z)
  BY <1>4, <1>5, <1>9, <1>10, <1>11, <1>13, WitnessKeeps
<1>. QED BY <1>5, <1>12, <1>13

(* The log of a new view, or of a recovery, in place of the witness's own.   *)
LEMMA WitnessRelog ==
  ASSUME NEW s, WitnessOK(s), NEW view, NEW log, Kept(s.log, log), NEW op \in Int
  PROVE  Changed(s, [WitnessEnterView(s, view) EXCEPT !.log = log, !.lastOp = op])
<1>. DEFINE v == WitnessEnterView(s, view)
            t == [v EXCEPT !.log = log, !.lastOp = op]
<1>1. Changed(s, v) /\ v.log = s.log
  BY WitnessEnterViewChanged DEF WitnessEnterView, WitnessOK, MemberFields
<1>. HIDE DEF v
<1>2. Changed(v, t)
  BY <1>1, ChangedOK, MemberIs, Relog
<1>. HIDE DEF t
<1>3. Changed(s, t)
  BY <1>1, <1>2, ChangedTwice
<1>. QED BY <1>3 DEF t, v

LEMMA WitnessStartViews ==
  ASSUME CleanedHolds, NEW w \in Witnesses, WitnessHandleStartView(w)
  PROVE  CleanedHolds'
<1>. DEFINE s == witness[w]
<1>1. PICK m \in Received("STARTVIEW") :
        LET entered == [WitnessEnterView(s, m.view) EXCEPT
                          !.log = Replaced(s.log, m), !.lastOp = m.lastOp]
        IN  WitnessStep(w, WitnessSendPrepareOKs(
                             w, WitnessCommitUpTo(entered, m.lastCommitted),
                             s.lastOp))
  BY DEF WitnessHandleStartView
<1>. DEFINE log == Replaced(s.log, m)
            entered == [WitnessEnterView(s, m.view) EXCEPT !.log = log,
                                                           !.lastOp = m.lastOp]
            z == WitnessSendPrepareOKs(w, WitnessCommitUpTo(entered, m.lastCommitted),
                                       s.lastOp)
<1>2. Brings(m) /\ m.lastOp \in Int /\ m.lastCommitted \in Int
  <2>1. Brings(m)
    BY HeldParts DEF Received, MessageOK
  <2>. QED BY <2>1 DEF Brings
<1>3. WitnessOK(s) /\ s.lastOp \in Int
  BY WitnessFineIs
<1>4. WitnessStep(w, z)
  BY <1>1
<1>. HIDE DEF s
<1>5. Kept(s.log, log)
  BY <1>2, <1>3, ReplacedKept DEF WitnessOK, Core
<1>. HIDE DEF log
<1>6. Changed(s, entered)
  BY <1>2, <1>3, <1>5, WitnessRelog
<1>. HIDE DEF entered
<1>7. WitnessOK(entered) /\ Keeps(s, entered)
  BY <1>3, <1>6, ChangedOK, ChangedKeeps
<1>8. WitnessGoes(w, Alive, Commits, z)
  BY <1>2, <1>3, <1>7, WitnessAdoptGoes DEF s
<1>. HIDE DEF z
<1>. QED BY <1>4, <1>8, WitnessStepHolds

LEMMA WitnessRecoveries ==
  ASSUME CleanedHolds, NEW w \in Witnesses, WitnessHandleRecovery(w)
  PROVE  CleanedHolds'
<1>. DEFINE n(m) == [type |-> "RECOVERYRESPONSE", view |-> witness[w].view, src |-> w,
                     to |-> m.src, nonce |-> m.nonce, lastOp |-> 0,
                     lastCommitted |-> 0, entries |-> << >>]
<1>1. PICK m \in Received("RECOVERY") : WitnessStep(w, Went(witness[w], {n(m)}))
  BY DEF WitnessHandleRecovery
<1>2. MessageOK(n(m), Alive, Commits)
  <2>1. IsEntries(<< >>)
    BY EmptyIsSeq DEF IsEntries
  <2>. QED BY <2>1 DEF MessageOK, Brings
<1>. HIDE DEF n
<1>. QED BY <1>1, <1>2, WitnessSays

LEMMA WitnessRecoveryResponses ==
  ASSUME CleanedHolds, NEW w \in Witnesses, WitnessHandleRecoveryResponse(w)
  PROVE  CleanedHolds'
<1>1. PICK m \in Received("RECOVERYRESPONSE") :
        LET s == [witness[w] EXCEPT !.recoveryResponses = With(@, m)] IN
        \/ WitnessStep(w, Went(s, {}))
        \/ \E d \in FromLeader(s.recoveryResponses) :
             LET t == [WitnessEnterView(s, d.view) EXCEPT
                         !.log = Install(@, d.entries), !.lastOp = d.lastOp]
             IN  WitnessStep(w, Went(WitnessCommitUpTo(t, d.lastCommitted), {}))
  BY DEF WitnessHandleRecoveryResponse
<1>2. Brings(m)
  BY HeldParts DEF Received, MessageOK
<1>. DEFINE s == [witness[w] EXCEPT !.recoveryResponses = With(@, m)]
            y == Went(s, {})
<1>3. WitnessOK(witness[w]) /\ IsMember(witness[w]) /\ w \in Indices
      /\ DOMAIN witness[w] # ReplicaFields
  BY WitnessFineIs, MemberIs
<1>4. WitnessOK(s) /\ Keeps(witness[w], s) /\ \A d \in FromLeader(s.recoveryResponses) : Brings(d)
  BY <1>2, <1>3, ResponsesFine
<1>5. y.s = s /\ y.out = {}
  BY WentIs
<1>. HIDE DEF s
<1>6. CASE WitnessStep(w, y)
  <2>. HIDE DEF y
  <2>. QED BY <1>4, <1>5, <1>6, WitnessKeeps
<1>7. ASSUME NEW d \in FromLeader(s.recoveryResponses),
             LET t == [WitnessEnterView(s, d.view) EXCEPT
                         !.log = Install(@, d.entries), !.lastOp = d.lastOp]
             IN  WitnessStep(w, Went(WitnessCommitUpTo(t, d.lastCommitted), {}))
      PROVE  CleanedHolds'
  <2>. DEFINE v == WitnessEnterView(s, d.view)
              log == Install(s.log, d.entries)
              t == [v EXCEPT !.log = log, !.lastOp = d.lastOp]
              z == Went(WitnessCommitUpTo(t, d.lastCommitted), {})
  <2>1. d.lastOp \in Int /\ d.lastCommitted \in Int /\ IsEntries(d.entries)
    BY <1>4 DEF Brings
  <2>2. WitnessStep(w, z)
    <3>1. v.log = s.log /\ "log" \in DOMAIN v
      BY <1>4 DEF WitnessEnterView, WitnessOK, MemberFields
    <3>2. [v EXCEPT !.log = Install(@, d.entries), !.lastOp = d.lastOp] = t
      <4>. HIDE DEF v
      <4>. QED BY <3>1
    <3>. QED BY <1>7, <3>2
  <2>3. Kept(s.log, log)
    BY <1>4, <2>1, InstallKept DEF WitnessOK, Core
  <2>. HIDE DEF log
  <2>4. Changed(s, t)
    BY <1>4, <2>1, <2>3, WitnessRelog
  <2>. HIDE DEF t
  <2>5. WitnessOK(t) /\ Keeps(witness[w], t)
    BY <1>3, <1>4, <2>4, ChangedOK, ChangedKeeps DEF Keeps
  <2>6. WitnessGoes(w, Alive, Commits, z)
    BY <1>3, <2>1, <2>5, WitnessAdoptGoes
  <2>. HIDE DEF z
  <2>. QED BY <2>2, <2>6, WitnessStepHolds
<1>. QED BY <1>1, <1>6, <1>7 DEF y, s

-----------------------------------------------------------------------------
(* The whole                                                                  *)

LEMMA InitHolds == Init => CleanedHolds
<1>. SUFFICES ASSUME Init PROVE CleanedHolds
  OBVIOUS
<1>1. /\ DOMAIN replica = Replicas /\ DOMAIN witness = Witnesses /\ msgs = {}
      /\ restarts \in [Indices -> Nat]
      /\ \A r \in Replicas : replica[r] = InitialReplica
      /\ \A w \in Witnesses : witness[w] = InitialMember
  BY DEF Init
<1>2. ASSUME NEW r \in Replicas
      PROVE  /\ ReplicaOK(replica[r]) /\ replica[r].cleanUpTo = 0
             /\ replica[r].lastCommitted = 0
             /\ \A j \in Indices : replica[r].lastCommitteds[j] = 0
  BY <1>1, InitialReplicaOK
<1>3. ASSUME NEW w \in Witnesses
      PROVE  /\ WitnessOK(witness[w]) /\ witness[w].cleanUpTo = 0
             /\ witness[w].lastCommitted = 0
  BY <1>1, InitialMemberOK
<1>4. Alive \subseteq Indices /\ Commits \in [Indices -> Nat]
  <2>1. \A i \in Indices : Member(i).lastCommitted \in Nat
    BY <1>2, <1>3, MembersAre
  <2>. QED BY <2>1 DEF Alive, Commits
<1>5. Holds(Alive, Commits)
  BY <1>1, <1>2, <1>3, <1>4, NoneCommitted DEF Holds
<1>. QED BY <1>1, <1>5 DEF CleanedHolds

(* A client's request, which is not in msgs, and a stuttering step.           *)
LEMMA OthersUnchanged ==
  ASSUME CleanedHolds, UNCHANGED <<replica, witness, restarts, msgs>>
  PROVE  CleanedHolds'
<1>1. \A i \in Indices : Member(i)' = Member(i)
  BY DEF Member
<1>2. Alive' = Alive /\ Commits' = Commits
  BY <1>1 DEF Alive, Commits
<1>. QED BY <1>2 DEF CleanedHolds, Holds

LEMMA ReplicaNextHolds ==
  ASSUME CleanedHolds, LogsInOrder, LogsInOrder', NEW r \in Replicas,
         ReplicaNext(r)
  PROVE  CleanedHolds'
<1>1. CASE HandleRequest(r)
  BY <1>1, Requests
<1>2. CASE CloseBatchTimeout(r) \/ SendNullCommit(r)
  BY <1>2, Timeouts
<1>3. CASE HandlePrepare(r)
  BY <1>3, Prepares
<1>4. CASE HandlePrepareOK(r)
  BY <1>4, PrepareOKs
<1>5. CASE HandleCommit(r)
  BY <1>5, CommitsHeard
<1>6. CASE HandleRequestStateTransfer(r)
  BY <1>6, TransferRequests
<1>7. CASE HandleStateTransfer(r)
  BY <1>7, Transfers
<1>8. CASE ViewChangeTimeout(r)
  BY <1>8, ViewChangeTimeouts
<1>9. CASE HandleStartViewChange(r)
  BY <1>9, StartViewChanges
<1>10. CASE HandleDoViewChange(r)
  BY <1>10, DoViewChanges
<1>11. CASE HandleStartView(r)
  BY <1>11, StartViews
<1>12. CASE Restart(r)
  BY <1>12, ReplicaRestarts
<1>13. CASE HandleRecovery(r)
  BY <1>13, Recoveries
<1>14. CASE HandleRecoveryResponse(r)
  BY <1>14, RecoveryResponses
<1>. QED BY <1>1, <1>2, <1>3, <1>4, <1>5, <1>6, <1>7, <1>8, <1>9, <1>10, <1>11,
            <1>12, <1>13, <1>14 DEF ReplicaNext

LEMMA WitnessNextHolds ==
  ASSUME CleanedHolds, LogsInOrder, NEW w \in Witnesses, WitnessNext(w)
  PROVE  CleanedHolds'
<1>1. CASE WitnessHandlePrepare(w)
  BY <1>1, WitnessPrepares
<1>2. CASE WitnessHandleCommit(w)
  BY <1>2, WitnessCommits
<1>3. CASE WitnessHandleRequestStateTransfer(w)
  BY <1>3, WitnessTransferRequests
<1>4. CASE WitnessHandleStateTransfer(w)
  BY <1>4, WitnessTransfers
<1>5. CASE WitnessViewChangeTimeout(w)
  BY <1>5, WitnessViewChangeTimeouts
<1>6. CASE WitnessHandleStartViewChange(w)
  BY <1>6, WitnessStartViewChanges
<1>7. CASE WitnessHandleStartView(w)
  BY <1>7, WitnessStartViews
<1>8. CASE WitnessRestart(w)
  BY <1>8, WitnessRestarts
<1>9. CASE WitnessHandleRecovery(w)
  BY <1>9, WitnessRecoveries
<1>10. CASE WitnessHandleRecoveryResponse(w)
  BY <1>10, WitnessRecoveryResponses
<1>. QED BY <1>1, <1>2, <1>3, <1>4, <1>5, <1>6, <1>7, <1>8, <1>9, <1>10
         DEF WitnessNext

LEMMA NextHolds ==
  CleanedHolds /\ LogsInOrder /\ LogsInOrder' /\ [Next]_vars => CleanedHolds'
<1>. SUFFICES ASSUME CleanedHolds, LogsInOrder, LogsInOrder', [Next]_vars
              PROVE  CleanedHolds'
  OBVIOUS
<1>1. ASSUME NEW c \in Clients, Invoke(c) PROVE CleanedHolds'
  BY <1>1, OthersUnchanged DEF Invoke
<1>2. CASE UNCHANGED vars
  BY <1>2, OthersUnchanged DEF vars
<1>. QED BY <1>1, <1>2, ReplicaNextHolds, WitnessNextHolds DEF Next

(* The inductive invariant holds as long as the log's assertion does.        *)
THEOREM Invariance == Spec /\ []LogsInOrder => []CleanedHolds
BY InitHolds, NextHolds, PTL DEF Spec

(* What any member, a restarted one included, has cleaned out of its log,   *)
(* or may yet clean on being told to, every member that has never restarted *)
(* has committed, whatever views have come and gone                           *)
(* (GetLowestReplicaCommit, CleanLog, HandlePrepareOK, HandleDoViewChange).   *)
LEMMA CleanedFollows ==
  ASSUME CleanedHolds, NEW i \in Indices, NEW j \in Indices, restarts[j] = 0
  PROVE  /\ Member(i).log.start - 1 <= Member(j).lastCommitted
         /\ Member(i).cleanUpTo <= Member(j).lastCommitted
<1>1. Core(Member(i)) /\ AllCommitted(Member(i).cleanUpTo, Alive, Commits)
  BY HeldParts, MembersAre DEF ReplicaOK, WitnessOK
<1>2. j \in Alive /\ Commits[j] = Member(j).lastCommitted /\ Commits[j] \in Nat
  BY HeldParts, MembersAre DEF Alive
<1>3. Member(i).cleanUpTo <= Member(j).lastCommitted
  BY <1>1, <1>2 DEF AllCommitted
<1>4. /\ Member(i).log.start \in Nat /\ Member(i).cleanUpTo \in Nat
      /\ Member(i).log.start - 1 <= Member(i).cleanUpTo
  BY <1>1 DEF Core, IsLog
<1>. QED BY <1>2, <1>3, <1>4

(* Nobody that has never restarted asks for what has been cleaned.           *)
THEOREM CleanedForAll ==
  Spec /\ []LogsInOrder =>
    [](\A i, j \in Indices : restarts[j] = 0 =>
         Member(i).log.start - 1 <= Member(j).lastCommitted)
<1>1. CleanedHolds => (\A i, j \in Indices : restarts[j] = 0 =>
                         Member(i).log.start - 1 <= Member(j).lastCommitted)
  BY CleanedFollows
<1>. QED BY <1>1, Invariance, PTL

(* The property of the run, as long as nobody has restarted.                 *)
THEOREM NoneRestarted ==
  Spec /\ []LogsInOrder =>
    []((\A i \in Indices : restarts[i] = 0) => CleanedIsCommitted)
<1>1. CleanedHolds => ((\A i \in Indices : restarts[i] = 0) => CleanedIsCommitted)
  BY CleanedFollows DEF CleanedIsCommitted
<1>. QED BY <1>1, Invariance, PTL
=============================================================================
