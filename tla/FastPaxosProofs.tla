-------------------------- MODULE FastPaxosProofs --------------------------
(***************************************************************************)
(* Proofs about FastPaxos, for any number of replicas, clients and         *)
(* requests and every behaviour of the network.                            *)
(***************************************************************************)
EXTENDS FastPaxos, FiniteSetTheorems, SequenceTheorems, WellFoundedInduction, TLAPS

-----------------------------------------------------------------------------
(* Numbers and sets.                                                         *)

(* A non-empty set of naturals with an upper bound has a maximum, the one Max *)
(* chooses.                                                                 *)
LEMMA MaxOfBounded ==
  ASSUME NEW b \in Nat, NEW S, S \subseteq 0 .. b, S # {}
  PROVE  Max(S) \in S /\ \A x \in S : x <= Max(S)
<1> DEFINE T == {n \in Nat : \E x \in S : n = b - x}
<1>1. \A x \in S : x \in Nat /\ b - x \in T
  OBVIOUS
<1>2. T \subseteq Nat /\ T # {}
  BY <1>1
<1>3. \A u, t \in Nat : u < t => <<u, t>> \in OpToRel(<, Nat)
  BY DEF OpToRel
<1>4. \E t \in T : \A u \in T : <<u, t>> \notin OpToRel(<, Nat)
  <2> HIDE DEF T
  <2> QED BY <1>2, NatLessThanWellFounded, WFMin
<1>5. PICK t \in T : \A u \in T : ~(u < t)
  BY <1>2, <1>3, <1>4
<1>6. PICK y \in S : t = b - y
  OBVIOUS
<1>7. \A x \in S : x <= y
  BY <1>1, <1>5, <1>6
<1> QED BY <1>6, <1>7 DEF Max

(* The larger of two numbers.                                                *)
LEMMA LargerIsMax ==
  ASSUME NEW a \in Nat, NEW b \in Nat
  PROVE  /\ Larger(a, b) \in Nat /\ Larger(a, b) \in {a, b}
         /\ a <= Larger(a, b) /\ b <= Larger(a, b)
  BY DEF Larger

-----------------------------------------------------------------------------
(* The client table.                                                         *)

(* UpdateClientTable never goes back, covers every request it is given and    *)
(* leaves a stored reply only where it changes nothing.                     *)
LEMMA UpdateClientTableSound ==
  ASSUME NEW row \in [Clients -> ClientTableEntry],
         NEW reqs, reqs \subseteq Request,
         NEW new, new = UpdateClientTable(row, reqs)
  PROVE  /\ new \in [Clients -> ClientTableEntry]
         /\ \A c \in Clients : /\ row[c].lastReqId <= new[c].lastReqId
                               /\ new[c].replied => new[c] = row[c]
         /\ \A q \in reqs : q.reqid <= new[q.client].lastReqId
<1> DEFINE Newer(c) == {q.reqid : q \in {p \in reqs : /\ p.client = c
                                        /\ p.reqid > row[c].lastReqId}}
<1>1. ASSUME NEW c \in Clients
      PROVE  new[c] = IF Newer(c) = {} THEN row[c]
                      ELSE [lastReqId |-> Max(Newer(c)), replied |-> FALSE,
                            opnum |-> 0]
  BY DEF UpdateClientTable
<1>2. \A c \in Clients : Newer(c) \subseteq 0 .. MaxReqId
  BY FastPaxosAssumption DEF Request
<1>3. \A c \in Clients : \A q \in reqs :
        q.client = c /\ q.reqid > row[c].lastReqId => q.reqid \in Newer(c)
  OBVIOUS
<1>4. \A c \in Clients : \A x \in Newer(c) : x \in Nat /\ x > row[c].lastReqId
  BY <1>2
<1> DOMAIN new = Clients
  BY DEF UpdateClientTable
<1> HIDE DEF Newer
<1>5. ASSUME NEW c \in Clients, Newer(c) # {}
      PROVE  Max(Newer(c)) \in Newer(c) /\ \A x \in Newer(c) : x <= Max(Newer(c))
  BY <1>2, <1>5, MaxOfBounded, FastPaxosAssumption
<1>6. ASSUME NEW c \in Clients
      PROVE  /\ new[c] \in ClientTableEntry
             /\ row[c].lastReqId <= new[c].lastReqId
             /\ new[c].replied => new[c] = row[c]
  <2>0. row[c] \in ClientTableEntry /\ row[c].lastReqId \in Nat
    BY DEF ClientTableEntry
  <2>1. CASE Newer(c) = {}
    <3>1. new[c] = row[c]
      BY <2>1, <1>1
    <3> QED BY <2>0, <3>1
  <2>2. CASE Newer(c) # {}
    <3>1. new[c] = [lastReqId |-> Max(Newer(c)), replied |-> FALSE, opnum |-> 0]
      BY <2>2, <1>1
    <3>2. Max(Newer(c)) \in Nat /\ Max(Newer(c)) > row[c].lastReqId
      BY <2>2, <1>4, <1>5
    <3> QED BY <2>0, <3>1, <3>2 DEF ClientTableEntry
  <2> QED BY <2>1, <2>2
<1>7. ASSUME NEW q \in reqs PROVE q.reqid <= new[q.client].lastReqId
  <2>1. q.client \in Clients /\ q.reqid \in Nat
    BY DEF Request
  <2>2. CASE q.reqid <= row[q.client].lastReqId
    BY <2>1, <2>2, <1>6 DEF ClientTableEntry
  <2>3. CASE q.reqid > row[q.client].lastReqId
    BY <2>1, <2>3, <1>1, <1>3, <1>5
  <2> QED BY <2>1, <2>2, <2>3 DEF ClientTableEntry
<1>8. new \in [Clients -> ClientTableEntry]
  <2> new = [c \in Clients |-> new[c]]
    BY DEF UpdateClientTable
  <2> QED BY <1>6
<1> QED BY <1>6, <1>7, <1>8

(* Executing entries never takes a client's last request back, and a stored   *)
(* reply is an old one or that of an entry just executed.                   *)
LEMMA StoreRepliesSound ==
  ASSUME NEW row \in [Clients -> ClientTableEntry],
         NEW rlog \in Seq(Request), NEW lo \in Nat, NEW hi \in Nat,
         hi <= Len(rlog),
         NEW new, new = StoreReplies(row, rlog, lo, hi)
  PROVE  /\ new \in [Clients -> ClientTableEntry]
         /\ \A c \in Clients :
              /\ row[c].lastReqId <= new[c].lastReqId
              /\ \/ new[c] = row[c]
                 \/ /\ new[c].opnum \in lo + 1 .. hi
                    /\ rlog[new[c].opnum] =
                         [client |-> c, reqid |-> new[c].lastReqId]
<1> DEFINE Done(c) == {i \in lo + 1 .. hi : /\ rlog[i].client = c
                                           /\ rlog[i].reqid >= row[c].lastReqId}
           Newest(c) == {i \in Done(c) :
                           \A j \in Done(c) : rlog[j].reqid <= rlog[i].reqid}
           Ids(c) == {n \in Nat : \E i \in Done(c) : n = rlog[i].reqid}
<1>1. ASSUME NEW c \in Clients
      PROVE  new[c] = IF Done(c) = {} THEN row[c]
                      ELSE [lastReqId |-> rlog[Max(Newest(c))].reqid,
                            replied |-> TRUE, opnum |-> Max(Newest(c))]
  BY DEF StoreReplies
<1>2. \A i \in lo + 1 .. hi : /\ rlog[i] \in Request /\ i \in 0 .. hi
                              /\ rlog[i].reqid \in 0 .. MaxReqId
  <2> SUFFICES ASSUME NEW i \in lo + 1 .. hi
               PROVE  /\ rlog[i] \in Request /\ i \in 0 .. hi
                      /\ rlog[i].reqid \in 0 .. MaxReqId
    OBVIOUS
  <2>1. i \in 1 .. Len(rlog) /\ i \in 0 .. hi
    OBVIOUS
  <2>2. rlog[i] \in Request
    BY <2>1
  <2> QED BY <2>1, <2>2, FastPaxosAssumption DEF Request
<1>3. ASSUME NEW c \in Clients, Done(c) # {}
      PROVE  Max(Newest(c)) \in Newest(c)
  <2>1. Ids(c) \subseteq 0 .. MaxReqId /\ Ids(c) # {}
    BY <1>2, <1>3
  <2>2. PICK x \in Ids(c) : \A y \in Ids(c) : y <= x
    <3> HIDE DEF Ids
    <3> QED BY <2>1, MaxOfBounded, FastPaxosAssumption
  <2>3. PICK i \in Done(c) : x = rlog[i].reqid
    OBVIOUS
  <2>4. \A j \in Done(c) : rlog[j].reqid \in Ids(c)
    BY <1>2
  <2>5. i \in Newest(c)
    BY <2>2, <2>3, <2>4
  <2>6. Newest(c) \subseteq 0 .. hi /\ Newest(c) # {}
    BY <2>5, <1>2
  <2> HIDE DEF Newest
  <2> QED BY <2>6, MaxOfBounded
<1>4. ASSUME NEW c \in Clients, Done(c) # {}
      PROVE  /\ Max(Newest(c)) \in lo + 1 .. hi
             /\ rlog[Max(Newest(c))] =
                  [client |-> c, reqid |-> rlog[Max(Newest(c))].reqid]
             /\ rlog[Max(Newest(c))].reqid >= row[c].lastReqId
  BY <1>2, <1>3, <1>4 DEF Request
<1> HIDE DEF Done, Newest, Ids
<1>5. ASSUME NEW c \in Clients
      PROVE  /\ new[c] \in ClientTableEntry
             /\ row[c].lastReqId <= new[c].lastReqId
             /\ \/ new[c] = row[c]
                \/ /\ new[c].opnum \in lo + 1 .. hi
                   /\ rlog[new[c].opnum] =
                         [client |-> c, reqid |-> new[c].lastReqId]
  <2>0. row[c] \in ClientTableEntry /\ row[c].lastReqId \in Nat
    BY DEF ClientTableEntry
  <2>1. CASE Done(c) = {}
    <3>1. new[c] = row[c]
      BY <2>1, <1>1
    <3> QED BY <2>0, <3>1
  <2>2. CASE Done(c) # {}
    <3> DEFINE k == Max(Newest(c))
    <3>1. /\ k \in lo + 1 .. hi /\ rlog[k].reqid \in Nat
          /\ rlog[k] = [client |-> c, reqid |-> rlog[k].reqid]
          /\ rlog[k].reqid >= row[c].lastReqId
      BY <2>2, <1>2, <1>4
    <3>2. new[c] = [lastReqId |-> rlog[k].reqid, replied |-> TRUE, opnum |-> k]
      BY <2>2, <1>1
    <3> HIDE DEF k
    <3> QED BY <2>0, <3>1, <3>2 DEF ClientTableEntry
  <2> QED BY <2>1, <2>2
<1>6. new = [c \in Clients |-> new[c]]
  BY DEF StoreReplies
<1> QED BY <1>5, <1>6

-----------------------------------------------------------------------------
(* What every step preserves of the messages, quorums and tables there are.   *)

LEMMA MessageFields ==
  ASSUME NEW m \in Message
  PROVE  /\ m.type = "REQUEST" => m.dst \in Replicas /\ m.req \in Request
         /\ m.type = "REPLY" => m.req \in Request /\ m.opnum \in Nat
         /\ m.type \in {"PREPARE", "COMMIT"} =>
              m.dst \in Replicas /\ m.opnum \in Nat /\ m.req \in Request
         /\ m.type = "PREPAREOK" =>
              /\ m.src \in Replicas /\ m.opnum \in Nat /\ m.req \in Request
              /\ m.slowpath \in BOOLEAN
         /\ m.type = "REQUESTSTATETRANSFER" =>
              m.src \in Replicas /\ m.dst \in Replicas /\ m.opnum \in Nat
         /\ m.type = "STATETRANSFER" =>
              /\ m.dst \in Replicas /\ m.opnum \in Nat /\ m.first \in Nat
              /\ m.entries \in Seq(Request)
  BY DEF Message

(* The constructors make messages.                                           *)
LEMMA MessagesMade ==
  ASSUME NEW r \in Replicas, NEW s \in Replicas, NEW k \in Nat,
         NEW req \in Request, NEW slow \in BOOLEAN
  PROVE  /\ RequestTo(r, req) \in Message /\ Reply(req, k) \in Message
         /\ Prepare(r, k, req) \in Message /\ Commit(r, k, req) \in Message
         /\ PrepareOK(r, k, req, slow) \in Message
         /\ TransferRequest(r, s, k) \in Message
  BY DEF Message, RequestTo, Reply, Prepare, Commit, PrepareOK, TransferRequest

(* The log of the leader only grows, no counter goes back, and an entry        *)
(* changes only while it comes under lastSlowPath.                          *)
Growth ==
  /\ \A k \in DOMAIN log[Leader] : /\ k \in DOMAIN log'[Leader]
                                   /\ log'[Leader][k] = log[Leader][k]
  /\ \A r \in Replicas :
       /\ lastCommitted[r] <= lastCommitted'[r]
       /\ lastSlowPath[r] <= lastSlowPath'[r]
       /\ lastFastPath[r] <= lastFastPath'[r]
       /\ \A k \in 1 .. lastFastPath[r] :
            k > lastSlowPath'[r] => log'[r][k] = log[r][k]

LEMMA Stability ==
  ASSUME TypeOK, TypeOK', PathsOrdered, PathsOrdered', LeaderAhead', Growth
  PROVE  /\ \A k, req : Ordered(k, req) => Ordered(k, req)'
         /\ \A k, req : ExecutedAt(k, req) => ExecutedAt(k, req)'
         /\ \A r \in Replicas : \A k : Holds(r, k) => Holds(r, k)'
         /\ \A m \in Message : MessageOK(m) => MessageOK(m)'
<1> Leader \in Replicas /\ Followers \subseteq Replicas
  BY DEF Replicas
<1>1. \A k, req : Ordered(k, req) => Ordered(k, req)'
  BY DEF Ordered, Growth
<1>2. \A r \in Replicas :
        /\ lastCommitted[r] \in Nat /\ lastCommitted'[r] \in Nat
        /\ lastSlowPath[r] \in Nat /\ lastSlowPath'[r] \in Nat
        /\ lastFastPath[r] \in Nat /\ lastFastPath'[r] \in Nat
        /\ DOMAIN log[r] = 1 .. lastFastPath[r]
        /\ DOMAIN log'[r] = 1 .. lastFastPath'[r]
  BY DEF TypeOK, PathsOrdered
<1>3. \A k, req : ExecutedAt(k, req) => ExecutedAt(k, req)'
  BY <1>1, <1>2 DEF ExecutedAt, Growth
<1>4. ASSUME NEW r \in Replicas, NEW k, Holds(r, k) PROVE Holds(r, k)'
  <2>1. k \in 1 .. lastFastPath[r] /\ k \in DOMAIN log[Leader]
    BY <1>2, <1>4 DEF Holds
  <2>2. CASE k <= lastSlowPath'[r]
    BY <2>1, <2>2, <1>2 DEF LeaderAhead
  <2>3. CASE k > lastSlowPath'[r]
    BY <2>1, <2>3, <1>2, <1>4 DEF Holds, Growth
  <2> QED BY <2>1, <2>2, <2>3, <1>2
<1>5. ASSUME NEW m \in Message, MessageOK(m) PROVE MessageOK(m)'
  <2>1. CASE m.type \in {"PREPARE", "COMMIT", "REPLY", "REQUEST"}
    BY <2>1, <1>1, <1>3, <1>5 DEF MessageOK
  <2>2. CASE m.type = "PREPAREOK"
    <3>1. m.src \in Followers /\ m.opnum \in Nat /\ m.slowpath \in BOOLEAN
      BY <2>2, <1>5, MessageFields DEF MessageOK
    <3>2. CASE m.slowpath
      BY <2>2, <3>1, <3>2, <1>1, <1>2, <1>5 DEF MessageOK, Growth
    <3>3. CASE ~m.slowpath
      BY <2>2, <3>1, <3>3, <1>2, <1>5 DEF MessageOK, Growth, Acknowledged
    <3> QED BY <3>2, <3>3
  <2>3. CASE m.type = "REQUESTSTATETRANSFER"
    BY <2>3, <1>2, <1>5, MessageFields DEF MessageOK, Growth
  <2>4. CASE m.type = "STATETRANSFER"
    BY <2>4, <1>1, <1>2, <1>5, MessageFields DEF MessageOK, Growth, LastEntry
  <2> QED BY <2>1, <2>2, <2>3, <2>4 DEF Message
<1> QED BY <1>1, <1>3, <1>4, <1>5

LEMMA ReplicasFinite == IsFiniteSet(Replicas)
  BY FastPaxosAssumption, FS_AddElement DEF Replicas

LEMMA SubsetCardinality ==
  ASSUME NEW S, NEW T, S \subseteq T, T \subseteq Replicas
  PROVE  /\ Cardinality(S) \in Nat /\ Cardinality(T) \in Nat
         /\ Cardinality(S) <= Cardinality(T)
  BY ReplicasFinite, FS_Subset, FS_CardinalityType

(* What a quorum holds it keeps.                                             *)
LEMMA BackedStable ==
  ASSUME \A r \in Replicas : \A k : Holds(r, k) => Holds(r, k)',
         NEW k, Backed(k)
  PROVE  Backed(k)'
<1> DEFINE one == {r \in Replicas : Holds(r, k)}
           all == {r \in Replicas : \A i \in 1 .. k : Holds(r, i)}
<1>1. FastQuorumSize \in Int /\ QuorumSize \in Int
  BY ConfigurationAssumption DEF FastQuorumSize, QuorumSize
<1>2. /\ Cardinality(one) <= Cardinality(one') /\ Cardinality(one) \in Nat
      /\ Cardinality(one') \in Nat
  <2>1. one \subseteq one' /\ one' \subseteq Replicas
    OBVIOUS
  <2> HIDE DEF one
  <2> QED BY <2>1, SubsetCardinality
<1>3. /\ Cardinality(all) <= Cardinality(all') /\ Cardinality(all) \in Nat
      /\ Cardinality(all') \in Nat
  <2>1. all \subseteq all' /\ all' \subseteq Replicas
    OBVIOUS
  <2> HIDE DEF all
  <2> QED BY <2>1, SubsetCardinality
<1>4. Cardinality(one) >= FastQuorumSize \/ Cardinality(all) >= QuorumSize
  BY DEF Backed
<1>5. Cardinality(one') >= FastQuorumSize \/ Cardinality(all') >= QuorumSize
  <2> HIDE DEF one, all
  <2> QED BY <1>1, <1>2, <1>3, <1>4
<1> QED BY <1>5 DEF Backed, FastQuorumSize, QuorumSize

(* The part of a step that is the same for all actions: given that it moves    *)
(* the logs and tables correctly, only what it adds has to be checked.      *)
LEMMA StepKeepsInvariant ==
  ASSUME IInv, TypeOK', PathsOrdered', LeaderAhead', Growth, TablesOK',
         \A m \in msgs' \ msgs :
           MessageOK(m)' /\ (m.type = "COMMIT" => Backed(m.opnum)'),
         \A m \in pendingPrepareOKs' \ pendingPrepareOKs :
           m \in msgs /\ m.type = "PREPAREOK",
         \A q \in slowPrepareOKQuorum' \ slowPrepareOKQuorum :
           q[2] \in Followers /\ q[1] \in 1 .. lastSlowPath'[q[2]],
         \A q \in fastPrepareOKQuorum' \ fastPrepareOKQuorum :
           q[2] \in Followers /\ Holds(q[2], q[1])'
  PROVE  IInv'
<1>1. /\ \A r \in Replicas : \A k : Holds(r, k) => Holds(r, k)'
      /\ \A m \in Message : MessageOK(m) => MessageOK(m)'
  BY Stability DEF IInv
<1>2. msgs \subseteq Message /\ pendingPrepareOKs \subseteq Message
  BY DEF IInv, TypeOK
<1>3. MessagesOK'
  BY <1>1, <1>2 DEF IInv, MessagesOK
<1>4. QuorumsOK'
  <2>1. \A q \in slowPrepareOKQuorum :
          q[2] \in Followers /\ q[1] \in 1 .. lastSlowPath'[q[2]]
    BY DEF IInv, QuorumsOK, TypeOK, Growth, Replicas
  <2>2. \A q \in fastPrepareOKQuorum : q[2] \in Followers /\ Holds(q[2], q[1])'
    BY <1>1 DEF IInv, QuorumsOK, Replicas
  <2> QED BY <2>1, <2>2 DEF QuorumsOK
<1>5. CommitBackedByQuorum'
  <2> SUFFICES ASSUME NEW m \in msgs', m.type = "COMMIT"
               PROVE  ExecutedAt(m.opnum, m.req)' /\ Backed(m.opnum)'
    BY DEF CommitBackedByQuorum
  <2>1. ExecutedAt(m.opnum, m.req)'
    BY <1>3 DEF MessagesOK, MessageOK
  <2>2. Backed(m.opnum)'
    <3>1. CASE m \in msgs
      <4>1. Backed(m.opnum)
        BY <3>1 DEF IInv, CommitBackedByQuorum
      <4> DEFINE k == m.opnum
      <4> HIDE DEF k
      <4>2. Backed(k)'
        BY <1>1, <4>1, BackedStable DEF k
      <4> QED BY <4>2 DEF k
    <3> QED BY <3>1
  <2> QED BY <2>1, <2>2
<1> QED BY <1>3, <1>4, <1>5 DEF IInv

-----------------------------------------------------------------------------
(* Steps that leave the logs, tables and quorums alone.                       *)

LEMMA QuietStep ==
  ASSUME IInv, UNCHANGED <<logVars, quorumVars>>,
         NEW out, out \subseteq Message, msgs' \subseteq msgs \cup out,
         \A m \in out : MessageOK(m) /\ m.type # "COMMIT",
         pendingPrepareOKs' \subseteq
           pendingPrepareOKs \cup {m \in msgs : m.type = "PREPAREOK"},
         clientAddresses' \in [Replicas -> SUBSET Clients],
         pendingPrepares' \in [Replicas -> SUBSET Message],
         requestedTransfer' \in [Replicas -> Nat],
         lastReqId' \in [Clients -> 0 .. MaxReqId],
         drops' \in 0 .. MaxDrops
  PROVE  IInv'
<1> USE DEF logVars, quorumVars
<1>1. TypeOK'
  BY DEF IInv, TypeOK
<1>2. PathsOrdered' /\ LeaderAhead'
  BY DEF IInv, PathsOrdered, LeaderAhead, Holds
<1>3. TablesOK'
  BY DEF IInv, TablesOK, ExecutedAt, Ordered, RL!Distinct
<1>4. Growth
  BY DEF IInv, TypeOK, Growth
<1>5. \A m \in out : MessageOK(m)'
  BY DEF MessageOK, ExecutedAt, Ordered, Acknowledged
<1> QED
  BY <1>1, <1>2, <1>3, <1>4, <1>5, StepKeepsInvariant

(* The same for a step that sends nothing.                                    *)
LEMMA SilentStep ==
  ASSUME IInv, UNCHANGED <<logVars, quorumVars>>, msgs' \subseteq msgs,
         pendingPrepareOKs' \subseteq
           pendingPrepareOKs \cup {m \in msgs : m.type = "PREPAREOK"},
         UNCHANGED <<clientAddresses, pendingPrepares, lastReqId>>,
         requestedTransfer' \in [Replicas -> Nat],
         drops' \in 0 .. MaxDrops
  PROVE  IInv'
<1> DEFINE out == {}
<1>1. \A m \in out : MessageOK(m) /\ m.type # "COMMIT"
  OBVIOUS
<1>2. out \subseteq Message /\ msgs' \subseteq msgs \cup out
  OBVIOUS
<1>3. /\ clientAddresses' \in [Replicas -> SUBSET Clients]
      /\ pendingPrepares' \in [Replicas -> SUBSET Message]
      /\ lastReqId' \in [Clients -> 0 .. MaxReqId]
  BY DEF IInv, TypeOK
<1> HIDE DEF out
<1> QED BY <1>1, <1>2, <1>3, QuietStep

(* Facts about the counters that most steps need.                             *)
LEMMA Counters ==
  ASSUME IInv
  PROVE  /\ Leader \in Replicas /\ Followers \subseteq Replicas
         /\ Leader \notin Followers
         /\ \A r \in Replicas :
              /\ lastCommitted[r] \in Nat /\ lastSlowPath[r] \in Nat
              /\ lastFastPath[r] \in Nat
              /\ lastCommitted[r] <= lastSlowPath[r]
              /\ lastSlowPath[r] <= lastFastPath[r]
              /\ lastSlowPath[r] <= lastSlowPath[Leader]
              /\ lastCommitted[r] <= lastCommitted[Leader]
              /\ log[r] \in Seq(Request) /\ Len(log[r]) = lastFastPath[r]
              /\ DOMAIN log[r] = 1 .. lastFastPath[r]
              /\ \A k \in 1 .. lastFastPath[r] : log[r][k] \in Request
              /\ clientTable[r] \in [Clients -> ClientTableEntry]
              /\ \A c \in Clients : clientTable[r][c] \in ClientTableEntry
         /\ lastFastPath[Leader] = lastSlowPath[Leader]
  BY FastPaxosAssumption DEF Replicas, IInv, TypeOK, PathsOrdered, LeaderAhead

(* The leader's unexecuted newest entry, which it may send again.             *)
LEMMA ResentPreparesOK ==
  ASSUME IInv
  PROVE  /\ ResentPrepares \subseteq Message
         /\ \A m \in ResentPrepares : MessageOK(m) /\ m.type = "PREPARE"
<1> DEFINE k == lastSlowPath[Leader]
<1>1. CASE k = lastCommitted[Leader]
  BY <1>1 DEF ResentPrepares
<1>2. CASE k # lastCommitted[Leader]
  <2>1. k \in 1 .. lastFastPath[Leader] /\ k \in Nat /\ log[Leader][k] \in Request
    BY <1>2, Counters
  <2>2. Ordered(k, log[Leader][k])
    BY <2>1, Counters DEF Ordered
  <2>3. ASSUME NEW m \in ResentPrepares
        PROVE  m \in Message /\ MessageOK(m) /\ m.type = "PREPARE"
    <3>1. PICK r \in Followers : m = Prepare(r, k, log[Leader][k])
      BY DEF ResentPrepares, LastPrepares, Listeners
    <3>2. m \in Message
      BY <3>1, <2>1, MessagesMade, Counters
    <3> QED BY <3>1, <3>2, <2>2 DEF Prepare, MessageOK
  <2> QED BY <2>3
<1> QED BY <1>1, <1>2

LEMMA TransferRequestsOK ==
  ASSUME IInv, NEW r \in Followers
  PROVE  /\ TransferRequests(r) \subseteq Message
         /\ \A m \in TransferRequests(r) :
              MessageOK(m) /\ m.type = "REQUESTSTATETRANSFER"
<1>1. ASSUME NEW m \in TransferRequests(r)
      PROVE  /\ m \in Message /\ MessageOK(m)
             /\ m.type = "REQUESTSTATETRANSFER"
  <2>1. PICK s \in Replicas : m = TransferRequest(r, s, lastCommitted[r])
    BY DEF TransferRequests
  <2>2. lastCommitted[r] \in Nat /\ r \in Replicas
    BY Counters
  <2>3. m \in Message
    BY <2>1, <2>2 DEF TransferRequest, Message
  <2> QED BY <2>1, <2>2, <2>3 DEF TransferRequest, MessageOK
<1> QED BY <1>1

(* What a handler knows of the message it handles.                            *)
LEMMA Received ==
  ASSUME IInv, NEW m \in msgs
  PROVE  m \in Message /\ MessageOK(m)
  BY DEF IInv, TypeOK, MessagesOK

LEMMA HandleDuplicateRequestStep ==
  ASSUME IInv, NEW m \in msgs, m.type = "REQUEST",
         HandleDuplicateRequest(m.dst, m)
  PROVE  IInv'
<1> DEFINE entry == clientTable[m.dst][m.req.client]
           out == IF m.req.reqid = entry.lastReqId /\ entry.replied
                  THEN {Reply(m.req, entry.opnum)} ELSE {}
<1>1. m.dst \in Replicas /\ m.req \in Request
  BY Received, MessageFields
<1>2. m.req.client \in Clients /\ entry.opnum \in Nat
  BY <1>1, Counters DEF Request, ClientTableEntry
<1>3. /\ msgs' \subseteq msgs \cup out /\ drops' = drops
      /\ clientAddresses' \in [Replicas -> SUBSET Clients]
  BY <1>1, <1>2 DEF HandleDuplicateRequest, Receive, IInv, TypeOK
<1>4. out \subseteq Message
  BY <1>1, <1>2 DEF Reply, Message
<1>5. \A x \in out : MessageOK(x) /\ x.type # "COMMIT"
  <2> SUFFICES ASSUME m.req.reqid = entry.lastReqId, entry.replied
               PROVE  MessageOK(Reply(m.req, entry.opnum))
    BY DEF Reply
  <2>1. m.req = [client |-> m.req.client, reqid |-> entry.lastReqId]
    BY <1>1 DEF Request
  <2>2. ExecutedAt(entry.opnum, m.req)
    BY <1>1, <1>2, <2>1 DEF IInv, TablesOK
  <2> QED BY <2>2 DEF Reply, MessageOK
<1> HIDE DEF out
<1> QED
  BY <1>3, <1>4, <1>5, QuietStep
     DEF HandleDuplicateRequest, pendingVars, IInv, TypeOK

LEMMA HandleOldPrepareStep ==
  ASSUME IInv, NEW m \in msgs, m.type = "PREPARE", HandleOldPrepare(m.dst, m)
  PROVE  IInv'
<1> DEFINE ok == PrepareOK(m.dst, m.opnum, m.req, TRUE)
<1>1. /\ m.dst \in Followers /\ m.dst \in Replicas /\ m.opnum \in Nat
      /\ m.req \in Request /\ Ordered(m.opnum, m.req)
  BY Received, MessageFields, Counters DEF MessageOK
<1>2. m.opnum \in 1 .. lastSlowPath[m.dst]
  BY <1>1, Counters DEF HandleOldPrepare, Ordered
<1>3. ok \in Message /\ MessageOK(ok) /\ ok.type # "COMMIT"
  BY <1>1, <1>2 DEF PrepareOK, Message, MessageOK
<1> DEFINE out == {ok}
<1>4. msgs' \subseteq msgs \cup out /\ drops' = drops
  BY DEF HandleOldPrepare, Answer, Receive
<1>5. out \subseteq Message /\ \A x \in out : MessageOK(x) /\ x.type # "COMMIT"
  BY <1>3
<1> HIDE DEF out
<1> QED
  BY <1>5, <1>4, QuietStep DEF HandleOldPrepare, pendingVars, IInv, TypeOK

LEMMA HandleEarlyPrepareStep ==
  ASSUME IInv, NEW m \in msgs, m.type = "PREPARE", HandleEarlyPrepare(m.dst, m)
  PROVE  IInv'
<1>1. m \in Message /\ m.dst \in Followers /\ m.dst \in Replicas
  BY Received, Counters DEF MessageOK
<1>2. /\ msgs' \subseteq msgs \cup TransferRequests(m.dst) /\ drops' = drops
  BY DEF HandleEarlyPrepare, Receive
<1>3. /\ pendingPrepares' \in [Replicas -> SUBSET Message]
      /\ requestedTransfer' \in [Replicas -> Nat]
  BY <1>1, Counters DEF HandleEarlyPrepare, RequestStateTransfer, IInv, TypeOK
<1> QED
  BY <1>1, <1>2, <1>3, TransferRequestsOK, QuietStep
     DEF HandleEarlyPrepare, IInv, TypeOK

LEMMA HandleOldPrepareOKStep ==
  ASSUME IInv, NEW m \in msgs, HandleOldPrepareOK(m)
  PROVE  IInv'
<1>1. msgs' \subseteq msgs /\ drops' = drops
  BY DEF HandleOldPrepareOK, Answer, Receive
<1> QED
  BY <1>1, SilentStep DEF HandleOldPrepareOK, pendingVars, IInv, TypeOK

LEMMA DeferPrepareOKStep ==
  ASSUME IInv, NEW m \in msgs, m.type = "PREPAREOK", DeferPrepareOK(m)
  PROVE  IInv'
<1>1. msgs' \subseteq msgs /\ drops' = drops
  BY DEF DeferPrepareOK, Receive
<1> QED
  BY <1>1, SilentStep DEF DeferPrepareOK, IInv, TypeOK

LEMMA HandleConflictingPrepareOKStep ==
  ASSUME IInv, NEW m \in msgs, HandleConflictingPrepareOK(m)
  PROVE  IInv'
<1>1. msgs' \subseteq msgs \cup ResentPrepares /\ drops' = drops
  BY DEF HandleConflictingPrepareOK, Answer, Receive
<1> QED
  BY <1>1, ResentPreparesOK, QuietStep
     DEF HandleConflictingPrepareOK, pendingVars, IInv, TypeOK

LEMMA HandleUselessCommitStep ==
  ASSUME IInv, NEW m \in msgs, HandleUselessCommit(m.dst, m)
  PROVE  IInv'
<1>1. msgs' \subseteq msgs /\ drops' = drops
  BY DEF HandleUselessCommit, Answer, Receive
<1> QED
  BY <1>1, SilentStep DEF HandleUselessCommit, pendingVars, IInv, TypeOK

LEMMA HandleEarlyCommitStep ==
  ASSUME IInv, NEW m \in msgs, m.type = "COMMIT", HandleEarlyCommit(m.dst, m)
  PROVE  IInv'
<1>1. m \in Message /\ m.dst \in Followers /\ m.dst \in Replicas
  BY Received, Counters DEF MessageOK
<1>2. /\ msgs' \subseteq msgs \cup TransferRequests(m.dst) /\ drops' = drops
  BY DEF HandleEarlyCommit, Receive
<1>3. requestedTransfer' \in [Replicas -> Nat]
  BY <1>1, Counters DEF HandleEarlyCommit, RequestStateTransfer, IInv, TypeOK
<1> QED
  BY <1>1, <1>2, <1>3, TransferRequestsOK, QuietStep
     DEF HandleEarlyCommit, IInv, TypeOK

LEMMA HandleRequestStateTransferStep ==
  ASSUME IInv, NEW m \in msgs, m.type = "REQUESTSTATETRANSFER",
         HandleRequestStateTransfer(m.dst, m)
  PROVE  IInv'
<1> DEFINE reply == StateTransfer(m.src, m.opnum)
           rlog == log[Leader]
<1>1. /\ m.src \in Followers /\ m.src \in Replicas /\ m.opnum \in Nat
      /\ m.opnum <= lastCommitted[m.src]
  BY Received, MessageFields, Counters DEF MessageOK
<1>2. /\ m.opnum <= Len(rlog) /\ rlog \in Seq(Request) /\ Len(rlog) \in Nat
      /\ lastCommitted[Leader] \in Nat /\ lastCommitted[Leader] <= Len(rlog)
  BY <1>1, Counters
<1>3. /\ reply.entries \in Seq(Request)
      /\ Len(reply.entries) = Len(rlog) - m.opnum
      /\ \A i \in 1 .. Len(rlog) - m.opnum : reply.entries[i] = rlog[m.opnum + i]
  <2> reply.entries = SubSeq(rlog, m.opnum + 1, Len(rlog))
    BY DEF StateTransfer
  <2> HIDE DEF reply
  <2> DEFINE lo == m.opnum + 1
             hi == Len(rlog)
  <2>1. lo \in Int /\ hi \in Int /\ \A i \in lo .. hi : rlog[i] \in Request
    BY <1>1, <1>2
  <2>2. /\ reply.entries \in Seq(Request)
        /\ Len(reply.entries) = IF lo <= hi THEN hi - lo + 1 ELSE 0
        /\ \A i \in 1 .. hi - lo + 1 : reply.entries[i] = rlog[lo + i - 1]
    <3> HIDE DEF rlog, lo, hi
    <3> QED BY <2>1, SubSeqProperties DEF lo, hi
  <2> HIDE DEF rlog
  <2>3. hi - lo + 1 = hi - m.opnum
    BY <1>1, <1>2
  <2>4. \A i \in 1 .. hi - m.opnum : lo + i - 1 = m.opnum + i
    BY <1>1, <1>2
  <2> QED BY <1>1, <1>2, <2>2, <2>3, <2>4
<1>4. reply \in Message
  BY <1>1, <1>2, <1>3 DEF StateTransfer, Message
<1>5. MessageOK(reply)
  <2>1. reply.first = m.opnum + 1 /\ reply.opnum = lastCommitted[Leader]
    BY DEF StateTransfer
  <2>2. reply.dst = m.src /\ reply.type = "STATETRANSFER"
    BY DEF StateTransfer
  <2>3. \A i \in DOMAIN reply.entries :
          Ordered(reply.first + i - 1, reply.entries[i])
    <3>1. DOMAIN reply.entries = 1 .. Len(rlog) - m.opnum
      BY <1>1, <1>2, <1>3
    <3> SUFFICES ASSUME NEW i \in 1 .. Len(rlog) - m.opnum
                 PROVE  Ordered(m.opnum + 1 + i - 1, reply.entries[i])
      BY <2>1, <3>1
    <3>2. m.opnum + 1 + i - 1 = m.opnum + i /\ m.opnum + i \in 1 .. Len(rlog)
      BY <1>1, <1>2
    <3> QED BY <1>2, <1>3, <3>2 DEF Ordered
  <2> HIDE DEF reply
  <2> QED
    BY <1>1, <1>2, <1>3, <2>1, <2>2, <2>3, Counters DEF MessageOK, LastEntry
<1> DEFINE out == {reply}
<1>6. msgs' \subseteq msgs \cup out /\ drops' = drops
  BY DEF HandleRequestStateTransfer, Answer, Receive
<1>7. out \subseteq Message /\ \A x \in out : MessageOK(x) /\ x.type # "COMMIT"
  BY <1>4, <1>5 DEF StateTransfer
<1> HIDE DEF out
<1> QED
  BY <1>6, <1>7, QuietStep
     DEF HandleRequestStateTransfer, pendingVars, IInv, TypeOK

LEMMA QuietTimersStep ==
  ASSUME IInv,
         \/ ResendPrepareTimeout
         \/ \E r \in Replicas : StateTransferTimeout(r)
  PROVE  IInv'
<1>1. ASSUME ResendPrepareTimeout PROVE IInv'
  <2>1. msgs' \subseteq msgs \cup ResentPrepares /\ drops' = drops
    BY <1>1 DEF ResendPrepareTimeout, Send
  <2> QED
    BY <1>1, <2>1, ResentPreparesOK, QuietStep
       DEF ResendPrepareTimeout, pendingVars, IInv, TypeOK
<1>2. ASSUME NEW r \in Replicas, StateTransferTimeout(r) PROVE IInv'
  <2>1. msgs' \subseteq msgs /\ requestedTransfer' \in [Replicas -> Nat]
    BY <1>2 DEF StateTransferTimeout, IInv, TypeOK
  <2> QED
    BY <1>2, <2>1, SilentStep DEF StateTransferTimeout, IInv, TypeOK
<1> QED BY <1>1, <1>2

LEMMA ClientsStep ==
  ASSUME IInv, \E c \in Clients : Invoke(c) \/ ResendRequest(c)
  PROVE  IInv'
<1>1. PICK c \in Clients : Invoke(c) \/ ResendRequest(c)
  OBVIOUS
<1> DEFINE out == {RequestTo(r, [client |-> c, reqid |-> lastReqId'[c]]) :
                     r \in Replicas \ Down}
<1>2. lastReqId' \in [Clients -> 0 .. MaxReqId] /\ lastReqId'[c] \in 1 .. MaxReqId
  <2>1. lastReqId \in [Clients -> 0 .. MaxReqId] /\ MaxReqId \in Nat
    BY FastPaxosAssumption DEF IInv, TypeOK
  <2>2. lastReqId[c] \in 0 .. MaxReqId
    BY <2>1
  <2>3. CASE Invoke(c)
    BY <2>1, <2>2, <2>3 DEF Invoke
  <2>4. CASE ResendRequest(c)
    BY <2>1, <2>2, <2>4 DEF ResendRequest
  <2> QED BY <1>1, <2>3, <2>4
<1>3. [client |-> c, reqid |-> lastReqId'[c]] \in Request
  BY <1>2 DEF Request
<1>4. \A m \in out : m \in Message /\ MessageOK(m) /\ m.type # "COMMIT"
  BY <1>3 DEF RequestTo, Message, MessageOK
<1>5. msgs' \subseteq msgs \cup out /\ drops' = drops
  <2>1. CASE Invoke(c)
    BY <2>1 DEF Invoke, Send, IInv, TypeOK
  <2>2. CASE ResendRequest(c)
    BY <2>2 DEF ResendRequest, CurrentRequest, Send
  <2> QED BY <1>1, <2>1, <2>2
<1> HIDE DEF out
<1> QED
  BY <1>1, <1>2, <1>4, <1>5, QuietStep
     DEF Invoke, ResendRequest, pendingVars, IInv, TypeOK

LEMMA DropStep ==
  ASSUME IInv, NEW m \in msgs, Drop(m)
  PROVE  IInv'
<1>1. msgs' \subseteq msgs /\ drops' \in 0 .. MaxDrops
  BY FastPaxosAssumption DEF Drop, IInv, TypeOK
<1> QED
  BY <1>1, SilentStep DEF Drop, pendingVars, IInv, TypeOK

-----------------------------------------------------------------------------
(* Steps of a follower that move its log.                                     *)

(* A follower r goes to log rlog, counters fast, slow and hi and client table  *)
(* row, sending out: what that has to satisfy to preserve the invariant.    *)
FollowerMoves(r, rlog, fast, slow, hi, row, out) ==
  /\ rlog \in Seq(Request) /\ row \in [Clients -> ClientTableEntry]
  /\ fast \in Nat /\ slow \in Nat /\ hi \in Nat
  /\ log' = [log EXCEPT ![r] = rlog]
  /\ lastFastPath' = [lastFastPath EXCEPT ![r] = fast]
  /\ lastSlowPath' = [lastSlowPath EXCEPT ![r] = slow]
  /\ lastCommitted' = [lastCommitted EXCEPT ![r] = hi]
  /\ clientTable' = [clientTable EXCEPT ![r] = row]
  /\ fast = Len(rlog) /\ hi <= slow /\ slow <= fast
  /\ lastFastPath[r] <= fast
  /\ lastSlowPath[r] <= slow /\ slow <= lastSlowPath[Leader]
  /\ lastCommitted[r] <= hi /\ hi <= lastCommitted[Leader]
  /\ \A k \in 1 .. slow : rlog[k] = log[Leader][k]
  /\ \A k \in 1 .. lastFastPath[r] : k > slow => rlog[k] = log[r][k]
  /\ \A c \in Clients : row[c].replied =>
       \/ row[c] = clientTable[r][c]
       \/ /\ row[c].opnum \in 1 .. hi
          /\ rlog[row[c].opnum] = [client |-> c, reqid |-> row[c].lastReqId]
  /\ UNCHANGED <<quorumVars, pendingPrepareOKs, requestedTransfer, lastReqId,
                 drops>>
  /\ clientAddresses' \in [Replicas -> SUBSET Clients]
  /\ pendingPrepares' \in [Replicas -> SUBSET Message]
  /\ out \subseteq Message /\ msgs' \subseteq msgs \cup out
  /\ \A m \in out :
       \/ /\ m.type = "REPLY"
          /\ m.opnum \in 1 .. hi /\ m.req = rlog[m.opnum]
       \/ /\ m.type = "PREPAREOK" /\ m.src = r
          /\ m.opnum \in 1 .. IF m.slowpath THEN slow ELSE fast
          /\ m.req = rlog[m.opnum]

LEMMA FollowerStep ==
  ASSUME IInv, NEW r \in Followers, NEW rlog, NEW fast, NEW slow, NEW hi, NEW row,
         NEW out, FollowerMoves(r, rlog, fast, slow, hi, row, out)
  PROVE  IInv'
<1> USE DEF quorumVars, FollowerMoves
<1>1. /\ r \in Replicas /\ r # Leader /\ Leader \in Replicas
      /\ log'[r] = rlog /\ lastFastPath'[r] = fast /\ lastSlowPath'[r] = slow
      /\ lastCommitted'[r] = hi /\ clientTable'[r] = row
      /\ \A s \in Replicas \ {r} :
           /\ log'[s] = log[s] /\ lastFastPath'[s] = lastFastPath[s]
           /\ lastSlowPath'[s] = lastSlowPath[s]
           /\ lastCommitted'[s] = lastCommitted[s]
           /\ clientTable'[s] = clientTable[s]
  BY Counters DEF IInv, TypeOK
<1>2. TypeOK'
  BY <1>1 DEF IInv, TypeOK
<1>3. PathsOrdered'
  BY <1>1 DEF IInv, PathsOrdered
<1>4. DOMAIN rlog = 1 .. fast
  OBVIOUS
<1>5. LeaderAhead'
  <2>1. \A k \in 1 .. slow : Holds(r, k)'
    BY <1>1, <1>4, Counters DEF Holds
  <2>2. \A s \in Replicas \ {r} : \A k \in 1 .. lastSlowPath[s] : Holds(s, k)'
    BY <1>1 DEF IInv, LeaderAhead, Holds
  <2>3. ASSUME NEW s \in Replicas
        PROVE  /\ lastSlowPath'[s] <= lastSlowPath'[Leader]
               /\ lastCommitted'[s] <= lastCommitted'[Leader]
               /\ \A k \in 1 .. lastSlowPath'[s] : Holds(s, k)'
    BY <1>1, <2>1, <2>2, Counters
  <2> QED BY <2>3 DEF LeaderAhead
<1>6. Growth
  BY <1>1, Counters DEF Growth
<1>7. /\ \A k, req : Ordered(k, req)' <=> Ordered(k, req)
      /\ \A k, req : ExecutedAt(k, req)' <=> ExecutedAt(k, req)
  BY <1>1 DEF Ordered, ExecutedAt
<1>8. \A k \in 1 .. slow : Ordered(k, rlog[k])
  BY Counters DEF Ordered
<1>9. \A k \in 1 .. hi : ExecutedAt(k, rlog[k])
  BY <1>8, Counters DEF ExecutedAt
<1>10. TablesOK'
  <2>1. ASSUME NEW s \in Replicas, NEW c \in Clients, clientTable'[s][c].replied
        PROVE  ExecutedAt(clientTable'[s][c].opnum,
                          [client |-> c, reqid |-> clientTable'[s][c].lastReqId])
    <3>1. CASE clientTable'[s][c] = clientTable[s][c]
      BY <2>1, <3>1 DEF IInv, TablesOK
    <3>2. CASE clientTable'[s][c] # clientTable[s][c]
      <4>1. s = r /\ clientTable'[s][c] = row[c]
        BY <3>2, <1>1
      <4>2. /\ row[c].opnum \in 1 .. hi
            /\ rlog[row[c].opnum] = [client |-> c, reqid |-> row[c].lastReqId]
        BY <2>1, <3>2, <4>1
      <4> QED BY <4>1, <4>2, <1>9
    <3> QED BY <3>1, <3>2
  <2>2. log'[Leader] = log[Leader] /\ clientTable'[Leader] = clientTable[Leader]
    BY <1>1
  <2> QED BY <2>1, <2>2, <1>7 DEF IInv, TablesOK, RL!Distinct
<1>11. ASSUME NEW m \in out PROVE MessageOK(m)' /\ m.type # "COMMIT"
  <2>1. CASE m.type = "REPLY"
    BY <2>1, <1>7, <1>9 DEF MessageOK
  <2>2. CASE m.type = "PREPAREOK"
    <3>1. /\ m.src = r /\ m.req = rlog[m.opnum] /\ m.slowpath \in BOOLEAN
          /\ m.opnum \in 1 .. IF m.slowpath THEN slow ELSE fast
      BY <2>2, MessageFields
    <3>2. CASE m.slowpath
      BY <2>2, <3>1, <3>2, <1>1, <1>7, <1>8 DEF MessageOK
    <3>3. CASE ~m.slowpath
      BY <2>2, <3>1, <3>3, <1>1 DEF MessageOK, Acknowledged
    <3> QED BY <2>2, <3>1, <3>2, <3>3
  <2> QED BY <2>1, <2>2
<1> QED
  BY <1>2, <1>3, <1>5, <1>6, <1>10, <1>11, StepKeepsInvariant

(* Setting an entry of a log, or adding the next one.                         *)
LEMMA PlacedSound ==
  ASSUME IInv, NEW r \in Replicas, NEW req \in Request,
         NEW k \in 1 .. lastFastPath[r] + 1,
         NEW rlog, rlog = Placed(r, k, req)
  PROVE  /\ rlog \in Seq(Request) /\ Len(rlog) = Larger(lastFastPath[r], k)
         /\ rlog[k] = req
         /\ \A i \in 1 .. lastFastPath[r] : i # k => rlog[i] = log[r][i]
<1>1. /\ log[r] \in Seq(Request) /\ Len(log[r]) = lastFastPath[r]
      /\ lastFastPath[r] \in Nat /\ k \in Nat
  BY Counters
<1>2. CASE k > lastFastPath[r]
  BY <1>1, <1>2 DEF Placed, Larger
<1>3. CASE k <= lastFastPath[r]
  BY <1>1, <1>3 DEF Placed, Larger
<1> QED BY <1>1, <1>2, <1>3

LEMMA FollowerHandleRequestStep ==
  ASSUME IInv, NEW m \in msgs, m.type = "REQUEST", m.dst \in Followers,
         FollowerHandleRequest(m.dst, m)
  PROVE  IInv'
<1> DEFINE r == m.dst
           k == lastFastPath[r] + 1
           rlog == Append(log[r], m.req)
           row == UpdateClientTable(clientTable[r], {m.req})
           out == {PrepareOK(r, k, m.req, FALSE)}
<1>1. /\ r \in Replicas /\ m.req \in Request /\ m.req.client \in Clients
  BY Received, MessageFields DEF Request
<1>2. /\ log[r] \in Seq(Request) /\ Len(log[r]) = lastFastPath[r]
      /\ lastFastPath[r] \in Nat
  BY <1>1, Counters
<1>3. /\ rlog \in Seq(Request) /\ Len(rlog) = k /\ k \in Nat /\ rlog[k] = m.req
      /\ \A i \in 1 .. lastFastPath[r] : rlog[i] = log[r][i]
  BY <1>1, <1>2
<1>4. /\ row \in [Clients -> ClientTableEntry]
      /\ \A c \in Clients : row[c].replied => row[c] = clientTable[r][c]
  <2> HIDE DEF row
  <2>1. clientTable[r] \in [Clients -> ClientTableEntry] /\ {m.req} \subseteq Request
    BY <1>1, Counters
  <2> QED BY <2>1, UpdateClientTableSound DEF row
<1>5. /\ log' = [log EXCEPT ![r] = rlog]
      /\ lastFastPath' = [lastFastPath EXCEPT ![r] = k]
      /\ lastSlowPath' = [lastSlowPath EXCEPT ![r] = lastSlowPath[r]]
      /\ lastCommitted' = [lastCommitted EXCEPT ![r] = lastCommitted[r]]
      /\ clientTable' = [clientTable EXCEPT ![r] = row]
  BY <1>1 DEF FollowerHandleRequest, IInv, TypeOK
<1>6. /\ UNCHANGED <<quorumVars, pendingPrepareOKs, requestedTransfer, lastReqId,
                     drops>>
      /\ clientAddresses' \in [Replicas -> SUBSET Clients]
      /\ pendingPrepares' \in [Replicas -> SUBSET Message]
      /\ msgs' \subseteq msgs \cup out
  BY <1>1 DEF FollowerHandleRequest, Receive, pendingVars, IInv, TypeOK
<1>7. \A i \in 1 .. lastSlowPath[r] : rlog[i] = log[Leader][i]
  <2>1. \A i \in 1 .. lastSlowPath[r] : log[r][i] = log[Leader][i]
    BY <1>1 DEF IInv, LeaderAhead, Holds
  <2> QED BY <2>1, <1>1, <1>3, Counters
<1>8. /\ out \subseteq Message
      /\ \A x \in out : /\ x.type = "PREPAREOK" /\ x.src = r /\ x.opnum = k
                        /\ x.slowpath = FALSE /\ x.req = rlog[k]
  <2> HIDE DEF r, k, rlog
  <2> QED BY <1>1, <1>3 DEF PrepareOK, Message
<1>9. \A x \in out :
        /\ x.type = "PREPAREOK" /\ x.src = r
        /\ x.opnum \in 1 .. IF x.slowpath THEN lastSlowPath[r] ELSE k
        /\ x.req = rlog[x.opnum]
  <2> k \in 1 .. k
    BY <1>2
  <2> HIDE DEF out, rlog, k, r
  <2> QED BY <1>8
<1>10. /\ lastSlowPath[r] \in Nat /\ lastCommitted[r] \in Nat
       /\ lastCommitted[r] <= lastSlowPath[r] /\ lastSlowPath[r] <= k
       /\ lastFastPath[r] <= k /\ lastSlowPath[r] <= lastSlowPath[Leader]
       /\ lastSlowPath[r] <= lastSlowPath[r]
       /\ lastCommitted[r] <= lastCommitted[r]
       /\ lastCommitted[r] <= lastCommitted[Leader]
  BY <1>1, <1>2, Counters
<1>11. r \in Followers
  OBVIOUS
<1> HIDE DEF r, k, rlog, row, out
<1> QED
  <2>1. FollowerMoves(r, rlog, k, lastSlowPath[r], lastCommitted[r], row, out)
    BY <1>3, <1>4, <1>5, <1>6, <1>7, <1>8, <1>9, <1>10 DEF FollowerMoves
  <2> QED BY <2>1, <1>11, FollowerStep

LEMMA HandlePrepareStep ==
  ASSUME IInv, NEW m \in msgs, m.type = "PREPARE", HandlePrepare(m.dst, m)
  PROVE  IInv'
<1> DEFINE r == m.dst
           k == m.opnum
           rlog == Placed(r, k, m.req)
           fast == Larger(lastFastPath[r], k)
           row == UpdateClientTable(clientTable[r], {m.req})
           out == {PrepareOK(r, k, m.req, TRUE)}
<1>1. /\ r \in Followers /\ r \in Replicas /\ m.req \in Request /\ k \in Nat
      /\ Ordered(k, m.req) /\ m.req.client \in Clients
      /\ k = lastSlowPath[r] + 1
  BY Received, MessageFields, Counters DEF MessageOK, Request, HandlePrepare
<1>2. /\ k \in 1 .. lastSlowPath[Leader] /\ log[Leader][k] = m.req
      /\ k \in 1 .. lastFastPath[r] + 1
  BY <1>1, Counters DEF Ordered
<1>3. /\ rlog \in Seq(Request) /\ Len(rlog) = fast /\ rlog[k] = m.req
      /\ \A i \in 1 .. lastFastPath[r] : i # k => rlog[i] = log[r][i]
  BY <1>1, <1>2, PlacedSound
<1>4. fast \in Nat /\ k <= fast /\ lastFastPath[r] <= fast
  BY <1>1, Counters, LargerIsMax
<1>5. /\ row \in [Clients -> ClientTableEntry]
      /\ \A c \in Clients : row[c].replied => row[c] = clientTable[r][c]
  <2> HIDE DEF row
  <2>1. clientTable[r] \in [Clients -> ClientTableEntry] /\ {m.req} \subseteq Request
    BY <1>1, Counters
  <2> QED BY <2>1, UpdateClientTableSound DEF row
<1>6. /\ log' = [log EXCEPT ![r] = rlog]
      /\ lastFastPath' = [lastFastPath EXCEPT ![r] = fast]
      /\ lastSlowPath' = [lastSlowPath EXCEPT ![r] = k]
      /\ lastCommitted' = [lastCommitted EXCEPT ![r] = lastCommitted[r]]
      /\ clientTable' = [clientTable EXCEPT ![r] = row]
  BY <1>1 DEF HandlePrepare, IInv, TypeOK
<1>7. /\ UNCHANGED <<quorumVars, pendingPrepareOKs, requestedTransfer, lastReqId,
                     drops>>
      /\ clientAddresses' \in [Replicas -> SUBSET Clients]
      /\ pendingPrepares' \in [Replicas -> SUBSET Message]
      /\ msgs' \subseteq msgs \cup out
  BY <1>1 DEF HandlePrepare, Receive, pendingVars, IInv, TypeOK
<1>8. /\ \A i \in 1 .. k : rlog[i] = log[Leader][i]
      /\ \A i \in 1 .. lastFastPath[r] : i > k => rlog[i] = log[r][i]
  <2>1. \A i \in 1 .. lastSlowPath[r] : log[r][i] = log[Leader][i]
    BY <1>1 DEF IInv, LeaderAhead, Holds
  <2>2. lastSlowPath[r] \in Nat /\ lastSlowPath[r] <= lastFastPath[r]
        /\ lastFastPath[r] \in Nat
    BY <1>1, Counters
  <2> HIDE DEF rlog, k, r
  <2> QED BY <2>1, <2>2, <1>1, <1>2, <1>3
<1>9. /\ out \subseteq Message
      /\ \A x \in out : /\ x.type = "PREPAREOK" /\ x.src = r /\ x.opnum = k
                        /\ x.slowpath = TRUE /\ x.req = rlog[k]
  <2> HIDE DEF r, k, rlog
  <2> QED BY <1>1, <1>3 DEF PrepareOK, Message
<1>10. \A x \in out :
         /\ x.type = "PREPAREOK" /\ x.src = r
         /\ x.opnum \in 1 .. IF x.slowpath THEN k ELSE fast
         /\ x.req = rlog[x.opnum]
  <2> k \in 1 .. k
    BY <1>2
  <2> HIDE DEF out, rlog, k, r, fast
  <2> QED BY <1>9
<1>11. /\ lastCommitted[r] \in Nat
       /\ lastCommitted[r] <= k /\ lastSlowPath[r] <= k
       /\ k <= lastSlowPath[Leader]
       /\ lastCommitted[r] <= lastCommitted[r]
       /\ lastCommitted[r] <= lastCommitted[Leader]
  BY <1>1, <1>2, Counters
<1> HIDE DEF r, k, rlog, fast, row, out
<1> QED
  <2>1. FollowerMoves(r, rlog, fast, k, lastCommitted[r], row, out)
    BY <1>1, <1>3, <1>4, <1>5, <1>6, <1>7, <1>8, <1>9, <1>10, <1>11
       DEF FollowerMoves
  <2> QED BY <2>1, <1>1, FollowerStep

LEMMA HandleCommitStep ==
  ASSUME IInv, NEW m \in msgs, m.type = "COMMIT", HandleCommit(m.dst, m)
  PROVE  IInv'
<1> DEFINE r == m.dst
           k == m.opnum
           old == lastSlowPath[r]
           rlog == IF k > old THEN Placed(r, k, m.req) ELSE log[r]
           slow == Larger(old, k)
           row == StoreReplies(clientTable[r], rlog, lastCommitted[r], k)
           out == Replies(clientAddresses[r], rlog, lastCommitted[r], k)
<1>1. /\ r \in Followers /\ r \in Replicas /\ m.req \in Request /\ k \in Nat
      /\ ExecutedAt(k, m.req)
      /\ k > lastCommitted[r] /\ k <= lastFastPath[r] /\ k <= old + 1
  BY Received, MessageFields, Counters DEF MessageOK, HandleCommit, Committable
<1>2. /\ k \in 1 .. lastCommitted[Leader] /\ log[Leader][k] = m.req
      /\ k \in 1 .. lastFastPath[r] + 1 /\ old \in Nat
  BY <1>1, Counters DEF ExecutedAt, Ordered
<1>3. Larger(lastCommitted[r], k) = k /\ Larger(lastFastPath[r], k) = lastFastPath[r]
  BY <1>1, Counters DEF Larger
<1>4. slow \in Nat /\ old <= slow /\ k <= slow /\ slow \in {old, k}
  BY <1>1, <1>2, LargerIsMax
<1>5. /\ rlog \in Seq(Request) /\ Len(rlog) = lastFastPath[r]
      /\ k > old => rlog[k] = m.req
      /\ \A i \in 1 .. lastFastPath[r] : i # k \/ k <= old => rlog[i] = log[r][i]
  <2>1. CASE k > old
    BY <2>1, <1>1, <1>2, <1>3, PlacedSound
  <2>2. CASE ~(k > old)
    BY <2>2, <1>1, <1>2, Counters
  <2> QED BY <2>1, <2>2
<1>6. /\ row \in [Clients -> ClientTableEntry]
      /\ \A c \in Clients :
           \/ row[c] = clientTable[r][c]
           \/ /\ row[c].opnum \in lastCommitted[r] + 1 .. k
              /\ rlog[row[c].opnum] = [client |-> c, reqid |-> row[c].lastReqId]
  <2>1. /\ clientTable[r] \in [Clients -> ClientTableEntry]
        /\ lastCommitted[r] \in Nat /\ k <= Len(rlog)
        /\ rlog \in Seq(Request) /\ k \in Nat
    BY <1>1, <1>5, Counters
  <2> HIDE DEF row, rlog, k, r
  <2>2. row = StoreReplies(clientTable[r], rlog, lastCommitted[r], k)
    BY DEF row
  <2> QED BY <2>1, <2>2, StoreRepliesSound
<1>7. /\ log' = [log EXCEPT ![r] = rlog]
      /\ lastFastPath' = [lastFastPath EXCEPT ![r] = lastFastPath[r]]
      /\ lastSlowPath' = [lastSlowPath EXCEPT ![r] = slow]
      /\ lastCommitted' = [lastCommitted EXCEPT ![r] = k]
      /\ clientTable' = [clientTable EXCEPT ![r] = row]
  BY <1>1, <1>3 DEF HandleCommit, CommitUpTo, IInv, TypeOK
<1>8. /\ UNCHANGED <<quorumVars, pendingPrepareOKs, requestedTransfer, lastReqId,
                     drops>>
      /\ clientAddresses' \in [Replicas -> SUBSET Clients]
      /\ pendingPrepares' \in [Replicas -> SUBSET Message]
      /\ msgs' \subseteq msgs \cup out
  BY <1>1 DEF HandleCommit, Receive, pendingVars, IInv, TypeOK
<1>9. /\ \A i \in 1 .. slow : rlog[i] = log[Leader][i]
      /\ \A i \in 1 .. lastFastPath[r] : i > slow => rlog[i] = log[r][i]
  <2>1. \A i \in 1 .. old : log[r][i] = log[Leader][i]
    BY <1>1 DEF IInv, LeaderAhead, Holds
  <2>2. /\ old <= lastFastPath[r] /\ lastFastPath[r] \in Nat
    BY <1>1, Counters
  <2> HIDE DEF rlog, slow, old, k, r
  <2> QED BY <2>1, <2>2, <1>1, <1>2, <1>4, <1>5
<1>10. ASSUME NEW x \in out
       PROVE  /\ x \in Message /\ x.type = "REPLY" /\ x.opnum \in 1 .. k
              /\ x.req = rlog[x.opnum]
  <2> HIDE DEF rlog
  <2>1. PICK i \in lastCommitted[r] + 1 .. k : x = Reply(rlog[i], i)
    BY DEF Replies
  <2>2. i \in 1 .. k /\ i \in 1 .. Len(rlog) /\ i \in Nat
    BY <1>1, <1>5, Counters
  <2>3. rlog[i] \in Request
    BY <2>2, <1>5
  <2> QED BY <2>1, <2>2, <2>3 DEF Reply, Message
<1>11. /\ lastFastPath[r] \in Nat /\ slow <= lastFastPath[r]
       /\ slow <= lastSlowPath[Leader] /\ lastFastPath[r] <= lastFastPath[r]
       /\ lastSlowPath[r] <= slow /\ lastCommitted[r] <= k
       /\ k <= lastCommitted[Leader]
  <2>1. /\ old <= lastFastPath[r] /\ old <= lastSlowPath[Leader]
        /\ lastCommitted[Leader] <= lastSlowPath[Leader]
        /\ lastFastPath[r] \in Nat /\ lastSlowPath[Leader] \in Nat
        /\ lastCommitted[Leader] \in Nat /\ lastCommitted[r] \in Nat
    BY <1>1, Counters
  <2> HIDE DEF slow, k
  <2> QED BY <2>1, <1>1, <1>2, <1>4
<1>12. out \subseteq Message
  BY <1>10
<1>13. \A c \in Clients : row[c].replied =>
         \/ row[c] = clientTable[r][c]
         \/ /\ row[c].opnum \in 1 .. k
            /\ rlog[row[c].opnum] = [client |-> c, reqid |-> row[c].lastReqId]
  <2> HIDE DEF row, rlog
  <2> QED BY <1>1, <1>6, Counters
<1> HIDE DEF r, k, old, rlog, slow, row, out
<1> QED
  <2>1. FollowerMoves(r, rlog, lastFastPath[r], slow, k, row, out)
    BY <1>1, <1>4, <1>5, <1>6, <1>7, <1>8, <1>9, <1>10, <1>11, <1>12, <1>13
       DEF FollowerMoves
  <2> QED BY <2>1, <1>1, FollowerStep

(* What HandleStateTransfer makes of a log: as long as the counters say, with   *)
(* the leader's entries up to the last one transferred.                     *)
LEMMA InstalledSound ==
  ASSUME IInv, NEW m \in msgs, m.type = "STATETRANSFER"
  PROVE  LET r == m.dst
             rlog == Installed(r, m)
             last == LastEntry(m)
             fast == Larger(lastFastPath[r], last)
             slow == Larger(lastSlowPath[r], last)
         IN  /\ last \in Nat /\ last <= lastSlowPath[Leader] /\ m.opnum <= last
             /\ rlog \in Seq(Request) /\ Len(rlog) = fast
             /\ \A i \in 1 .. slow : rlog[i] = log[Leader][i]
             /\ \A i \in 1 .. lastFastPath[r] : i > slow => rlog[i] = log[r][i]
<1> DEFINE r == m.dst
           rlog == Installed(r, m)
           last == LastEntry(m)
           fast == Larger(lastFastPath[r], last)
           slow == Larger(lastSlowPath[r], last)
           len == Len(m.entries)
<1>1. /\ r \in Followers /\ r \in Replicas /\ m.opnum \in Nat /\ m.first \in Nat
      /\ m.entries \in Seq(Request) /\ m.first \in 1 .. lastCommitted[r] + 1
      /\ m.opnum <= last
      /\ \A i \in DOMAIN m.entries : Ordered(m.first + i - 1, m.entries[i])
  BY Received, MessageFields, Counters DEF MessageOK
<1>2. /\ len \in Nat /\ DOMAIN m.entries = 1 .. len /\ last = m.first + len - 1
      /\ last \in Nat
  BY <1>1, Counters DEF LastEntry
<1>3. last <= lastSlowPath[Leader]
  <2>1. CASE len = 0
    BY <2>1, <1>1, <1>2, Counters
  <2>2. CASE len # 0
    <3> HIDE DEF len, last
    <3>0. len \in DOMAIN m.entries
      BY <2>2, <1>2
    <3>1. Ordered(m.first + len - 1, m.entries[len])
      BY <3>0, <1>1
    <3> QED BY <3>1, <1>2, Counters DEF Ordered
  <2> QED BY <2>1, <2>2
<1>4. /\ lastFastPath[r] \in Nat /\ lastSlowPath[r] \in Nat
      /\ lastCommitted[r] \in Nat /\ lastCommitted[r] <= lastSlowPath[r]
      /\ lastSlowPath[r] <= lastFastPath[r]
      /\ \A i \in 1 .. lastFastPath[r] : log[r][i] \in Request
  BY <1>1, Counters
<1>5. /\ fast \in Nat /\ slow \in Nat /\ slow <= fast /\ lastFastPath[r] <= fast
      /\ last <= slow /\ lastSlowPath[r] <= slow
      /\ fast \in {lastFastPath[r], last} /\ slow \in {lastSlowPath[r], last}
  <2> HIDE DEF last
  <2> QED BY <1>2, <1>4 DEF Larger
<1> HIDE DEF last, len, slow, r
<1>6. rlog = [i \in 1 .. fast |->
                IF i > lastSlowPath[r] /\ i <= last
                THEN m.entries[i - m.first + 1] ELSE log[r][i]]
  BY DEF Installed, last, fast
<1> HIDE DEF fast, rlog
<1>7. ASSUME NEW i \in 1 .. fast, i > lastSlowPath[r], i <= last
      PROVE  /\ rlog[i] = log[Leader][i] /\ rlog[i] \in Request
  <2> DEFINE j == i - m.first + 1
  <2>1. j \in 1 .. len /\ m.first + j - 1 = i
    <3>1. /\ i \in Nat /\ i > lastSlowPath[r] /\ i <= last
          /\ m.first \in Nat /\ m.first <= lastCommitted[r] + 1
      BY <1>1, <1>4, <1>5, <1>7
    <3>2. \A a, b, c, n \in Nat :
            c > b /\ c <= a + n - 1 /\ a <= b + 1 =>
              c - a + 1 \in 1 .. n /\ a + (c - a + 1) - 1 = c
      OBVIOUS
    <3>3. lastSlowPath[r] \in Nat /\ m.first <= lastSlowPath[r] + 1
      BY <3>1, <1>4
    <3> HIDE DEF j
    <3>4. i <= m.first + len - 1 /\ len \in Nat
      BY <3>1, <1>2
    <3> QED BY <3>1, <3>2, <3>3, <3>4 DEF j
  <2>2. rlog[i] = m.entries[j]
    BY <1>6, <1>7
  <2>3. Ordered(i, m.entries[j])
    <3> HIDE DEF j
    <3> QED BY <2>1, <1>1, <1>2
  <2>4. m.entries[j] \in Request
    <3> HIDE DEF j
    <3> QED BY <2>1, <1>1, <1>2
  <2> QED BY <2>2, <2>3, <2>4 DEF Ordered
<1>8. ASSUME NEW i \in 1 .. fast, ~(i > lastSlowPath[r] /\ i <= last)
      PROVE  rlog[i] = log[r][i] /\ rlog[i] \in Request
  <2>1. rlog[i] = log[r][i]
    BY <1>6, <1>8
  <2>2. i \in 1 .. lastFastPath[r]
    BY <1>2, <1>4, <1>5, <1>8
  <2> QED BY <2>1, <2>2, <1>4
<1>9. rlog \in Seq(Request) /\ Len(rlog) = fast
  <2>1. \A i \in 1 .. fast : rlog[i] \in Request
    BY <1>7, <1>8
  <2>2. rlog \in [1 .. fast -> Request]
    BY <2>1, <1>6
  <2> QED BY <2>2, <1>5
<1>10. ASSUME NEW i \in 1 .. slow PROVE rlog[i] = log[Leader][i]
  <2>0. i \in 1 .. fast
    BY <1>5
  <2>1. CASE i > lastSlowPath[r]
    BY <2>0, <2>1, <1>2, <1>4, <1>5, <1>7
  <2>2. CASE i <= lastSlowPath[r]
    <3>1. log[r][i] = log[Leader][i]
      BY <2>2, <1>1, <1>4, <1>5 DEF IInv, LeaderAhead, Holds
    <3> QED BY <2>0, <2>2, <3>1, <1>4, <1>8
  <2> QED BY <2>1, <2>2, <1>4
<1>11. ASSUME NEW i \in 1 .. lastFastPath[r], i > slow PROVE rlog[i] = log[r][i]
  BY <1>2, <1>4, <1>5, <1>8, <1>11
<1> QED BY <1>1, <1>2, <1>3, <1>9, <1>10, <1>11 DEF last, fast, slow, r, rlog

LEMMA HandleStateTransferStep ==
  ASSUME IInv, NEW m \in msgs, m.type = "STATETRANSFER",
         HandleStateTransfer(m.dst, m)
  PROVE  IInv'
<1> DEFINE r == m.dst
           last == LastEntry(m)
           fast == Larger(lastFastPath[r], last)
           slow == Larger(lastSlowPath[r], last)
           hi == Larger(lastCommitted[r], m.opnum)
           rlog == Installed(r, m)
           unacked == {i \in lastSlowPath[r] .. slow : i > hi}
           mid == StoreReplies(clientTable[r], rlog, lastCommitted[r], hi)
           row == UpdateClientTable(mid, {rlog[i] : i \in unacked})
           out == Replies(clientAddresses[r], rlog, lastCommitted[r], hi) \cup
                  {PrepareOK(r, i, rlog[i], TRUE) : i \in unacked}
<1>1. /\ r \in Followers /\ r \in Replicas /\ m.opnum \in Nat
      /\ m.opnum <= lastCommitted[Leader]
  BY Received, MessageFields, Counters DEF MessageOK
<1>2. /\ last \in Nat /\ last <= lastSlowPath[Leader] /\ m.opnum <= last
      /\ rlog \in Seq(Request) /\ Len(rlog) = fast
      /\ \A i \in 1 .. slow : rlog[i] = log[Leader][i]
      /\ \A i \in 1 .. lastFastPath[r] : i > slow => rlog[i] = log[r][i]
  BY InstalledSound
<1>3. /\ lastFastPath[r] \in Nat /\ lastSlowPath[r] \in Nat
      /\ lastCommitted[r] \in Nat /\ lastCommitted[r] <= lastSlowPath[r]
      /\ lastSlowPath[r] <= lastFastPath[r]
      /\ lastSlowPath[r] <= lastSlowPath[Leader]
      /\ lastCommitted[r] <= lastCommitted[Leader]
      /\ clientTable[r] \in [Clients -> ClientTableEntry]
  BY <1>1, Counters
<1>4. /\ fast \in Nat /\ slow \in Nat /\ hi \in Nat
      /\ hi <= slow /\ slow <= fast /\ lastFastPath[r] <= fast
      /\ lastSlowPath[r] <= slow /\ slow <= lastSlowPath[Leader]
      /\ lastCommitted[r] <= hi /\ hi <= lastCommitted[Leader]
      /\ Larger(slow, hi) = slow
  <2> HIDE DEF last, r
  <2> QED BY <1>1, <1>2, <1>3 DEF Larger
<1> HIDE DEF last, fast, slow, hi, rlog
<1>5. \A i \in 1 .. fast : rlog[i] \in Request
  BY <1>2
<1>6. unacked \subseteq 1 .. slow /\ unacked \subseteq 1 .. fast
  BY <1>3, <1>4
<1>7. /\ mid \in [Clients -> ClientTableEntry]
      /\ \A c \in Clients :
           \/ mid[c] = clientTable[r][c]
           \/ /\ mid[c].opnum \in lastCommitted[r] + 1 .. hi
              /\ rlog[mid[c].opnum] = [client |-> c, reqid |-> mid[c].lastReqId]
  <2>1. hi <= Len(rlog)
    BY <1>2, <1>4
  <2>2. mid = StoreReplies(clientTable[r], rlog, lastCommitted[r], hi)
    OBVIOUS
  <2> HIDE DEF mid, r
  <2> QED BY <2>1, <2>2, <1>2, <1>3, <1>4, StoreRepliesSound
<1>8. /\ row \in [Clients -> ClientTableEntry]
      /\ \A c \in Clients : row[c].replied => row[c] = mid[c]
  <2> DEFINE reqs == {rlog[i] : i \in unacked}
  <2>1. reqs \subseteq Request
    BY <1>5, <1>6
  <2>2. row = UpdateClientTable(mid, reqs)
    OBVIOUS
  <2> HIDE DEF mid, r, reqs, unacked, row
  <2> QED BY <2>1, <2>2, <1>7, UpdateClientTableSound
<1> HIDE DEF mid, row
<1>9. \A c \in Clients : row[c].replied =>
        \/ row[c] = clientTable[r][c]
        \/ /\ row[c].opnum \in 1 .. hi
           /\ rlog[row[c].opnum] = [client |-> c, reqid |-> row[c].lastReqId]
  BY <1>3, <1>4, <1>7, <1>8
<1>10. /\ log' = [log EXCEPT ![r] = rlog]
       /\ lastFastPath' = [lastFastPath EXCEPT ![r] = fast]
       /\ lastSlowPath' = [lastSlowPath EXCEPT ![r] = slow]
       /\ lastCommitted' = [lastCommitted EXCEPT ![r] = hi]
       /\ clientTable' = [clientTable EXCEPT ![r] = row]
  <2>1. /\ log' = [log EXCEPT ![r] = rlog]
        /\ lastFastPath' = [lastFastPath EXCEPT ![r] = fast]
        /\ lastSlowPath' = [lastSlowPath EXCEPT ![r] = Larger(slow, hi)]
        /\ lastCommitted' = [lastCommitted EXCEPT ![r] = hi]
        /\ clientTable' = [clientTable EXCEPT ![r] = row]
    BY DEF HandleStateTransfer, rlog, fast, slow, hi, row, mid, last
  <2> QED BY <2>1, <1>4
<1>11. /\ UNCHANGED <<quorumVars, pendingPrepareOKs, requestedTransfer, lastReqId,
                      drops>>
       /\ clientAddresses' \in [Replicas -> SUBSET Clients]
       /\ pendingPrepares' \in [Replicas -> SUBSET Message]
  BY <1>1 DEF HandleStateTransfer, Receive, IInv, TypeOK
<1>12. msgs' \subseteq msgs \cup out
  BY DEF HandleStateTransfer, Receive, rlog, slow, hi, last
<1>13. ASSUME NEW x \in out
       PROVE  /\ x \in Message
              /\ \/ /\ x.type = "REPLY"
                    /\ x.opnum \in 1 .. hi /\ x.req = rlog[x.opnum]
                 \/ /\ x.type = "PREPAREOK" /\ x.src = r
                    /\ x.opnum \in 1 .. IF x.slowpath THEN slow ELSE fast
                    /\ x.req = rlog[x.opnum]
  <2>1. CASE \E i \in lastCommitted[r] + 1 .. hi : x = Reply(rlog[i], i)
    <3>1. PICK i \in lastCommitted[r] + 1 .. hi : x = Reply(rlog[i], i)
      BY <2>1
    <3>2. i \in 1 .. hi /\ i \in Nat /\ rlog[i] \in Request
      BY <1>3, <1>4, <1>5
    <3> QED BY <3>1, <3>2 DEF Reply, Message
  <2>2. CASE \E i \in unacked : x = PrepareOK(r, i, rlog[i], TRUE)
    <3>1. PICK i \in unacked : x = PrepareOK(r, i, rlog[i], TRUE)
      BY <2>2
    <3>2. i \in 1 .. slow /\ i \in Nat /\ rlog[i] \in Request
      BY <1>5, <1>6
    <3> HIDE DEF unacked
    <3> QED BY <1>1, <3>1, <3>2 DEF PrepareOK, Message
  <2> QED BY <2>1, <2>2 DEF Replies
<1> HIDE DEF r, unacked, out
<1>14. FollowerMoves(r, rlog, fast, slow, hi, row, out)
  BY <1>2, <1>4, <1>8, <1>9, <1>10, <1>11, <1>12, <1>13 DEF FollowerMoves
<1> QED
  BY <1>1, <1>14, FollowerStep

-----------------------------------------------------------------------------
(* Steps of the leader that move its log.                                     *)

(* With the leader's log rlog, enough followers hold k.                       *)
HeldByFollowers(k, rlog) ==
  \E S \in SUBSET Followers :
    \/ /\ Cardinality(S) >= QuorumSize - 1
       /\ \A s \in S : k <= lastSlowPath[s]
    \/ /\ Cardinality(S) >= FastQuorumSize - 1
       /\ \A s \in S : k \in DOMAIN log[s] /\ log[s][k] = rlog[k]

(* The leader goes to log rlog, of which it has executed hi, and client table  *)
(* row, sending out.                                                        *)
LeaderMoves(rlog, hi, row, out) ==
  /\ rlog \in Seq(Request) /\ row \in [Clients -> ClientTableEntry] /\ hi \in Nat
  /\ log' = [log EXCEPT ![Leader] = rlog]
  /\ lastFastPath' = [lastFastPath EXCEPT ![Leader] = Len(rlog)]
  /\ lastSlowPath' = [lastSlowPath EXCEPT ![Leader] = Len(rlog)]
  /\ lastCommitted' = [lastCommitted EXCEPT ![Leader] = hi]
  /\ clientTable' = [clientTable EXCEPT ![Leader] = row]
  /\ lastSlowPath[Leader] <= Len(rlog)
  /\ \A k \in 1 .. lastSlowPath[Leader] : rlog[k] = log[Leader][k]
  /\ lastCommitted[Leader] <= hi /\ hi <= Len(rlog)
  /\ \A c \in Clients : row[c].replied =>
       \/ row[c] = clientTable[Leader][c]
       \/ /\ row[c].opnum \in 1 .. hi
          /\ rlog[row[c].opnum] = [client |-> c, reqid |-> row[c].lastReqId]
  /\ \A k \in 1 .. Len(rlog) : rlog[k].reqid <= row[rlog[k].client].lastReqId
  /\ RL!Distinct(rlog)
  /\ UNCHANGED <<pendingPrepares, requestedTransfer, lastReqId, drops>>
  /\ clientAddresses' \in [Replicas -> SUBSET Clients]
  /\ pendingPrepareOKs' \subseteq pendingPrepareOKs
  /\ slowPrepareOKQuorum' \subseteq Nat \X Replicas
  /\ \A q \in slowPrepareOKQuorum' \ slowPrepareOKQuorum :
       q[2] \in Followers /\ q[1] \in 1 .. lastSlowPath[q[2]]
  /\ fastPrepareOKQuorum' \subseteq Nat \X Replicas
  /\ \A q \in fastPrepareOKQuorum' \ fastPrepareOKQuorum :
       /\ q[2] \in Followers /\ q[1] \in 1 .. Len(rlog)
       /\ q[1] \in DOMAIN log[q[2]] /\ log[q[2]][q[1]] = rlog[q[1]]
  /\ out \subseteq Message /\ msgs' \subseteq msgs \cup out
  /\ \A m \in out :
       \/ /\ m.type = "REPLY"
          /\ m.opnum \in 1 .. hi /\ m.req = rlog[m.opnum]
       \/ /\ m.type = "PREPARE" /\ m.dst \in Followers
          /\ m.opnum \in 1 .. Len(rlog) /\ m.req = rlog[m.opnum]
       \/ /\ m.type = "COMMIT" /\ m.dst \in Followers
          /\ m.opnum \in 1 .. hi /\ m.req = rlog[m.opnum]
          /\ HeldByFollowers(m.opnum, rlog)

(* The followers and the leader itself make the quorum.                       *)
LEMMA QuorumWithLeader ==
  ASSUME NEW S, S \subseteq Followers, NEW T, S \cup {Leader} \subseteq T,
         T \subseteq Replicas, NEW n \in Int, Cardinality(S) >= n - 1
  PROVE  Cardinality(T) >= n
<1>1. IsFiniteSet(S) /\ Leader \notin S
  BY FastPaxosAssumption, FS_Subset
<1>2. Cardinality(S \cup {Leader}) = Cardinality(S) + 1
  BY <1>1, FS_AddElement
<1>3. /\ Cardinality(S \cup {Leader}) <= Cardinality(T)
      /\ Cardinality(T) \in Nat /\ Cardinality(S \cup {Leader}) \in Nat
  BY SubsetCardinality
<1>4. Cardinality(S) \in Nat
  BY <1>1, FS_CardinalityType
<1> QED BY <1>2, <1>3, <1>4

LEMMA LeaderStep ==
  ASSUME IInv, NEW rlog, NEW hi, NEW row, NEW out, LeaderMoves(rlog, hi, row, out)
  PROVE  IInv'
<1> USE DEF LeaderMoves
<1> DEFINE L == Leader
           n == Len(rlog)
<1>1. /\ L \in Replicas
      /\ log'[L] = rlog /\ lastFastPath'[L] = n /\ lastSlowPath'[L] = n
      /\ lastCommitted'[L] = hi /\ clientTable'[L] = row
      /\ \A s \in Replicas \ {L} :
           /\ log'[s] = log[s] /\ lastFastPath'[s] = lastFastPath[s]
           /\ lastSlowPath'[s] = lastSlowPath[s]
           /\ lastCommitted'[s] = lastCommitted[s]
           /\ clientTable'[s] = clientTable[s]
  BY Counters DEF IInv, TypeOK
<1>2. n \in Nat /\ DOMAIN rlog = 1 .. n
  OBVIOUS
<1>3. TypeOK'
  BY <1>1, <1>2 DEF IInv, TypeOK
<1>4. PathsOrdered'
  <2>1. ASSUME NEW s \in Replicas
        PROVE  /\ lastCommitted'[s] <= lastSlowPath'[s]
               /\ lastSlowPath'[s] <= lastFastPath'[s]
               /\ lastFastPath'[s] = Len(log'[s])
    BY <1>1, <1>2, Counters
  <2> QED BY <2>1, <1>1 DEF PathsOrdered
<1>5. LeaderAhead'
  <2>1. ASSUME NEW s \in Replicas \ {L}, NEW k \in 1 .. lastSlowPath[s]
        PROVE  Holds(s, k)'
    <3>1. log[s][k] = log[L][k] /\ k \in DOMAIN log[s]
      BY <2>1 DEF IInv, LeaderAhead, Holds
    <3>2. k \in 1 .. lastSlowPath[L] /\ k \in 1 .. n
      BY <2>1, <1>2, Counters
    <3> HIDE DEF n
    <3> QED BY <3>1, <3>2, <1>1, <1>2 DEF Holds
  <2>2. \A k \in 1 .. n : Holds(L, k)'
    BY <1>1, <1>2 DEF Holds
  <2>3. ASSUME NEW s \in Replicas
        PROVE  /\ lastSlowPath'[s] <= lastSlowPath'[L]
               /\ lastCommitted'[s] <= lastCommitted'[L]
               /\ \A k \in 1 .. lastSlowPath'[s] : Holds(s, k)'
    <3>1. CASE s = L
      BY <3>1, <2>2, <1>1, <1>2
    <3>2. CASE s # L
      BY <3>2, <2>1, <1>1, <1>2, Counters
    <3> QED BY <3>1, <3>2
  <2> QED BY <2>3 DEF LeaderAhead
<1>6. Growth
  <2>1. \A k \in 1 .. lastSlowPath[L] : /\ k \in DOMAIN log'[L]
                                        /\ log'[L][k] = log[L][k]
    BY <1>1, <1>2, Counters
  <2>2. ASSUME NEW r \in Replicas
        PROVE  /\ lastCommitted[r] <= lastCommitted'[r]
               /\ lastSlowPath[r] <= lastSlowPath'[r]
               /\ lastFastPath[r] <= lastFastPath'[r]
               /\ \A k \in 1 .. lastFastPath[r] :
                    k > lastSlowPath'[r] => log'[r][k] = log[r][k]
    <3>1. CASE r = L
      BY <3>1, <1>1, <1>2, Counters
    <3>2. CASE r # L
      BY <3>2, <1>1, Counters
    <3> QED BY <3>1, <3>2
  <2>3. DOMAIN log[L] = 1 .. lastSlowPath[L]
    BY <1>1, Counters
  <2> QED BY <2>1, <2>2, <2>3 DEF Growth
<1>7. /\ \A k, req : Ordered(k, req) => Ordered(k, req)'
      /\ \A k, req : ExecutedAt(k, req) => ExecutedAt(k, req)'
      /\ \A r \in Replicas : \A k : Holds(r, k) => Holds(r, k)'
  BY <1>3, <1>4, <1>5, <1>6, Stability DEF IInv
<1>8. /\ \A k \in 1 .. n : Ordered(k, rlog[k])'
      /\ \A k \in 1 .. hi : ExecutedAt(k, rlog[k])'
  BY <1>1, <1>2 DEF Ordered, ExecutedAt
<1>9. TablesOK'
  <2>1. ASSUME NEW s \in Replicas, NEW c \in Clients,
               NEW e, e = clientTable'[s][c], e.replied
        PROVE  ExecutedAt(e.opnum, [client |-> c, reqid |-> e.lastReqId])'
    <3>1. CASE e = clientTable[s][c]
      <4>1. ExecutedAt(e.opnum, [client |-> c, reqid |-> e.lastReqId])
        BY <2>1, <3>1 DEF IInv, TablesOK
      <4> QED BY <4>1, <1>7
    <3>2. CASE e # clientTable[s][c]
      <4>1. s = L /\ e = row[c]
        BY <2>1, <3>2, <1>1
      <4>2. /\ e.opnum \in 1 .. hi
            /\ rlog[e.opnum] = [client |-> c, reqid |-> e.lastReqId]
        BY <2>1, <3>2, <4>1, <1>1
      <4> QED BY <4>2, <1>8
    <3> QED BY <3>1, <3>2
  <2>2. \A k \in DOMAIN log'[L] :
          log'[L][k].reqid <= clientTable'[L][log'[L][k].client].lastReqId
    BY <1>1, <1>2
  <2>3. RL!Distinct(log'[L])
    BY <1>1
  <2>4. \A s \in Replicas : \A c \in Clients : clientTable'[s][c].replied =>
          ExecutedAt(clientTable[s][c].opnum,
                     [client |-> c, reqid |-> clientTable[s][c].lastReqId])'
    <3> SUFFICES ASSUME NEW s \in Replicas, NEW c \in Clients,
                        clientTable'[s][c].replied
                 PROVE  ExecutedAt(clientTable[s][c].opnum,
                          [client |-> c, reqid |-> clientTable[s][c].lastReqId])'
      OBVIOUS
    <3>1. PICK e : e = clientTable'[s][c]
      OBVIOUS
    <3>2. ExecutedAt(e.opnum, [client |-> c, reqid |-> e.lastReqId])'
      BY <2>1, <3>1
    <3> QED BY <3>1, <3>2 DEF ExecutedAt, Ordered
  <2> QED BY <2>2, <2>3, <2>4 DEF TablesOK, RL!Distinct
<1>10. ASSUME NEW k \in 1 .. hi, HeldByFollowers(k, rlog) PROVE Backed(k)'
  <2>1. PICK S \in SUBSET Followers :
          \/ /\ Cardinality(S) >= QuorumSize - 1
             /\ \A s \in S : k <= lastSlowPath[s]
          \/ /\ Cardinality(S) >= FastQuorumSize - 1
             /\ \A s \in S : k \in DOMAIN log[s] /\ log[s][k] = rlog[k]
    BY <1>10 DEF HeldByFollowers
  <2>2. /\ k \in 1 .. n /\ k \in Nat /\ \A s \in S : s \in Replicas \ {L}
        /\ \A i \in 1 .. k : i \in 1 .. n
    BY <1>2, Counters
  <2>3. \A i \in 1 .. k : Holds(L, i)'
    BY <2>2, <1>1, <1>2 DEF Holds
  <2>4. FastQuorumSize \in Int /\ QuorumSize \in Int
    BY ConfigurationAssumption DEF FastQuorumSize, QuorumSize
  <2>5. CASE Cardinality(S) >= QuorumSize - 1 /\ \A s \in S : k <= lastSlowPath[s]
    <3> DEFINE T == {r \in Replicas : \A i \in 1 .. k : Holds(r, i)'}
    <3>1. ASSUME NEW s \in S, NEW i \in 1 .. k PROVE Holds(s, i)'
      BY <2>2, <2>5, <1>1, <1>5, Counters DEF LeaderAhead
    <3>2. S \cup {Leader} \subseteq T /\ T \subseteq Replicas
      BY <3>1, <2>2, <2>3, <1>1
    <3>3. Cardinality(T) >= QuorumSize
      <4> HIDE DEF T
      <4> QED BY <3>2, <2>4, <2>5, QuorumWithLeader
    <3> QED BY <3>3 DEF Backed, QuorumSize
  <2>6. CASE /\ Cardinality(S) >= FastQuorumSize - 1
             /\ \A s \in S : k \in DOMAIN log[s] /\ log[s][k] = rlog[k]
    <3> DEFINE T == {r \in Replicas : Holds(r, k)'}
    <3>1. ASSUME NEW s \in S PROVE Holds(s, k)'
      BY <2>2, <2>6, <1>1, <1>2 DEF Holds
    <3>2. S \cup {Leader} \subseteq T /\ T \subseteq Replicas
      BY <3>1, <2>2, <2>3, <1>1
    <3>3. Cardinality(T) >= FastQuorumSize
      <4> HIDE DEF T
      <4> QED BY <3>2, <2>4, <2>6, QuorumWithLeader
    <3> QED BY <3>3 DEF Backed, FastQuorumSize
  <2> QED BY <2>1, <2>5, <2>6
<1>11. \A m \in out : /\ MessageOK(m)'
                      /\ m.type = "COMMIT" => Backed(m.opnum)'
  BY <1>8, <1>10 DEF MessageOK
<1>12. \A q \in slowPrepareOKQuorum' \ slowPrepareOKQuorum :
         q[2] \in Followers /\ q[1] \in 1 .. lastSlowPath'[q[2]]
  BY <1>1, Counters
<1>13. \A q \in fastPrepareOKQuorum' \ fastPrepareOKQuorum :
         q[2] \in Followers /\ Holds(q[2], q[1])'
  BY <1>1, <1>2, Counters DEF Holds
<1>14. \A m \in pendingPrepareOKs' \ pendingPrepareOKs :
         m \in msgs /\ m.type = "PREPAREOK"
  OBVIOUS
<1> QED
  BY <1>3, <1>4, <1>5, <1>6, <1>9, <1>11, <1>12, <1>13, <1>14, StepKeepsInvariant

(* CommitUpTo at the leader, and what it leaves.                              *)
LeaderCommits(rlog, old, upto) ==
  /\ rlog \in Seq(Request) /\ old \in [Clients -> ClientTableEntry]
  /\ upto \in Nat /\ lastCommitted[Leader] <= upto /\ upto <= Len(rlog)
  /\ CommitUpTo(Leader, rlog, Len(rlog), old, upto)

LeaderCommitted(rlog, old, upto) ==
  /\ log' = [log EXCEPT ![Leader] = rlog]
  /\ lastSlowPath' = [lastSlowPath EXCEPT ![Leader] = Len(rlog)]
  /\ lastCommitted' = [lastCommitted EXCEPT ![Leader] = upto]
  /\ \E row \in [Clients -> ClientTableEntry] :
       /\ clientTable' = [clientTable EXCEPT ![Leader] = row]
       /\ \A c \in Clients :
            /\ old[c].lastReqId <= row[c].lastReqId
            /\ \/ row[c] = old[c]
               \/ /\ row[c].opnum \in 1 .. upto
                  /\ rlog[row[c].opnum] = [client |-> c, reqid |-> row[c].lastReqId]

LEMMA LeaderCommitUpTo ==
  ASSUME IInv, NEW rlog, NEW old, NEW upto, LeaderCommits(rlog, old, upto)
  PROVE  LeaderCommitted(rlog, old, upto)
<1> USE DEF LeaderCommits, LeaderCommitted
<1> DEFINE lo == lastCommitted[Leader]
           row == StoreReplies(old, rlog, lo, upto)
<1>1. lo \in Nat /\ Len(rlog) \in Nat
  BY Counters
<1>2. Larger(lo, upto) = upto /\ Larger(Len(rlog), upto) = Len(rlog)
  BY <1>1 DEF Larger
<1>3. /\ row \in [Clients -> ClientTableEntry]
      /\ \A c \in Clients :
           /\ old[c].lastReqId <= row[c].lastReqId
           /\ \/ row[c] = old[c]
              \/ /\ row[c].opnum \in lo + 1 .. upto
                 /\ rlog[row[c].opnum] =
                      [client |-> c, reqid |-> row[c].lastReqId]
  <2> HIDE DEF lo, row
  <2>1. row = StoreReplies(old, rlog, lo, upto)
    BY DEF row
  <2> QED BY <2>1, <1>1, StoreRepliesSound
<1>4. \A x \in lo + 1 .. upto : x \in 1 .. upto
  BY <1>1
<1>5. /\ log' = [log EXCEPT ![Leader] = rlog]
      /\ lastSlowPath' = [lastSlowPath EXCEPT ![Leader] = Len(rlog)]
      /\ lastCommitted' = [lastCommitted EXCEPT ![Leader] = upto]
      /\ clientTable' = [clientTable EXCEPT ![Leader] = row]
  BY <1>2 DEF CommitUpTo
<1> HIDE DEF row, lo
<1> QED BY <1>3, <1>4, <1>5

LEMMA TableGrows ==
  ASSUME NEW rlog \in Seq(Request), NEW old \in [Clients -> ClientTableEntry],
         NEW row \in [Clients -> ClientTableEntry],
         \A i \in 1 .. Len(rlog) : rlog[i].reqid <= old[rlog[i].client].lastReqId,
         \A c \in Clients : old[c].lastReqId <= row[c].lastReqId
  PROVE  \A i \in 1 .. Len(rlog) : rlog[i].reqid <= row[rlog[i].client].lastReqId
<1> SUFFICES ASSUME NEW i \in 1 .. Len(rlog)
             PROVE  rlog[i].reqid <= row[rlog[i].client].lastReqId
  OBVIOUS
<1>1. rlog[i] \in Request
  OBVIOUS
<1>2. PICK c \in Clients, n \in Nat : c = rlog[i].client /\ n = rlog[i].reqid
  BY <1>1 DEF Request
<1>3. /\ n <= old[c].lastReqId /\ old[c].lastReqId <= row[c].lastReqId
      /\ old[c].lastReqId \in Nat /\ row[c].lastReqId \in Nat
  BY <1>2 DEF ClientTableEntry
<1>4. n <= row[c].lastReqId
  <2>1. \A x, y, z \in Nat : x <= y /\ y <= z => x <= z
    OBVIOUS
  <2> QED BY <1>3, <2>1
<1> QED BY <1>2, <1>4

LEMMA RepliesOK ==
  ASSUME NEW addresses, NEW rlog \in Seq(Request), NEW lo \in Nat, NEW hi \in Nat,
         hi <= Len(rlog), NEW x \in Replies(addresses, rlog, lo, hi)
  PROVE  /\ x \in Message /\ x.type = "REPLY"
         /\ x.opnum \in 1 .. hi /\ x.req = rlog[x.opnum]
<1>1. PICK i \in lo + 1 .. hi : x = Reply(rlog[i], i)
  BY DEF Replies
<1>2. i \in 1 .. hi /\ i \in 1 .. Len(rlog) /\ i \in Nat
  OBVIOUS
<1>3. rlog[i] \in Request
  BY <1>2
<1> QED BY <1>1, <1>2, <1>3 DEF Reply, Message

LEMMA HandlePrepareOKStep ==
  ASSUME IInv, NEW m \in msgs, m.type = "PREPAREOK", HandlePrepareOK(m)
  PROVE  IInv'
<1> DEFINE L == Leader
           k == m.opnum
           rlog == log[L]
           quorum == IF m.slowpath THEN slowPrepareOKQuorum
                     ELSE fastPrepareOKQuorum
           required == (IF m.slowpath THEN QuorumSize ELSE FastQuorumSize) - 1
           counted == quorum \cup {<<k, m.src>>}
           oks == {s \in Replicas : <<k, s>> \in counted}
           reached == Cardinality(oks) >= required
           upto == IF reached THEN k ELSE lastCommitted[L]
           out == IF ~reached THEN {}
                  ELSE Replies(clientAddresses[L], rlog, lastCommitted[L], k) \cup
                       {Commit(r, k, rlog[k]) : r \in Listeners}
<1>1. /\ m.src \in Followers /\ m.src \in Replicas /\ k \in Nat
      /\ m.req \in Request /\ m.slowpath \in BOOLEAN
      /\ k > lastCommitted[L] /\ k <= lastSlowPath[L] /\ k \in 1 .. lastSlowPath[L]
      /\ ~m.slowpath => m.req = rlog[k]
  <2>1. k \in Nat /\ k > lastCommitted[L] /\ k <= lastSlowPath[L]
    BY Received, MessageFields DEF HandlePrepareOK
  <2> QED
    BY <2>1, Received, MessageFields, Counters
       DEF MessageOK, HandlePrepareOK, Conflicting
<1>2. /\ L \in Replicas /\ rlog \in Seq(Request) /\ Len(rlog) = lastSlowPath[L]
      /\ Len(rlog) = lastFastPath[L] /\ DOMAIN rlog = 1 .. Len(rlog)
      /\ lastCommitted[L] \in Nat /\ lastSlowPath[L] \in Nat
      /\ lastCommitted[L] <= lastSlowPath[L] /\ rlog[k] \in Request
      /\ clientTable[L] \in [Clients -> ClientTableEntry]
  BY <1>1, Counters
<1>3. m.slowpath => k \in 1 .. lastSlowPath[m.src]
  BY Received DEF MessageOK
<1>4. ~m.slowpath => k \in DOMAIN log[m.src] /\ log[m.src][k] = rlog[k]
  <2> SUFFICES ASSUME ~m.slowpath
               PROVE  k \in DOMAIN log[m.src] /\ log[m.src][k] = rlog[k]
    OBVIOUS
  <2>1. Acknowledged(m.src, k, rlog[k])
    BY <1>1, Received DEF MessageOK
  <2>2. CASE k > lastSlowPath[m.src]
    BY <2>1, <2>2, <1>1, Counters DEF Acknowledged
  <2>3. CASE ~(k > lastSlowPath[m.src])
    BY <2>3, <1>1, Counters DEF IInv, LeaderAhead, Holds
  <2> QED BY <2>2, <2>3
<1>5. /\ upto \in Nat /\ lastCommitted[L] <= upto /\ upto <= Len(rlog)
      /\ reached => upto = k
  BY <1>1, <1>2
<1>6. reached => HeldByFollowers(k, rlog)
  <2> SUFFICES ASSUME reached PROVE HeldByFollowers(k, rlog)
    OBVIOUS
  <2>1. CASE m.slowpath
    <3>1. ASSUME NEW s \in oks PROVE s \in Followers /\ k <= lastSlowPath[s]
      BY <2>1, <1>1, <1>3 DEF IInv, QuorumsOK
    <3>2. oks \in SUBSET Followers /\ Cardinality(oks) >= QuorumSize - 1
      BY <2>1, <3>1
    <3> HIDE DEF oks
    <3> QED BY <3>1, <3>2 DEF HeldByFollowers
  <2>2. CASE ~m.slowpath
    <3>1. ASSUME NEW s \in oks
          PROVE  s \in Followers /\ k \in DOMAIN log[s] /\ log[s][k] = rlog[k]
      BY <2>2, <1>1, <1>4 DEF IInv, QuorumsOK, Holds
    <3>2. oks \in SUBSET Followers /\ Cardinality(oks) >= FastQuorumSize - 1
      BY <2>2, <3>1
    <3> HIDE DEF oks
    <3> QED BY <3>1, <3>2 DEF HeldByFollowers
  <2> QED BY <2>1, <2>2, <1>1
<1>7. CommitUpTo(L, rlog, Len(rlog), clientTable[L], upto)
  BY <1>2 DEF HandlePrepareOK
<1>8. msgs' \subseteq msgs \cup out /\ drops' = drops
  BY DEF HandlePrepareOK, Receive
<1>9. /\ slowPrepareOKQuorum' =
           IF m.slowpath THEN counted ELSE slowPrepareOKQuorum
      /\ fastPrepareOKQuorum' =
           IF m.slowpath THEN fastPrepareOKQuorum ELSE counted
  BY DEF HandlePrepareOK
<1>10. /\ slowPrepareOKQuorum' \subseteq Nat \X Replicas
       /\ fastPrepareOKQuorum' \subseteq Nat \X Replicas
       /\ \A q \in slowPrepareOKQuorum' \ slowPrepareOKQuorum :
            q[2] \in Followers /\ q[1] \in 1 .. lastSlowPath[q[2]]
       /\ \A q \in fastPrepareOKQuorum' \ fastPrepareOKQuorum :
            /\ q[2] \in Followers /\ q[1] \in 1 .. Len(rlog)
            /\ q[1] \in DOMAIN log[q[2]] /\ log[q[2]][q[1]] = rlog[q[1]]
  <2>1. /\ slowPrepareOKQuorum \subseteq Nat \X Replicas
        /\ fastPrepareOKQuorum \subseteq Nat \X Replicas
    BY DEF IInv, TypeOK
  <2> HIDE DEF rlog, k
  <2> QED BY <2>1, <1>1, <1>2, <1>3, <1>4, <1>9
<1>11. lastFastPath' = [lastFastPath EXCEPT ![L] = Len(rlog)]
  BY <1>2 DEF HandlePrepareOK, IInv, TypeOK
<1>12. /\ UNCHANGED <<pendingPrepares, requestedTransfer, lastReqId, drops>>
       /\ clientAddresses' \in [Replicas -> SUBSET Clients]
       /\ pendingPrepareOKs' \subseteq pendingPrepareOKs
  BY <1>8 DEF HandlePrepareOK, pendingVars, IInv, TypeOK
<1>13. RL!Distinct(rlog)
  BY DEF IInv, TablesOK
<1>14. \A i \in 1 .. Len(rlog) :
         rlog[i].reqid <= clientTable[L][rlog[i].client].lastReqId
  BY <1>2 DEF IInv, TablesOK
<1>15. ASSUME NEW x \in out
       PROVE  /\ x \in Message
              /\ \/ /\ x.type = "REPLY"
                    /\ x.opnum \in 1 .. upto /\ x.req = rlog[x.opnum]
                 \/ /\ x.type = "COMMIT" /\ x.dst \in Followers
                    /\ x.opnum \in 1 .. upto /\ x.req = rlog[x.opnum]
                    /\ HeldByFollowers(x.opnum, rlog)
  <2>0. reached /\ upto = k
    BY <1>5
  <2>1. CASE x \in Replies(clientAddresses[L], rlog, lastCommitted[L], k)
    <3> HIDE DEF rlog
    <3> QED BY <2>0, <2>1, <1>1, <1>2, RepliesOK
  <2>2. CASE \E r \in Listeners : x = Commit(r, k, rlog[k])
    <3>1. PICK r \in Listeners : x = Commit(r, k, rlog[k])
      BY <2>2
    <3>2. r \in Followers /\ r \in Replicas /\ k \in 1 .. k
      BY <1>1, Counters DEF Listeners
    <3> HIDE DEF reached, upto, rlog
    <3> QED BY <2>0, <3>1, <3>2, <1>1, <1>2, <1>6 DEF Commit, Message
  <2> QED BY <2>1, <2>2
<1> HIDE DEF rlog, quorum, required, counted, oks, reached, upto, out
<1> DEFINE old == clientTable[L]
<1>16. /\ old \in [Clients -> ClientTableEntry]
       /\ \A i \in 1 .. Len(rlog) :
            rlog[i].reqid <= old[rlog[i].client].lastReqId
       /\ LeaderCommits(rlog, old, upto)
  BY <1>2, <1>5, <1>7, <1>14 DEF LeaderCommits
<1> HIDE DEF old
<1>17. PICK row \in [Clients -> ClientTableEntry] :
         /\ log' = [log EXCEPT ![L] = rlog]
         /\ lastSlowPath' = [lastSlowPath EXCEPT ![L] = Len(rlog)]
         /\ lastCommitted' = [lastCommitted EXCEPT ![L] = upto]
         /\ clientTable' = [clientTable EXCEPT ![L] = row]
         /\ \A c \in Clients :
              /\ old[c].lastReqId <= row[c].lastReqId
              /\ \/ row[c] = old[c]
                 \/ /\ row[c].opnum \in 1 .. upto
                    /\ rlog[row[c].opnum] =
                         [client |-> c, reqid |-> row[c].lastReqId]
  <2>1. LeaderCommitted(rlog, old, upto)
    BY <1>16, LeaderCommitUpTo
  <2> QED BY <2>1 DEF LeaderCommitted
<1>18. \A i \in 1 .. Len(rlog) : rlog[i].reqid <= row[rlog[i].client].lastReqId
  BY <1>2, <1>16, <1>17, TableGrows
<1>19. LeaderMoves(rlog, upto, row, out)
  <2>1. \A c \in Clients : row[c].replied =>
          \/ row[c] = clientTable[L][c]
          \/ /\ row[c].opnum \in 1 .. upto
             /\ rlog[row[c].opnum] = [client |-> c, reqid |-> row[c].lastReqId]
    BY <1>17 DEF old
  <2>2. /\ lastSlowPath[L] <= Len(rlog) /\ out \subseteq Message
        /\ \A i \in 1 .. lastSlowPath[L] : rlog[i] = log[L][i]
    BY <1>2, <1>15 DEF rlog
  <2>3. \A x \in out :
          \/ /\ x.type = "REPLY"
             /\ x.opnum \in 1 .. upto /\ x.req = rlog[x.opnum]
          \/ /\ x.type = "COMMIT" /\ x.dst \in Followers
             /\ x.opnum \in 1 .. upto /\ x.req = rlog[x.opnum]
             /\ HeldByFollowers(x.opnum, rlog)
    BY <1>15
  <2> QED
    BY <2>1, <2>2, <2>3, <1>2, <1>5, <1>8, <1>10, <1>11, <1>12, <1>13, <1>17, <1>18
       DEF LeaderMoves
<1> QED BY <1>19, LeaderStep

(* The leader's log stays without repetition when a new request is appended.  *)
LEMMA AppendNew ==
  ASSUME NEW rlog \in Seq(Request), NEW old \in [Clients -> ClientTableEntry],
         NEW req \in Request, req.reqid > old[req.client].lastReqId,
         \A i \in 1 .. Len(rlog) : rlog[i].reqid <= old[rlog[i].client].lastReqId,
         RL!Distinct(rlog)
  PROVE  RL!Distinct(Append(rlog, req))
<1>1. req.reqid \in Nat /\ old[req.client].lastReqId \in Nat
  BY DEF Request, ClientTableEntry
<1>2. \A i \in 1 .. Len(rlog) : rlog[i] # req
  BY <1>1
<1>3. /\ \A i, j \in 1 .. Len(rlog) : rlog[i] = rlog[j] => i = j
      /\ DOMAIN Append(rlog, req) = 1 .. Len(rlog) + 1 /\ Len(rlog) \in Nat
  BY DEF RL!Distinct
<1>4. \A i \in 1 .. Len(rlog) + 1 :
        Append(rlog, req)[i] = IF i = Len(rlog) + 1 THEN req ELSE rlog[i]
  OBVIOUS
<1> DEFINE new == Append(rlog, req)
<1> HIDE DEF new
<1>5. ASSUME NEW i \in 1 .. Len(rlog) + 1, NEW j \in 1 .. Len(rlog) + 1,
             new[i] = new[j]
      PROVE  i = j
  <2>1. /\ i # Len(rlog) + 1 => i \in 1 .. Len(rlog)
        /\ j # Len(rlog) + 1 => j \in 1 .. Len(rlog)
    BY <1>3
  <2>2. CASE i = Len(rlog) + 1
    BY <2>1, <2>2, <1>2, <1>4, <1>5 DEF new
  <2>3. CASE j = Len(rlog) + 1
    BY <2>1, <2>3, <1>2, <1>4, <1>5 DEF new
  <2>4. CASE i # Len(rlog) + 1 /\ j # Len(rlog) + 1
    BY <2>1, <2>4, <1>3, <1>4, <1>5 DEF new
  <2> QED BY <2>2, <2>3, <2>4
<1> QED BY <1>3, <1>5 DEF RL!Distinct, new

LEMMA LeaderHandleRequestStep ==
  ASSUME IInv, NEW m \in msgs, m.type = "REQUEST", NEW resent \in BOOLEAN,
         LeaderHandleRequest(m, resent)
  PROVE  IInv'
<1> DEFINE L == Leader
           k == lastSlowPath[L] + 1
           ready == {p \in pendingPrepareOKs : p.opnum = k}
           matching == {p \in ready : p.req = m.req}
           oks == {p.src : p \in matching}
           quorum == oks # {} /\ Cardinality(oks) >= FastQuorumSize - 1
           table == clientTable[L]
           old == UpdateClientTable(table, {m.req})
           rlog == Append(log[L], m.req)
           addresses == clientAddresses[L] \cup {m.req.client}
           upto == IF quorum THEN k ELSE lastCommitted[L]
           prepares == {Prepare(r, k, m.req) : r \in Listeners}
           commits == {Commit(r, k, m.req) : r \in Listeners}
           replies == Replies(addresses, rlog, lastCommitted[L], k)
           out == (IF resent THEN prepares ELSE {}) \cup
                  (IF quorum THEN commits \cup replies ELSE {})
<1>1. /\ m.req \in Request /\ m.req.client \in Clients
      /\ m.req.reqid > table[m.req.client].lastReqId
  BY Received, MessageFields DEF Request, LeaderHandleRequest
<1>2. /\ L \in Replicas /\ log[L] \in Seq(Request) /\ Len(log[L]) = lastSlowPath[L]
      /\ lastCommitted[L] \in Nat /\ lastSlowPath[L] \in Nat
      /\ lastCommitted[L] <= lastSlowPath[L]
      /\ table \in [Clients -> ClientTableEntry]
  BY Counters
<1>3. /\ rlog \in Seq(Request) /\ Len(rlog) = k /\ k \in Nat /\ rlog[k] = m.req
      /\ \A i \in 1 .. lastSlowPath[L] : rlog[i] = log[L][i]
      /\ k \in 1 .. k /\ lastSlowPath[L] <= k
  BY <1>1, <1>2
<1>4. /\ old \in [Clients -> ClientTableEntry]
      /\ \A c \in Clients : /\ table[c].lastReqId <= old[c].lastReqId
                            /\ old[c].replied => old[c] = table[c]
      /\ m.req.reqid <= old[m.req.client].lastReqId
  <2> HIDE DEF old, table
  <2>1. {m.req} \subseteq Request
    BY <1>1
  <2> QED BY <2>1, <1>2, UpdateClientTableSound DEF old
<1>5. \A i \in 1 .. Len(log[L]) : log[L][i].reqid <= table[log[L][i].client].lastReqId
  BY <1>2 DEF IInv, TablesOK
<1>6. \A i \in 1 .. Len(rlog) : rlog[i].reqid <= old[rlog[i].client].lastReqId
  <2> HIDE DEF old, table
  <2>1. \A i \in 1 .. Len(log[L]) :
          log[L][i].reqid <= old[log[L][i].client].lastReqId
    BY <1>2, <1>4, <1>5, TableGrows
  <2> QED BY <2>1, <1>2, <1>3, <1>4
<1>7. RL!Distinct(rlog)
  <2>1. RL!Distinct(log[L])
    BY DEF IInv, TablesOK
  <2> HIDE DEF table
  <2> QED BY <2>1, <1>1, <1>2, <1>5, AppendNew
<1>8. ASSUME NEW s \in oks
      PROVE  s \in Followers /\ k \in DOMAIN log[s] /\ log[s][k] = rlog[k]
  <2>1. PICK p \in pendingPrepareOKs : p.opnum = k /\ p.req = m.req /\ p.src = s
    OBVIOUS
  <2>2. p.type = "PREPAREOK" /\ p \in Message /\ MessageOK(p)
    BY DEF IInv, MessagesOK, TypeOK
  <2>3. /\ s \in Followers /\ s \in Replicas /\ p.slowpath \in BOOLEAN
        /\ IF p.slowpath THEN k \in 1 .. lastSlowPath[s]
           ELSE Acknowledged(s, k, m.req)
    BY <2>1, <2>2, MessageFields, Counters DEF MessageOK
  <2>4. lastSlowPath[s] < k /\ lastSlowPath[s] \in Nat
    BY <2>3, <1>2, Counters
  <2>5. Acknowledged(s, k, m.req)
    BY <2>3, <2>4, <1>3
  <2> HIDE DEF rlog
  <2> QED BY <2>3, <2>4, <2>5, <1>3, Counters DEF Acknowledged
<1>9. quorum => HeldByFollowers(k, rlog)
  <2> SUFFICES ASSUME quorum PROVE HeldByFollowers(k, rlog)
    OBVIOUS
  <2>1. oks \in SUBSET Followers /\ Cardinality(oks) >= FastQuorumSize - 1
    BY <1>8
  <2>2. \A s \in oks : k \in DOMAIN log[s] /\ log[s][k] = rlog[k]
    BY <1>8
  <2> HIDE DEF oks, rlog, k
  <2> QED BY <2>1, <2>2 DEF HeldByFollowers
<1>10. /\ upto \in Nat /\ lastCommitted[L] <= upto /\ upto <= Len(rlog)
       /\ quorum => upto = k
  BY <1>2, <1>3
<1>11. CommitUpTo(L, rlog, Len(rlog), old, upto)
  BY <1>3 DEF LeaderHandleRequest
<1>12. msgs' \subseteq msgs \cup out /\ drops' = drops
  BY DEF LeaderHandleRequest, Receive
<1>13. /\ slowPrepareOKQuorum' = slowPrepareOKQuorum
       /\ fastPrepareOKQuorum' = fastPrepareOKQuorum \cup ({k} \X oks)
  BY DEF LeaderHandleRequest
<1>14. /\ slowPrepareOKQuorum' \subseteq Nat \X Replicas
       /\ fastPrepareOKQuorum' \subseteq Nat \X Replicas
       /\ \A q \in slowPrepareOKQuorum' \ slowPrepareOKQuorum :
            q[2] \in Followers /\ q[1] \in 1 .. lastSlowPath[q[2]]
       /\ \A q \in fastPrepareOKQuorum' \ fastPrepareOKQuorum :
            /\ q[2] \in Followers /\ q[1] \in 1 .. Len(rlog)
            /\ q[1] \in DOMAIN log[q[2]] /\ log[q[2]][q[1]] = rlog[q[1]]
  <2>1. /\ slowPrepareOKQuorum \subseteq Nat \X Replicas
        /\ fastPrepareOKQuorum \subseteq Nat \X Replicas
        /\ \A s \in oks : s \in Replicas
    BY <1>8, Counters DEF IInv, TypeOK
  <2>2. \A q \in {k} \X oks : q[1] = k /\ q[2] \in oks
    OBVIOUS
  <2> HIDE DEF rlog, k, oks
  <2> QED BY <2>1, <2>2, <1>3, <1>8, <1>13
<1>15. lastFastPath' = [lastFastPath EXCEPT ![L] = Len(rlog)]
  BY <1>3 DEF LeaderHandleRequest
<1>16. /\ UNCHANGED <<pendingPrepares, requestedTransfer, lastReqId, drops>>
       /\ clientAddresses' \in [Replicas -> SUBSET Clients]
       /\ pendingPrepareOKs' \subseteq pendingPrepareOKs
  BY <1>1, <1>12 DEF LeaderHandleRequest, IInv, TypeOK
<1>17. ASSUME NEW x \in out
       PROVE  /\ x \in Message
              /\ \/ /\ x.type = "REPLY"
                    /\ x.opnum \in 1 .. upto /\ x.req = rlog[x.opnum]
                 \/ /\ x.type = "PREPARE" /\ x.dst \in Followers
                    /\ x.opnum \in 1 .. Len(rlog) /\ x.req = rlog[x.opnum]
                 \/ /\ x.type = "COMMIT" /\ x.dst \in Followers
                    /\ x.opnum \in 1 .. upto /\ x.req = rlog[x.opnum]
                    /\ HeldByFollowers(x.opnum, rlog)
  <2>1. CASE quorum /\ x \in replies
    <3>1. upto = k
      BY <2>1, <1>10
    <3> HIDE DEF rlog, k, upto, quorum
    <3> QED BY <2>1, <3>1, <1>2, <1>3, RepliesOK
  <2>2. CASE x \in prepares
    <3>1. PICK r \in Listeners : x = Prepare(r, k, m.req)
      BY <2>2
    <3>2. r \in Followers /\ r \in Replicas
      BY Counters DEF Listeners
    <3> HIDE DEF rlog, k, upto, quorum
    <3> QED BY <3>1, <3>2, <1>1, <1>3 DEF Prepare, Message
  <2>3. CASE quorum /\ x \in commits
    <3>1. PICK r \in Listeners : x = Commit(r, k, m.req)
      BY <2>3
    <3>2. r \in Followers /\ r \in Replicas /\ upto = k
      BY <2>3, <1>10, Counters DEF Listeners
    <3> HIDE DEF rlog, k, upto, quorum
    <3> QED BY <2>3, <3>1, <3>2, <1>1, <1>3, <1>9 DEF Commit, Message
  <2> QED BY <2>1, <2>2, <2>3
<1> HIDE DEF rlog, quorum, oks, ready, matching, upto, out, old, prepares,
             commits, replies, addresses, k
<1>18. LeaderCommits(rlog, old, upto)
  BY <1>3, <1>4, <1>10, <1>11 DEF LeaderCommits
<1>19. PICK row \in [Clients -> ClientTableEntry] :
         /\ log' = [log EXCEPT ![L] = rlog]
         /\ lastSlowPath' = [lastSlowPath EXCEPT ![L] = Len(rlog)]
         /\ lastCommitted' = [lastCommitted EXCEPT ![L] = upto]
         /\ clientTable' = [clientTable EXCEPT ![L] = row]
         /\ \A c \in Clients :
              /\ old[c].lastReqId <= row[c].lastReqId
              /\ \/ row[c] = old[c]
                 \/ /\ row[c].opnum \in 1 .. upto
                    /\ rlog[row[c].opnum] =
                         [client |-> c, reqid |-> row[c].lastReqId]
  <2>1. LeaderCommitted(rlog, old, upto)
    BY <1>18, LeaderCommitUpTo
  <2> QED BY <2>1 DEF LeaderCommitted
<1>20. \A i \in 1 .. Len(rlog) : rlog[i].reqid <= row[rlog[i].client].lastReqId
  BY <1>3, <1>4, <1>6, <1>19, TableGrows
<1>21. LeaderMoves(rlog, upto, row, out)
  <2>1. \A c \in Clients : row[c].replied =>
          \/ row[c] = clientTable[L][c]
          \/ /\ row[c].opnum \in 1 .. upto
             /\ rlog[row[c].opnum] = [client |-> c, reqid |-> row[c].lastReqId]
    BY <1>4, <1>19
  <2>2. lastSlowPath[L] <= Len(rlog) /\ out \subseteq Message
    BY <1>3, <1>17
  <2>3. \A x \in out :
          \/ /\ x.type = "REPLY"
             /\ x.opnum \in 1 .. upto /\ x.req = rlog[x.opnum]
          \/ /\ x.type = "PREPARE" /\ x.dst \in Followers
             /\ x.opnum \in 1 .. Len(rlog) /\ x.req = rlog[x.opnum]
          \/ /\ x.type = "COMMIT" /\ x.dst \in Followers
             /\ x.opnum \in 1 .. upto /\ x.req = rlog[x.opnum]
             /\ HeldByFollowers(x.opnum, rlog)
    BY <1>17
  <2> QED
    BY <2>1, <2>2, <2>3, <1>3, <1>7, <1>10, <1>12, <1>14, <1>15, <1>16, <1>19,
       <1>20
       DEF LeaderMoves
<1> QED BY <1>21, LeaderStep

-----------------------------------------------------------------------------
(* The inductive invariant.                                                   *)

LEMMA InitOK == Init => IInv
<1> SUFFICES ASSUME Init PROVE IInv
  OBVIOUS
<1> USE DEF Init
<1>1. Leader \in Replicas /\ Followers \subseteq Replicas
  BY DEF Replicas
<1>2. TypeOK
  BY FastPaxosAssumption DEF TypeOK, NoEntry, ClientTableEntry
<1>3. PathsOrdered
  BY <1>1 DEF PathsOrdered
<1>4. LeaderAhead
  BY <1>1 DEF LeaderAhead
<1>5. MessagesOK /\ QuorumsOK /\ CommitBackedByQuorum
  BY DEF MessagesOK, QuorumsOK, CommitBackedByQuorum
<1>6. TablesOK
  BY <1>1 DEF TablesOK, NoEntry, RL!Distinct
<1> QED BY <1>2, <1>3, <1>4, <1>5, <1>6 DEF IInv

LEMMA DeliverStep ==
  ASSUME IInv, NEW m \in msgs, Deliver(m)
  PROVE  IInv'
<1>1. CASE m.type = "REQUEST" /\ HandleDuplicateRequest(m.dst, m)
  BY <1>1, HandleDuplicateRequestStep
<1>2. CASE /\ m.type = "REQUEST" /\ m.dst \in Followers
           /\ FollowerHandleRequest(m.dst, m)
  BY <1>2, FollowerHandleRequestStep
<1>3. CASE /\ m.type = "REQUEST" /\ m.dst = Leader
           /\ \E resent \in BOOLEAN : LeaderHandleRequest(m, resent)
  BY <1>3, LeaderHandleRequestStep
<1>4. CASE m.type = "PREPARE" /\ HandleOldPrepare(m.dst, m)
  BY <1>4, HandleOldPrepareStep
<1>5. CASE m.type = "PREPARE" /\ HandleEarlyPrepare(m.dst, m)
  BY <1>5, HandleEarlyPrepareStep
<1>6. CASE m.type = "PREPARE" /\ HandlePrepare(m.dst, m)
  BY <1>6, HandlePrepareStep
<1>7. CASE m.type = "PREPAREOK" /\ HandleOldPrepareOK(m)
  BY <1>7, HandleOldPrepareOKStep
<1>8. CASE m.type = "PREPAREOK" /\ DeferPrepareOK(m)
  BY <1>8, DeferPrepareOKStep
<1>9. CASE m.type = "PREPAREOK" /\ HandleConflictingPrepareOK(m)
  BY <1>9, HandleConflictingPrepareOKStep
<1>10. CASE m.type = "PREPAREOK" /\ HandlePrepareOK(m)
  BY <1>10, HandlePrepareOKStep
<1>11. CASE m.type = "COMMIT" /\ HandleUselessCommit(m.dst, m)
  BY <1>11, HandleUselessCommitStep
<1>12. CASE m.type = "COMMIT" /\ HandleEarlyCommit(m.dst, m)
  BY <1>12, HandleEarlyCommitStep
<1>13. CASE m.type = "COMMIT" /\ HandleCommit(m.dst, m)
  BY <1>13, HandleCommitStep
<1>14. CASE /\ m.type = "REQUESTSTATETRANSFER"
            /\ HandleRequestStateTransfer(m.dst, m)
  BY <1>14, HandleRequestStateTransferStep
<1>15. CASE m.type = "STATETRANSFER" /\ HandleStateTransfer(m.dst, m)
  BY <1>15, HandleStateTransferStep
<1> QED
  BY <1>1, <1>2, <1>3, <1>4, <1>5, <1>6, <1>7, <1>8, <1>9, <1>10, <1>11, <1>12,
     <1>13, <1>14, <1>15 DEF Deliver

LEMMA NextStep ==
  ASSUME IInv, [Next]_vars
  PROVE  IInv'
<1>1. CASE \E m \in msgs : Deliver(m)
  BY <1>1, DeliverStep
<1>2. CASE \E m \in msgs : Drop(m)
  BY <1>2, DropStep
<1>3. CASE \E c \in Clients : Invoke(c) \/ ResendRequest(c)
  BY <1>3, ClientsStep
<1>4. CASE \/ ResendPrepareTimeout
           \/ \E r \in Replicas : StateTransferTimeout(r)
  BY <1>4, QuietTimersStep
<1>5. CASE UNCHANGED vars
  BY <1>5, SilentStep DEF vars, pendingVars, IInv, TypeOK
<1> QED BY <1>1, <1>2, <1>3, <1>4, <1>5 DEF Next, Timeout

(* Whatever is lost, repeated or reordered, the leader's log is the only order *)
(* there is and every message, table and quorum agrees with it.             *)
THEOREM Invariance == Spec => []IInv
<1>1. Init => IInv
  BY InitOK
<1>2. IInv /\ [Next]_vars => IInv'
  BY NextStep
<1> QED BY <1>1, <1>2, PTL DEF Spec

(* Every variable keeps its type: no handler of replica.cc indexes past a log  *)
(* or counts below 0.                                                       *)
THEOREM TypeCorrect == Spec => []TypeOK
<1>1. IInv => TypeOK
  BY DEF IInv
<1> QED BY <1>1, Invariance, PTL

(* The ASSERTs on the path counters hold after every handler.                 *)
THEOREM CountersOrdered == Spec => []PathsOrdered
<1>1. IInv => PathsOrdered
  BY DEF IInv
<1> QED BY <1>1, Invariance, PTL

(* A slow-path PREPAREOK matches the leader's log (replica.cc:561).            *)
THEOREM SlowPathSound == Spec => []SlowPathMatches
<1>1. ASSUME IInv PROVE SlowPathMatches
  <2>1. \A r \in Replicas : \A k \in 1 .. lastSlowPath[r] : Holds(r, k)
    BY <1>1 DEF IInv, LeaderAhead
  <2>2. ASSUME NEW m \in msgs, m.type = "PREPAREOK", m.slowpath
        PROVE  Holds(m.src, m.opnum) /\ m.req = log[Leader][m.opnum]
    <3>1. /\ m.src \in Replicas /\ m.opnum \in 1 .. lastSlowPath[m.src]
          /\ Ordered(m.opnum, m.req)
      BY <1>1, <2>2, Received, Counters DEF MessageOK
    <3> QED BY <2>1, <3>1 DEF Ordered
  <2> QED BY <2>1, <2>2 DEF SlowPathMatches
<1> QED BY <1>1, Invariance, PTL

(* What the leader tells the followers to commit is on enough of them.        *)
THEOREM CommitsSound == Spec => []CommitBackedByQuorum
<1>1. IInv => CommitBackedByQuorum
  BY DEF IInv
<1> QED BY <1>1, Invariance, PTL

(* A client never sees a result the leader did not compute.                   *)
THEOREM RepliesSound == Spec => []RepliesFromLeadersOrder
<1>1. ASSUME IInv PROVE RepliesFromLeadersOrder
  BY <1>1, Received DEF MessageOK, RepliesFromLeadersOrder
<1> QED BY <1>1, Invariance, PTL

-----------------------------------------------------------------------------
(* Fast Paxos implements the replicated log.                                  *)

(* A step changes the log and the commits of one replica at most, and takes    *)
(* neither a commit nor an entry of the leader back.                        *)
OneAdvances ==
  /\ \E r \in Replicas : \A s \in Replicas \ {r} :
       log'[s] = log[s] /\ lastCommitted'[s] = lastCommitted[s]
  /\ \A r \in Replicas : lastCommitted[r] <= lastCommitted'[r]
  /\ \A k \in DOMAIN log[Leader] : log'[Leader][k] = log[Leader][k]

LEMMA QuietAdvances ==
  ASSUME IInv, UNCHANGED <<log, lastCommitted>>
  PROVE  OneAdvances
BY Counters DEF OneAdvances

LEMMA MoveAdvances ==
  ASSUME IInv, NEW r \in Replicas, NEW rlog, NEW n, NEW k,
         log' = [log EXCEPT ![r] = rlog],
         n = lastCommitted[r] \/ (n = Larger(lastCommitted[r], k) /\ k \in Nat),
         lastCommitted' = [lastCommitted EXCEPT ![r] = n],
         r = Leader => \A i \in DOMAIN log[Leader] : rlog[i] = log[Leader][i]
  PROVE  OneAdvances
<1>1. \A s \in Replicas : lastCommitted[s] \in Nat
  BY Counters
<1>2. lastCommitted[r] <= n
  BY <1>1, LargerIsMax
<1>3. /\ log'[r] = rlog /\ lastCommitted'[r] = n
      /\ \A s \in Replicas \ {r} :
           log'[s] = log[s] /\ lastCommitted'[s] = lastCommitted[s]
  BY DEF IInv, TypeOK
<1> QED BY <1>1, <1>2, <1>3, Counters DEF OneAdvances

LEMMA DeliverAdvances ==
  ASSUME IInv, NEW m \in msgs, Deliver(m)
  PROVE  OneAdvances
<1>1. CASE UNCHANGED logVars
  BY <1>1, QuietAdvances DEF logVars
<1>2. CASE /\ m.type = "REQUEST" /\ m.dst \in Followers
           /\ FollowerHandleRequest(m.dst, m)
  <2>1. m.dst \in Replicas /\ m.dst # Leader
    BY <1>2, Counters
  <2>2. /\ log' = [log EXCEPT ![m.dst] = Append(log[m.dst], m.req)]
        /\ lastCommitted' = [lastCommitted EXCEPT ![m.dst] = lastCommitted[m.dst]]
    BY <1>2, <2>1 DEF FollowerHandleRequest, IInv, TypeOK
  <2> QED BY <2>1, <2>2, MoveAdvances
<1>3. CASE \E resent \in BOOLEAN : LeaderHandleRequest(m, resent)
  <2>1. \E n \in {lastCommitted[Leader], lastSlowPath[Leader] + 1} :
          /\ log' = [log EXCEPT ![Leader] = Append(log[Leader], m.req)]
          /\ lastCommitted' = [lastCommitted EXCEPT
                                 ![Leader] = Larger(lastCommitted[Leader], n)]
    BY <1>3 DEF LeaderHandleRequest, CommitUpTo
  <2>2. \A i \in DOMAIN log[Leader] :
          Append(log[Leader], m.req)[i] = log[Leader][i]
    BY Counters
  <2>3. /\ lastCommitted[Leader] \in Nat /\ lastSlowPath[Leader] + 1 \in Nat
        /\ Leader \in Replicas
    BY Counters
  <2> QED BY <2>1, <2>2, <2>3, MoveAdvances
<1>4. CASE m.type = "PREPARE" /\ HandlePrepare(m.dst, m)
  <2>1. m.dst \in Replicas /\ m.dst # Leader
    BY <1>4, Counters, Received DEF MessageOK
  <2>2. /\ log' = [log EXCEPT ![m.dst] = Placed(m.dst, m.opnum, m.req)]
        /\ lastCommitted' = [lastCommitted EXCEPT ![m.dst] = lastCommitted[m.dst]]
    BY <1>4, <2>1 DEF HandlePrepare, IInv, TypeOK
  <2> QED BY <2>1, <2>2, MoveAdvances
<1>5. CASE m.type = "PREPAREOK" /\ HandlePrepareOK(m)
  <2>1. \E n \in {lastCommitted[Leader], m.opnum} :
          /\ log' = [log EXCEPT ![Leader] = log[Leader]]
          /\ lastCommitted' = [lastCommitted EXCEPT
                                 ![Leader] = Larger(lastCommitted[Leader], n)]
    BY <1>5 DEF HandlePrepareOK, CommitUpTo
  <2>2. lastCommitted[Leader] \in Nat /\ m.opnum \in Nat /\ Leader \in Replicas
    BY <1>5, Counters, Received, MessageFields
  <2>3. PICK n \in {lastCommitted[Leader], m.opnum}, rlog \in {log[Leader]} :
          /\ log' = [log EXCEPT ![Leader] = rlog]
          /\ lastCommitted' = [lastCommitted EXCEPT
                                 ![Leader] = Larger(lastCommitted[Leader], n)]
    BY <2>1
  <2> QED BY <2>2, <2>3, MoveAdvances
<1>6. CASE m.type = "COMMIT" /\ HandleCommit(m.dst, m)
  <2>1. m.dst \in Replicas /\ m.dst # Leader /\ m.opnum \in Nat
    BY <1>6, Counters, Received, MessageFields DEF MessageOK
  <2>2. \E rlog :
          /\ log' = [log EXCEPT ![m.dst] = rlog]
          /\ lastCommitted' = [lastCommitted EXCEPT
               ![m.dst] = Larger(lastCommitted[m.dst], m.opnum)]
    BY <1>6 DEF HandleCommit, CommitUpTo
  <2> QED BY <2>1, <2>2, MoveAdvances
<1>7. CASE m.type = "STATETRANSFER" /\ HandleStateTransfer(m.dst, m)
  <2>1. m.dst \in Replicas /\ m.dst # Leader /\ m.opnum \in Nat
    BY <1>7, Counters, Received, MessageFields DEF MessageOK
  <2>2. \E rlog :
          /\ log' = [log EXCEPT ![m.dst] = rlog]
          /\ lastCommitted' = [lastCommitted EXCEPT
               ![m.dst] = Larger(lastCommitted[m.dst], m.opnum)]
    BY <1>7 DEF HandleStateTransfer
  <2> QED BY <2>1, <2>2, MoveAdvances
<1> QED
  BY <1>1, <1>2, <1>3, <1>4, <1>5, <1>6, <1>7
     DEF Deliver, HandleDuplicateRequest, HandleOldPrepare, HandleEarlyPrepare,
         HandleOldPrepareOK, DeferPrepareOK, HandleConflictingPrepareOK,
         HandleUselessCommit, HandleEarlyCommit, HandleRequestStateTransfer

LEMMA NextAdvances ==
  ASSUME IInv, [Next]_vars
  PROVE  OneAdvances
<1>1. CASE \E m \in msgs : Deliver(m)
  BY <1>1, DeliverAdvances
<1>2. CASE ~\E m \in msgs : Deliver(m)
  <2>1. UNCHANGED logVars
    BY <1>2 DEF Next, Timeout, vars, Drop, Invoke, ResendRequest,
                ResendPrepareTimeout, StateTransferTimeout
  <2> QED BY <2>1, QuietAdvances DEF logVars
<1> QED BY <1>1, <1>2

(* An executed prefix is a prefix of the leader's log.                        *)
LEMMA ExecutedPrefix ==
  ASSUME IInv, NEW r \in Replicas
  PROVE  /\ Executed[r] \in Seq(Request) /\ Len(Executed[r]) = lastCommitted[r]
         /\ DOMAIN Executed[r] = 1 .. lastCommitted[r]
         /\ \A i \in 1 .. lastCommitted[r] :
              Executed[r][i] = log[Leader][i] /\ i \in DOMAIN log[Leader]
<1>1. /\ log[r] \in Seq(Request) /\ lastCommitted[r] \in 0 .. Len(log[r])
      /\ lastCommitted[r] <= lastSlowPath[r] /\ lastSlowPath[r] \in Nat
  BY Counters
<1>2. Executed[r] = SubSeq(log[r], 1, lastCommitted[r])
  BY DEF Executed
<1>3. /\ Executed[r] \in Seq(Request) /\ Len(Executed[r]) = lastCommitted[r]
      /\ \A i \in 1 .. lastCommitted[r] : Executed[r][i] = log[r][i]
  BY <1>1, <1>2
<1>4. \A i \in 1 .. lastCommitted[r] :
        log[r][i] = log[Leader][i] /\ i \in DOMAIN log[Leader]
  BY <1>1 DEF IInv, LeaderAhead, Holds
<1> QED BY <1>1, <1>3, <1>4

(* The same of every replica, as one formula that can be primed.              *)
ExecutedPrefixes ==
  \A r \in Replicas :
    /\ Executed[r] \in Seq(Request) /\ Len(Executed[r]) = lastCommitted[r]
    /\ DOMAIN Executed[r] = 1 .. lastCommitted[r]
    /\ \A i \in 1 .. lastCommitted[r] :
         Executed[r][i] = log[Leader][i] /\ i \in DOMAIN log[Leader]

LEMMA ExecutedPrefixesOK == IInv => ExecutedPrefixes
BY ExecutedPrefix DEF ExecutedPrefixes

LEMMA ExecutedPrefixesNext == IInv' => ExecutedPrefixes'
BY ExecutedPrefixesOK, PTL

LEMMA RefinementStep ==
  ASSUME IInv, IInv', [Next]_vars
  PROVE  RL!Next \/ UNCHANGED Executed
<1>1. PICK r \in Replicas :
        /\ \A s \in Replicas \ {r} :
             log'[s] = log[s] /\ lastCommitted'[s] = lastCommitted[s]
        /\ \A s \in Replicas : lastCommitted[s] <= lastCommitted'[s]
        /\ \A k \in DOMAIN log[Leader] : log'[Leader][k] = log[Leader][k]
  BY NextAdvances DEF OneAdvances
<1> DEFINE old == Executed
           new == Executed'
<1>2. /\ \A s \in Replicas :
           /\ old[s] \in Seq(Request) /\ Len(old[s]) = lastCommitted[s]
           /\ DOMAIN old[s] = 1 .. lastCommitted[s]
           /\ \A i \in 1 .. lastCommitted[s] :
                old[s][i] = log[Leader][i] /\ i \in DOMAIN log[Leader]
      /\ \A s \in Replicas :
           /\ new[s] \in Seq(Request) /\ Len(new[s]) = lastCommitted'[s]
           /\ DOMAIN new[s] = 1 .. lastCommitted'[s]
           /\ \A i \in 1 .. lastCommitted'[s] :
                new[s][i] = log'[Leader][i] /\ i \in DOMAIN log'[Leader]
  BY ExecutedPrefixesOK, ExecutedPrefixesNext DEF ExecutedPrefixes
<1>3. \A s \in Replicas \ {r} : new[s] = old[s]
  BY <1>1 DEF Executed
<1>4. \A s \in Replicas : lastCommitted[s] \in Nat /\ lastCommitted'[s] \in Nat
  BY DEF IInv, TypeOK
<1>5. DOMAIN old = Replicas /\ DOMAIN new = Replicas /\ new \in [Replicas -> Seq(Request)]
      /\ old = [s \in Replicas |-> old[s]] /\ new = [s \in Replicas |-> new[s]]
  <2>1. /\ DOMAIN old = Replicas /\ DOMAIN new = Replicas
        /\ old = [s \in Replicas |-> old[s]] /\ new = [s \in Replicas |-> new[s]]
    BY DEF Executed
  <2> HIDE DEF old, new
  <2> QED BY <2>1, <1>2
<1>6. RL!Distinct(log'[Leader])
  BY DEF IInv, TablesOK, RL!Distinct
<1> HIDE DEF old, new
<1>7. CASE lastCommitted'[r] = lastCommitted[r]
  <2>1. new[r] = old[r]
    BY <1>1, <1>2, <1>7
  <2> QED BY <2>1, <1>3, <1>5 DEF old, new
<1>8. CASE lastCommitted'[r] # lastCommitted[r]
  <2>1. Len(new[r]) > Len(old[r])
    BY <1>1, <1>2, <1>4, <1>8
  <2>2. \A s \in Replicas : RL!Compatible(new[r], old[s])
    BY <1>1, <1>2 DEF RL!Compatible
  <2>3. RL!Distinct(new[r])
    BY <1>2, <1>6 DEF RL!Distinct
  <2>4. RL!Next
    BY <2>1, <2>2, <2>3, <1>3, <1>5 DEF RL!Next, RL!Execute, old, new
  <2> QED BY <2>4
<1> QED BY <1>7, <1>8

(* Fast Paxos is a replicated log: what the replicas have executed are        *)
(* prefixes of one sequence that only grow and hold no request twice.        *)
THEOREM Refinement == Spec => ImplementsReplicatedLog
<1>1. Init => RL!Init
  <2> SUFFICES ASSUME Init PROVE RL!Init
    OBVIOUS
  <2>1. \A r \in Replicas : SubSeq(log[r], 1, lastCommitted[r]) = << >>
    BY DEF Init
  <2> QED BY <2>1 DEF RL!Init, Executed
<1>2. IInv /\ IInv' /\ [Next]_vars => [RL!Next]_Executed
  BY RefinementStep
<1> QED BY <1>1, <1>2, Invariance, PTL DEF Spec, ImplementsReplicatedLog, RL!Spec
=============================================================================
