------------------------- MODULE UnreplicatedProofs -------------------------
(***************************************************************************)
(* Fragments of two messages are never joined, what is delivered is whole    *)
(* and reaches whom it was sent to, and each client is told the answer to    *)
(* what it asked: for any set of clients, requests and sizes of messages.    *)
(***************************************************************************)
EXTENDS Unreplicated, SequenceTheorems, TLAPS

(* The types of what is on its way, of what is kept and of what is handed.   *)
Fragments == Seq([of : Messages, at : Nat])

Holdable == [data : Fragments, src : Nodes]

DatagramSet ==
  [src : Nodes, dst : Nodes, fragStart : Nat, msgLen : Nat, msgId : Nat,
   data : Fragments]

Transports ==
  [lastFragMsgId : Nat, fragInfo : [Nodes -> [msgId : Nat, data : Fragments]],
   reorderBuffer : Holdable \cup {NoMessage}]

Deliveries == [from : Nodes, to : Nodes, data : Fragments]

ClientStates ==
  [pending : [Kinds -> Messages \cup {NoMessage}],
   sent : [Kinds -> 0 .. MaxRequests],
   answers : SUBSET [asked : Messages, told : Messages], crashed : BOOLEAN]

(* Whom a message goes from and to; which message data are of.               *)
From(m) == IF m.type = "REQUEST" THEN m.client ELSE Server

To(m) == IF m.type = "REQUEST" THEN Server ELSE m.client

Of(data) == data[1].of

(* f with another value at x.                                                 *)
With(f, x, v) == [f EXCEPT ![x] = v]

-----------------------------------------------------------------------------
(* The messages on their way: the datagrams ds, the transports tr and the    *)
(* deliveries hs.                                                            *)

CarriedBy(ds) == {m \in Messages : \E d \in ds : Of(d.data) = m}

JoinedIn(tr) ==
  {m \in Messages : \E n, s \in Nodes :
     /\ tr[n].fragInfo[s].data # << >>
     /\ Of(tr[n].fragInfo[s].data) = m}

HeldIn(tr) ==
  {m \in Messages : \E n \in Nodes :
     /\ tr[n].reorderBuffer # NoMessage
     /\ Of(tr[n].reorderBuffer.data) = m}

Flight(ds, tr) == CarriedBy(ds) \cup JoinedIn(tr) \cup HeldIn(tr)

Given(hs) == {m \in Messages : \E h \in hs : Of(h.data) = m}

(* Data are the first l pieces of m.                                          *)
Begins(data, m, l) == data = [k \in 1 .. l |-> Piece(m, k)]

(* A datagram holds one piece of a message, and says where it belongs.       *)
DatagramOK(d, tr) ==
  LET m == Of(d.data) IN
  /\ d.fragStart < Pieces(m)
  /\ d.data = <<Piece(m, d.fragStart + 1)>>
  /\ d.src = From(m) /\ d.dst = To(m) /\ d.msgLen = Pieces(m)
  /\ d.msgId <= tr[d.src].lastFragMsgId
  /\ d.msgId = 0 <=> m.size = 0

(* A number is of one message of its sender, and a message has one number.   *)
NumbersOK(ds) ==
  \A d, e \in ds :
    /\ Of(d.data) = Of(e.data) => d.msgId = e.msgId
    /\ d.src = e.src /\ d.msgId = e.msgId /\ d.msgId # 0
         => Of(d.data) = Of(e.data)

(* What has been put together is the beginning of a message, and the rest    *)
(* of that message is all that its number still stands for.                  *)
JoinOK(ds, tr, n, s, info) ==
  LET m == Of(info.data) IN
  info.data # << >> =>
    /\ Begins(info.data, m, Len(info.data))
    /\ Len(info.data) < Pieces(m) /\ m.size # 0
    /\ s = From(m) /\ n = To(m)
    /\ info.msgId \in 1 .. tr[s].lastFragMsgId
    /\ \A d \in ds :
         /\ d.src = s /\ d.msgId = info.msgId => Of(d.data) = m
         /\ Of(d.data) = m => d.msgId = info.msgId /\ d.fragStart >= Len(info.data)

JoiningOK(ds, tr) ==
  \A n, s \in Nodes : JoinOK(ds, tr, n, s, tr[n].fragInfo[s])

(* What is held back and what was delivered is whole, and is where it was    *)
(* sent to.                                                                  *)
Complete(data, from, to) ==
  data # << >> /\ Whole(data) /\ from = From(Of(data)) /\ to = To(Of(data))

HeldOK(tr) ==
  \A n \in Nodes :
    LET held == tr[n].reorderBuffer IN
    held # NoMessage => Complete(held.data, held.src, n)

HandedOK(hs) == \A h \in hs : Complete(h.data, h.from, h.to)

(* What is held back is nowhere else, and what was delivered is gone.        *)
NetInv(ds, tr, hs) ==
  /\ ds \subseteq DatagramSet /\ tr \in [Nodes -> Transports]
  /\ hs \subseteq Deliveries
  /\ \A d \in ds : DatagramOK(d, tr)
  /\ NumbersOK(ds) /\ JoiningOK(ds, tr) /\ HeldOK(tr) /\ HandedOK(hs)
  /\ HeldIn(tr) \cap (CarriedBy(ds) \cup JoinedIn(tr)) = {}
  /\ Flight(ds, tr) \cap Given(hs) = {}

-----------------------------------------------------------------------------
(* The requests and the answers: those in flight F, those delivered G, the   *)
(* clients cl and the requests executed ex.                                  *)

SameCall(m, p) == m.client = p.client /\ m.kind = p.kind /\ m.n = p.n

(* A client's call has one request and one answer.                           *)
OnePerCall(F, G) ==
  \A m, p \in F \cup G : m.type = p.type /\ SameCall(m, p) => m = p

(* Nothing is answered before its request was delivered.                     *)
Answered(F, G) ==
  \A m \in F \cup G :
    m.type = "REPLY" => \E q \in G : q.type = "REQUEST" /\ SameCall(m, q)

SentOnes(F, G, cl) == \A m \in F \cup G : m.n <= cl[m.client].sent[m.kind]

(* What is in flight is of the call that is pending.                         *)
PendingOK(F, cl) ==
  /\ \A c \in Clients, k \in Kinds :
       cl[c].pending[k] # NoMessage =>
         \E size \in 0 .. MaxFragments :
           cl[c].pending[k] = Request(c, k, cl[c].sent[k], size)
  /\ \A m \in F :
       /\ cl[m.client].pending[m.kind] # NoMessage
       /\ cl[m.client].pending[m.kind].n = m.n
       /\ m.type = "REQUEST" => cl[m.client].pending[m.kind] = m

ExecutedOK(G, ex) ==
  /\ ex \in Seq(Messages) /\ IsInjective(ex)
  /\ \A i \in DOMAIN ex : ex[i] \in G /\ ex[i].type = "REQUEST"

AnswersOK(cl) ==
  \A c \in Clients :
    /\ ~cl[c].crashed
    /\ \A a \in cl[c].answers : a.told = Answer(a.asked, a.told.size)

CallInv(F, G, cl, ex) ==
  /\ F \subseteq Messages /\ G \subseteq Messages /\ F \cap G = {}
  /\ cl \in [Clients -> ClientStates]
  /\ OnePerCall(F, G) /\ Answered(F, G) /\ SentOnes(F, G, cl)
  /\ PendingOK(F, cl) /\ ExecutedOK(G, ex) /\ AnswersOK(cl)

IInv ==
  /\ NetInv(net, transport, handed)
  /\ CallInv(Flight(net, transport), Given(handed), client, executed)

-----------------------------------------------------------------------------
(* Data.                                                                      *)

(* The first pieces of a message.                                             *)
LEMMA BeginsData ==
  ASSUME NEW m \in Messages, NEW l \in Nat, NEW data, Begins(data, m, l)
  PROVE  /\ data \in Fragments /\ Len(data) = l
         /\ \A k \in 1 .. l : data[k] = Piece(m, k)
         /\ l # 0 => data # << >> /\ Of(data) = m
         /\ l = 0 => data = << >>
<1>1. data \in Fragments
  BY DEF Begins, Piece, Fragments
<1>2. Len(data) = l
  BY DEF Begins, Piece, Fragments
<1>. QED  BY <1>1, <1>2 DEF Begins, Of, Piece, Fragments

(* One more piece.                                                            *)
LEMMA BeginsMore ==
  ASSUME NEW m \in Messages, NEW l \in Nat, NEW data, Begins(data, m, l)
  PROVE  Begins(data \o <<Piece(m, l + 1)>>, m, l + 1)
<1>1. data \in Fragments /\ Len(data) = l /\ \A k \in 1 .. l : data[k] = Piece(m, k)
  BY BeginsData
<1>. QED  BY <1>1 DEF Begins, Piece, Fragments

(* A message has a piece at least.                                            *)
LEMMA PiecesType ==
  ASSUME NEW m \in Messages
  PROVE  /\ Pieces(m) \in Nat \ {0} /\ m.size \in Nat
         /\ m.size # 0 => Pieces(m) = m.size
BY UnreplicatedAssumption DEF Pieces, Messages

(* A sequence of one.                                                         *)
LEMMA OneOf ==
  ASSUME NEW x
  PROVE  <<x>> # << >> /\ Len(<<x>>) = 1 /\ <<x>>[1] = x
<1>1. Len(<<x>>) = 1 /\ <<x>>[1] = x
  OBVIOUS
<1>2. Len(<< >>) = 0
  OBVIOUS
<1>. QED  BY <1>1, <1>2

(* Data that are there are of a message.                                      *)
LEMMA OfFragments ==
  ASSUME NEW data \in Fragments, data # << >>
  PROVE  Of(data) \in Messages
<1>. DEFINE P == [of : Messages, at : Nat]
<1>1. data \in Seq(P)
  BY DEF Fragments
<1>2. data[1] \in P
  <2>. HIDE DEF P
  <2>. QED  BY <1>1
<1>. QED  BY <1>2 DEF Of

(* What is known of a datagram.                                               *)
LEMMA DatagramFacts ==
  ASSUME NEW ds \in SUBSET DatagramSet, NEW tr, NEW d \in ds, DatagramOK(d, tr)
  PROVE  /\ Of(d.data) \in Messages /\ d.fragStart \in Nat /\ d.msgId \in Nat
         /\ d.data # << >> /\ d.src \in Nodes /\ d.dst \in Nodes
         /\ d.data = <<Piece(Of(d.data), d.fragStart + 1)>>
<1>1. d \in DatagramSet OBVIOUS
<1>2. d.data = <<Piece(Of(d.data), d.fragStart + 1)>>
  BY <1>1 DEF DatagramOK
<1>3. d.data # << >>
  BY <1>2, OneOf
<1>. QED  BY <1>1, <1>2, <1>3, OfFragments DEF DatagramSet

(* Only the datagram itself holds its piece of a message.                     *)
LEMMA OneDatagram ==
  ASSUME NEW ds, NEW tr, NEW hs, NetInv(ds, tr, hs), NEW d \in ds, NEW e \in ds,
         Of(d.data) = Of(e.data), d.fragStart = e.fragStart
  PROVE  d = e
<1>1. DatagramOK(d, tr) /\ DatagramOK(e, tr) /\ d \in DatagramSet /\ e \in DatagramSet
  BY DEF NetInv
<1>2. d.msgId = e.msgId
  BY DEF NetInv, NumbersOK
<1>. QED  BY <1>1, <1>2 DEF DatagramOK, DatagramSet

-----------------------------------------------------------------------------
(* What may happen to datagrams and transports.                               *)

(* A datagram is lost or has been read.                                       *)
LEMMA Lose ==
  ASSUME NEW ds, NEW tr, NEW hs, NetInv(ds, tr, hs), NEW rest \in SUBSET ds
  PROVE  NetInv(rest, tr, hs) /\ Flight(rest, tr) \subseteq Flight(ds, tr)
<1>1. CarriedBy(rest) \subseteq CarriedBy(ds)
  BY DEF CarriedBy
<1>2. NumbersOK(rest)
  BY DEF NetInv, NumbersOK
<1>3. JoiningOK(rest, tr)
  BY DEF NetInv, JoiningOK, JoinOK
<1>. QED  BY <1>1, <1>2, <1>3 DEF NetInv, Flight

(* The fragments from s that n has joined are others.                         *)
Rejoined(tr, n, s, info) == With(tr, n, [tr[n] EXCEPT !.fragInfo[s] = info])

(* Then nothing else changes, and no message appears but the one joined.      *)
LEMMA Rejoin ==
  ASSUME NEW ds, NEW tr, NEW hs, NetInv(ds, tr, hs), NEW n \in Nodes, NEW s \in Nodes,
         NEW info \in [msgId : Nat, data : Fragments], JoinOK(ds, tr, n, s, info),
         info.data # << >> => Of(info.data) \notin HeldIn(tr) \cup Given(hs)
  PROVE  /\ NetInv(ds, Rejoined(tr, n, s, info), hs)
         /\ JoinedIn(Rejoined(tr, n, s, info)) \subseteq JoinedIn(tr) \cup
              (IF info.data # << >> THEN {Of(info.data)} ELSE {})
         /\ HeldIn(Rejoined(tr, n, s, info)) = HeldIn(tr)
         /\ Rejoined(tr, n, s, info)[n].fragInfo[s] = info
         /\ Rejoined(tr, n, s, info)[n].reorderBuffer = tr[n].reorderBuffer
<1>. DEFINE tr2 == Rejoined(tr, n, s, info)
<1>1. tr \in [Nodes -> Transports] /\ tr[n] \in Transports
  BY DEF NetInv
<1>2. tr2 \in [Nodes -> Transports]
  BY <1>1 DEF Transports, Rejoined, With
<1>3. /\ \A p, q \in Nodes : tr2[p].fragInfo[q] = IF p = n /\ q = s THEN info
                                                 ELSE tr[p].fragInfo[q]
      /\ \A p \in Nodes : /\ tr2[p].reorderBuffer = tr[p].reorderBuffer
                          /\ tr2[p].lastFragMsgId = tr[p].lastFragMsgId
  BY <1>1 DEF Transports, Rejoined, With
<1>. HIDE DEF tr2
<1>4. HeldIn(tr2) = HeldIn(tr)
  BY <1>3 DEF HeldIn
<1>5. JoinedIn(tr2) \subseteq JoinedIn(tr) \cup
        (IF info.data # << >> THEN {Of(info.data)} ELSE {})
  BY <1>3 DEF JoinedIn
<1>6. JoiningOK(ds, tr2)
  <2>1. SUFFICES ASSUME NEW p \in Nodes, NEW q \in Nodes
                 PROVE  JoinOK(ds, tr2, p, q, tr2[p].fragInfo[q])
    BY DEF JoiningOK
  <2>2. JoinOK(ds, tr, p, q, tr2[p].fragInfo[q])
    BY <1>3 DEF NetInv, JoiningOK
  <2>. QED  BY <1>3, <2>2 DEF JoinOK
<1>7. HeldOK(tr2)
  BY <1>3 DEF NetInv, HeldOK
<1>8. \A d \in ds : DatagramOK(d, tr2)
  <2>1. SUFFICES ASSUME NEW d \in ds PROVE DatagramOK(d, tr2)
    OBVIOUS
  <2>2. d.src \in Nodes
    BY DEF NetInv, DatagramSet
  <2>. QED  BY <1>3, <2>2 DEF NetInv, DatagramOK
<1>9. /\ NetInv(ds, tr2, hs)
      /\ tr2[n].fragInfo[s] = info /\ tr2[n].reorderBuffer = tr[n].reorderBuffer
  BY <1>2, <1>3, <1>4, <1>5, <1>6, <1>7, <1>8 DEF NetInv, Flight
<1>. QED  BY <1>4, <1>5, <1>9 DEF tr2

(* n has read d and got what got says: a message that is read was in flight   *)
(* and is not any more.                                                       *)
HasReceived(ds, tr, hs, n, d, got) ==
  LET tr2 == With(tr, n, got.transport) IN
  /\ NetInv(ds \ {d}, tr2, hs) /\ Flight(ds \ {d}, tr2) \subseteq Flight(ds, tr)
  /\ tr2[n] = got.transport /\ tr2[n].reorderBuffer = tr[n].reorderBuffer
  /\ got.data # << >> =>
       /\ Of(got.data) \in Flight(ds, tr) \ Flight(ds \ {d}, tr2)
       /\ got.data \in Fragments /\ d.src \in Nodes
       /\ Complete(got.data, d.src, n)

(* OnReadable up to the dispatch.                                             *)
LEMMA Receive ==
  ASSUME NEW ds, NEW tr, NEW hs, NetInv(ds, tr, hs), NEW n \in Nodes, NEW d \in ds,
         d.dst = n
  PROVE  HasReceived(ds, tr, hs, n, d, Received(tr[n], d))
<1>. DEFINE rest == ds \ {d}
            m    == Of(d.data)
            s    == d.src
            b    == Begun(tr[n].fragInfo[s], d)
            got  == Received(tr[n], d)
            tr2  == With(tr, n, got.transport)
<1>0. tr \in [Nodes -> Transports] /\ tr2 = [tr EXCEPT ![n] = got.transport]
  BY DEF NetInv, With
<1>. HIDE DEF tr2, got
<1>. SUFFICES HasReceived(ds, tr, hs, n, d, got)
  BY DEF got
<1>. SUFFICES /\ NetInv(ds \ {d}, tr2, hs)
              /\ Flight(ds \ {d}, tr2) \subseteq Flight(ds, tr)
              /\ tr2[n] = got.transport
              /\ tr2[n].reorderBuffer = tr[n].reorderBuffer
              /\ got.data # << >> =>
                   /\ Of(got.data) \in Flight(ds, tr) \ Flight(ds \ {d}, tr2)
                   /\ got.data \in Fragments /\ d.src \in Nodes
                   /\ Complete(got.data, d.src, n)
  BY DEF tr2, HasReceived
<1>1. /\ ds \in SUBSET DatagramSet /\ tr \in [Nodes -> Transports] /\ DatagramOK(d, tr)
      /\ NumbersOK(ds) /\ JoiningOK(ds, tr) /\ \A e \in ds : DatagramOK(e, tr)
      /\ HeldIn(tr) \cap (CarriedBy(ds) \cup JoinedIn(tr)) = {}
      /\ Flight(ds, tr) \cap Given(hs) = {}
  BY DEF NetInv
<1>2. /\ m \in Messages /\ d.fragStart \in Nat /\ d.msgId \in Nat /\ s \in Nodes
      /\ d.data # << >> /\ d.data = <<Piece(m, d.fragStart + 1)>>
  BY <1>1, DatagramFacts
<1>3. Pieces(m) \in Nat \ {0} /\ (m.size # 0 => Pieces(m) = m.size)
  BY <1>2, PiecesType
<1>4. /\ NetInv(rest, tr, hs) /\ Flight(rest, tr) \subseteq Flight(ds, tr)
  BY Lose
<1>5. m \in CarriedBy(ds) /\ m \notin HeldIn(tr) /\ m \in Flight(ds, tr) /\ m \notin Given(hs)
  BY <1>1, <1>2 DEF CarriedBy, Flight
<1>6. s = From(m) /\ n = To(m) /\ d.msgLen = Pieces(m) /\ (d.msgId = 0 <=> m.size = 0)
      /\ d.msgId <= tr[s].lastFragMsgId /\ d.fragStart < Pieces(m)
  BY <1>1 DEF DatagramOK
<1>7. tr[n] \in Transports /\ tr[s] \in Transports
      /\ tr[n].fragInfo[s] \in [msgId : Nat, data : Fragments]
  BY <1>1, <1>2 DEF Transports
<1>8. CASE d.msgId = 0
  <2>1. got = [transport |-> tr[n], data |-> d.data]
    BY <1>8 DEF Received, got
  <2>2. tr2 = tr
    BY <1>0, <2>1
  <2>3. m.size = 0 /\ Pieces(m) = 1 /\ d.fragStart = 0
    BY <1>2, <1>3, <1>6, <1>8 DEF Pieces
  <2>4. Complete(d.data, s, n)
    <3>1. d.data = <<Piece(m, 1)>>
      BY <1>2, <2>3
    <3>2. <<Piece(m, 1)>> = [k \in 1 .. 1 |-> Piece(m, k)]
      OBVIOUS
    <3>3. Whole(d.data)
      BY <3>1, <3>2, <2>3 DEF Whole, Of
    <3>. QED  BY <3>3, <1>2, <1>6 DEF Complete
  <2>5. m \notin CarriedBy(rest)
    <3>1. SUFFICES ASSUME NEW e \in rest, Of(e.data) = m PROVE FALSE
      BY DEF CarriedBy
    <3>2. e.fragStart < 1 /\ e.fragStart \in Nat
      BY <1>1, <2>3, <3>1 DEF DatagramOK, DatagramSet
    <3>. QED  BY <3>1, <3>2, <2>3, OneDatagram
  <2>6. m \notin JoinedIn(tr)
    BY <1>1, <2>3 DEF JoinedIn, JoiningOK, JoinOK
  <2>7. m \notin Flight(rest, tr)
    BY <2>5, <2>6, <1>5 DEF Flight
  <2>8. d.data \in Fragments
    BY <1>1 DEF DatagramSet
  <2>9. got.data = d.data /\ tr2[n] = got.transport /\ tr2[n] = tr[n]
    BY <1>0, <2>1, <2>2
  <2>10. NetInv(rest, tr2, hs) /\ Flight(rest, tr2) = Flight(rest, tr)
    BY <1>4, <2>2
  <2>. HIDE DEF rest
  <2>11. NetInv(ds \ {d}, tr2, hs) /\ Flight(ds \ {d}, tr2) = Flight(rest, tr)
    BY <2>10 DEF rest
  <2>. QED  BY <1>2, <1>4, <1>5, <2>4, <2>7, <2>8, <2>9, <2>11
<1>9. CASE d.msgId # 0
  <2>. DEFINE info == Reassembled(tr[n].fragInfo[s], d)
  <2>1. /\ b \in [msgId : Nat, data : Fragments] /\ b.msgId = d.msgId
        /\ b.data # << >> =>
             /\ Of(b.data) = m /\ Begins(b.data, m, Len(b.data))
             /\ Len(b.data) < Pieces(m)
             /\ \A e \in ds : Of(e.data) = m => e.fragStart >= Len(b.data)
    <3>1. << >> \in Fragments
      BY DEF Fragments
    <3>2. CASE tr[n].fragInfo[s].msgId = d.msgId
      <4>1. b = tr[n].fragInfo[s]
        BY <3>2 DEF Begun
      <4>2. ASSUME b.data # << >>
            PROVE  Of(b.data) = m
        BY <1>1, <1>2, <3>2, <4>1, <4>2 DEF JoiningOK, JoinOK
      <4>. QED  BY <1>1, <1>2, <1>7, <3>2, <4>1, <4>2 DEF JoiningOK, JoinOK
    <3>3. CASE tr[n].fragInfo[s].msgId # d.msgId
      <4>1. b = [msgId |-> d.msgId, data |-> << >>]
        BY <3>3 DEF Begun
      <4>. QED  BY <1>2, <3>1, <4>1
    <3>. QED  BY <3>2, <3>3
  <2>2. Len(b.data) \in Nat /\ (b.data = << >> <=> Len(b.data) = 0)
    <3>. HIDE DEF b
    <3>. QED BY <2>1 DEF Fragments
  <2>3. \A e \in ds : Of(e.data) = m => e.fragStart \in Nat /\ e.fragStart >= Len(b.data)
    <3>. HIDE DEF b
    <3>1. \A e \in ds : e.fragStart \in Nat
      BY <1>1 DEF DatagramSet
    <3>. QED  BY <2>1, <2>2, <3>1
  <2>4. /\ info \in [msgId : Nat, data : Fragments] /\ info.msgId = d.msgId
        /\ info.data # << >> =>
             /\ Begins(info.data, m, Len(info.data)) /\ Len(info.data) <= Pieces(m)
             /\ \A e \in rest : Of(e.data) = m => e.fragStart >= Len(info.data)
    <3>. HIDE DEF b
    <3>1. CASE d.fragStart = Len(b.data)
      <4>1. info = [b EXCEPT !.data = b.data \o d.data]
        BY <3>1 DEF Reassembled, b
      <4>2. Begins(b.data, m, Len(b.data))
        <5>1. CASE b.data = << >>
          BY <5>1, <2>2 DEF Begins
        <5>. QED  BY <5>1, <2>1
      <4>. HIDE DEF info
      <4>a. info.data = b.data \o <<Piece(m, Len(b.data) + 1)>>
        BY <1>2, <2>1, <3>1, <4>1
      <4>3. Begins(info.data, m, Len(b.data) + 1)
        BY <1>2, <2>2, <4>2, <4>a, BeginsMore
      <4>4. info.data \in Fragments /\ Len(info.data) = Len(b.data) + 1
        BY <1>2, <2>2, <4>3, BeginsData
      <4>5. info \in [msgId : Nat, data : Fragments] /\ info.msgId = d.msgId
        BY <2>1, <4>1, <4>4
      <4>6. Len(info.data) <= Pieces(m)
        BY <1>2, <1>3, <1>6, <2>2, <3>1, <4>4
      <4>7. \A e \in rest : Of(e.data) = m => e.fragStart >= Len(info.data)
        <5>1. SUFFICES ASSUME NEW e \in rest, Of(e.data) = m
              PROVE  e.fragStart >= Len(info.data)
          OBVIOUS
        <5>2. e.fragStart # d.fragStart
          BY <5>1, OneDatagram
        <5>. QED  BY <2>2, <2>3, <3>1, <4>4, <5>1, <5>2
      <4>. QED  BY <4>3, <4>4, <4>5, <4>6, <4>7
    <3>2. CASE d.fragStart # Len(b.data)
      <4>1. info = b
        BY <3>2 DEF Reassembled, b
      <4>. QED  BY <1>3, <2>1, <2>2, <2>3, <4>1
    <3>. QED  BY <3>1, <3>2
  <2>5. got = IF Len(info.data) = d.msgLen
              THEN [transport |-> [tr[n] EXCEPT !.fragInfo[s] = NoFragments],
                    data |-> info.data]
              ELSE [transport |-> [tr[n] EXCEPT !.fragInfo[s] = info], data |-> << >>]
    BY <1>9 DEF Received, got
  <2>6. /\ Len(info.data) \in Nat /\ (info.data = << >> <=> Len(info.data) = 0)
        /\ info.data # << >> => Of(info.data) = m
    <3>. HIDE DEF info
    <3>1. Len(info.data) \in Nat /\ (info.data = << >> <=> Len(info.data) = 0)
      BY <2>4 DEF Fragments
    <3>. QED  BY <1>2, <2>4, <3>1, BeginsData
  <2>. HIDE DEF info, b, rest
  <2>7. /\ m \notin HeldIn(tr) \cup Given(hs)
        /\ d.msgId \in 1 .. tr[s].lastFragMsgId
        /\ \A e \in rest : /\ e.src = s /\ e.msgId = d.msgId => Of(e.data) = m
                           /\ Of(e.data) = m => e.msgId = d.msgId
    <3>1. d.msgId \in 1 .. tr[s].lastFragMsgId
      BY <1>2, <1>6, <1>7, <1>9 DEF Transports
    <3>. QED  BY <1>1, <1>5, <1>9, <3>1 DEF NumbersOK, rest
  <2>8. CASE Len(info.data) = d.msgLen
    <3>1. got.data = info.data /\ got.transport = [tr[n] EXCEPT !.fragInfo[s] = NoFragments]
      BY <2>5, <2>8
    <3>2. tr2 = Rejoined(tr, n, s, NoFragments)
      BY <1>0, <3>1 DEF Rejoined, With
    <3>3. NoFragments \in [msgId : Nat, data : Fragments] /\ NoFragments.data = << >>
      BY DEF NoFragments, Fragments
    <3>4. /\ NetInv(rest, tr2, hs)
          /\ JoinedIn(tr2) \subseteq JoinedIn(tr)
          /\ HeldIn(tr2) = HeldIn(tr) /\ tr2[n].fragInfo[s] = NoFragments
          /\ tr2[n].reorderBuffer = tr[n].reorderBuffer
      <4>1. JoinOK(rest, tr, n, s, NoFragments)
        BY <3>3 DEF JoinOK
      <4>. HIDE DEF m, s
      <4>2. /\ NetInv(rest, tr2, hs)
            /\ JoinedIn(tr2) \subseteq JoinedIn(tr) \cup
                 (IF NoFragments.data # << >> THEN {Of(NoFragments.data)} ELSE {})
            /\ HeldIn(tr2) = HeldIn(tr)
            /\ tr2[n].fragInfo[s] = NoFragments
            /\ tr2[n].reorderBuffer = tr[n].reorderBuffer
        <5>1. NoFragments.data # << >> => Of(NoFragments.data) \notin HeldIn(tr) \cup Given(hs)
          BY <3>3
        <5>2. NetInv(rest, tr, hs) /\ s \in Nodes
          BY <1>2, <1>4
        <5>3. /\ NetInv(rest, Rejoined(tr, n, s, NoFragments), hs)
              /\ JoinedIn(Rejoined(tr, n, s, NoFragments)) \subseteq JoinedIn(tr) \cup
                   (IF NoFragments.data # << >> THEN {Of(NoFragments.data)} ELSE {})
              /\ HeldIn(Rejoined(tr, n, s, NoFragments)) = HeldIn(tr)
              /\ Rejoined(tr, n, s, NoFragments)[n].fragInfo[s] = NoFragments
              /\ Rejoined(tr, n, s, NoFragments)[n].reorderBuffer = tr[n].reorderBuffer
          BY <5>1, <5>2, <3>3, <4>1, Rejoin
        <5>. QED  BY <3>2, <5>3
      <4>. QED  BY <4>2, <3>3
    <3>5. Len(info.data) = Pieces(m) /\ info.data # << >>
      BY <1>3, <1>6, <2>6, <2>8
    <3>6. Complete(info.data, s, n)
      BY <1>6, <2>4, <2>6, <3>5 DEF Complete, Whole, Begins, Of
    <3>7. m \notin CarriedBy(rest)
      <4>1. SUFFICES ASSUME NEW e \in rest, Of(e.data) = m PROVE FALSE
        BY DEF CarriedBy
      <4>2. e.fragStart < Pieces(m) /\ e.fragStart \in Nat
        BY <1>1, <4>1 DEF DatagramOK, DatagramSet, rest
      <4>. QED  BY <1>3, <2>4, <3>5, <4>1, <4>2
    <3>8. m \notin JoinedIn(tr2)
      <4>1. SUFFICES ASSUME NEW p \in Nodes, NEW q \in Nodes,
                            tr2[p].fragInfo[q].data # << >>,
                            Of(tr2[p].fragInfo[q].data) = m
                     PROVE FALSE
        BY DEF JoinedIn
      <4>2. q = s /\ p = n
        <5>1. JoinOK(rest, tr2, p, q, tr2[p].fragInfo[q])
          BY <3>4 DEF NetInv, JoiningOK
        <5>. QED  BY <1>6, <4>1, <5>1 DEF JoinOK
      <4>. QED  BY <3>3, <3>4, <4>1, <4>2
    <3>9. Flight(rest, tr2) \subseteq Flight(rest, tr) /\ m \notin Flight(rest, tr2)
      BY <1>5, <3>4, <3>7, <3>8 DEF Flight
    <3>10. tr2[n] = got.transport
      BY <1>0
    <3>. QED
      BY <1>2, <1>4, <1>5, <2>4, <2>6, <3>1, <3>4, <3>5, <3>6, <3>9, <3>10 DEF rest
  <2>9. CASE Len(info.data) # d.msgLen
    <3>1. got.data = << >> /\ got.transport = [tr[n] EXCEPT !.fragInfo[s] = info]
      BY <2>5, <2>9
    <3>2. tr2 = Rejoined(tr, n, s, info)
      BY <1>0, <3>1 DEF Rejoined, With
    <3>3. info.data # << >> => Len(info.data) < Pieces(m)
      BY <1>3, <1>6, <2>4, <2>6, <2>9
    <3>4. /\ NetInv(rest, tr2, hs)
          /\ JoinedIn(tr2) \subseteq JoinedIn(tr) \cup {m}
          /\ HeldIn(tr2) = HeldIn(tr)
          /\ tr2[n].reorderBuffer = tr[n].reorderBuffer
      <4>1. JoinOK(rest, tr, n, s, info)
        BY <1>6, <1>9, <2>4, <2>6, <2>7, <3>3 DEF JoinOK
      <4>. HIDE DEF m, s
      <4>2. /\ NetInv(rest, tr2, hs)
            /\ JoinedIn(tr2) \subseteq JoinedIn(tr) \cup
                 (IF info.data # << >> THEN {Of(info.data)} ELSE {})
            /\ HeldIn(tr2) = HeldIn(tr)
            /\ tr2[n].fragInfo[s] = info
            /\ tr2[n].reorderBuffer = tr[n].reorderBuffer
        <5>1. info.data # << >> => Of(info.data) \notin HeldIn(tr) \cup Given(hs)
          BY <2>6, <2>7
        <5>2. NetInv(rest, tr, hs) /\ s \in Nodes /\ info \in [msgId : Nat, data : Fragments]
          BY <1>2, <1>4, <2>4
        <5>3. /\ NetInv(rest, Rejoined(tr, n, s, info), hs)
              /\ JoinedIn(Rejoined(tr, n, s, info)) \subseteq JoinedIn(tr) \cup
                   (IF info.data # << >> THEN {Of(info.data)} ELSE {})
              /\ HeldIn(Rejoined(tr, n, s, info)) = HeldIn(tr)
              /\ Rejoined(tr, n, s, info)[n].fragInfo[s] = info
              /\ Rejoined(tr, n, s, info)[n].reorderBuffer = tr[n].reorderBuffer
          BY <5>1, <5>2, <4>1, Rejoin
        <5>. QED  BY <3>2, <5>3
      <4>. QED  BY <4>2, <2>6
    <3>5. Flight(rest, tr2) \subseteq Flight(rest, tr) \cup {m}
      BY <3>4 DEF Flight
    <3>6. tr2[n] = got.transport
      BY <1>0
    <3>. QED  BY <1>4, <1>5, <3>1, <3>4, <3>5, <3>6 DEF rest
  <2>. QED  BY <2>8, <2>9
<1>. QED  BY <1>8, <1>9

(* A message is held back, or none is any more: nothing else changes.         *)
Buffered(tr, n, b) == With(tr, n, Holds(tr[n], b))

(* What was held back before is nowhere any more.                             *)
HasBuffered(ds, tr, hs, n, b) ==
  LET tr2 == Buffered(tr, n, b) IN
  /\ NetInv(ds, tr2, hs) /\ tr2[n] = Holds(tr[n], b)
  /\ Flight(ds, tr2) \subseteq Flight(ds, tr) \cup
       (IF b # NoMessage THEN {Of(b.data)} ELSE {})
  /\ b = NoMessage /\ tr[n].reorderBuffer # NoMessage =>
       Of(tr[n].reorderBuffer.data) \in Flight(ds, tr) \ Flight(ds, tr2)

(* A message that is nowhere else may be held back.                           *)
LEMMA Buffer ==
  ASSUME NEW ds, NEW tr, NEW hs, NetInv(ds, tr, hs), NEW n \in Nodes,
         NEW b \in Holdable \cup {NoMessage},
         b # NoMessage => /\ Complete(b.data, b.src, n)
                          /\ Of(b.data) \notin CarriedBy(ds) \cup JoinedIn(tr) \cup Given(hs)
  PROVE  HasBuffered(ds, tr, hs, n, b)
<1>. DEFINE tr2 == Buffered(tr, n, b)
<1>1. tr \in [Nodes -> Transports] /\ tr[n] \in Transports
  BY DEF NetInv
<1>2. tr2 \in [Nodes -> Transports] /\ tr2[n] = Holds(tr[n], b)
  BY <1>1 DEF Transports, Buffered, With, Holds
<1>3. \A p \in Nodes : /\ tr2[p].reorderBuffer = IF p = n THEN b ELSE tr[p].reorderBuffer
                       /\ tr2[p].fragInfo = tr[p].fragInfo
                       /\ tr2[p].lastFragMsgId = tr[p].lastFragMsgId
  BY <1>1 DEF Transports, Buffered, With, Holds
<1>. HIDE DEF tr2
<1>4. JoinedIn(tr2) = JoinedIn(tr)
  BY <1>3 DEF JoinedIn
<1>5. HeldIn(tr2) \subseteq HeldIn(tr) \cup (IF b # NoMessage THEN {Of(b.data)} ELSE {})
  BY <1>3 DEF HeldIn
<1>6. JoiningOK(ds, tr2)
  BY <1>3 DEF NetInv, JoiningOK, JoinOK
<1>7. HeldOK(tr2)
  BY <1>3 DEF NetInv, HeldOK
<1>8. \A d \in ds : DatagramOK(d, tr2)
  <2>1. SUFFICES ASSUME NEW d \in ds PROVE DatagramOK(d, tr2)
    OBVIOUS
  <2>2. d.src \in Nodes
    BY DEF NetInv, DatagramSet
  <2>. QED  BY <1>3, <2>2 DEF NetInv, DatagramOK
<1>9. /\ NetInv(ds, tr2, hs)
      /\ Flight(ds, tr2) \subseteq Flight(ds, tr) \cup
           (IF b # NoMessage THEN {Of(b.data)} ELSE {})
  BY <1>2, <1>4, <1>5, <1>6, <1>7, <1>8 DEF NetInv, Flight
<1>10. ASSUME b = NoMessage, tr[n].reorderBuffer # NoMessage
       PROVE  Of(tr[n].reorderBuffer.data) \in Flight(ds, tr) \ Flight(ds, tr2)
  <2>. DEFINE m == Of(tr[n].reorderBuffer.data)
  <2>1. HeldOK(tr) /\ Complete(tr[n].reorderBuffer.data, tr[n].reorderBuffer.src, n)
    BY <1>10 DEF NetInv, HeldOK
  <2>2. m \in Messages /\ n = To(m)
    BY <1>1, <1>10, <2>1, OfFragments DEF Complete, Transports, Holdable
  <2>3. m \in HeldIn(tr)
    BY <1>10, <2>2 DEF HeldIn
  <2>4. m \notin HeldIn(tr2)
    <3>1. SUFFICES ASSUME NEW p \in Nodes, tr2[p].reorderBuffer # NoMessage,
                          Of(tr2[p].reorderBuffer.data) = m
                   PROVE  FALSE
      BY DEF HeldIn
    <3>2. p = To(m)
      BY <1>7, <3>1 DEF HeldOK, Complete
    <3>. QED  BY <1>3, <1>10, <2>2, <3>1, <3>2
  <2>. HIDE DEF m
  <2>5. m \in Flight(ds, tr) /\ m \notin Flight(ds, tr2)
    BY <1>4, <2>3, <2>4 DEF NetInv, Flight
  <2>. QED  BY <2>5 DEF m
<1>. QED  BY <1>2, <1>9, <1>10 DEF tr2, HasBuffered

(* h is delivered too.                                                        *)
HasGiven(ds, tr, hs, h) ==
  /\ NetInv(ds, tr, hs \cup {h})
  /\ Given(hs \cup {h}) = Given(hs) \cup {Of(h.data)}

(* A message that is nowhere may be delivered.                                *)
LEMMA Give ==
  ASSUME NEW ds, NEW tr, NEW hs, NetInv(ds, tr, hs), NEW h \in Deliveries,
         Complete(h.data, h.from, h.to), Of(h.data) \notin Flight(ds, tr)
  PROVE  HasGiven(ds, tr, hs, h)
<1>1. Of(h.data) \in Messages
  BY OfFragments DEF Deliveries, Complete
<1>2. Given(hs \cup {h}) = Given(hs) \cup {Of(h.data)}
  BY <1>1 DEF Given
<1>3. HandedOK(hs \cup {h})
  BY DEF NetInv, HandedOK
<1>. QED  BY <1>2, <1>3 DEF NetInv, HasGiven

(* To number a message changes the counter only.                              *)
LEMMA NumberedType ==
  ASSUME NEW t \in Transports, NEW m
  PROVE  /\ Numbered(t, m) \in Transports
         /\ Numbered(t, m).fragInfo = t.fragInfo
         /\ Numbered(t, m).reorderBuffer = t.reorderBuffer
         /\ Numbered(t, m).lastFragMsgId =
              IF m.size = 0 THEN t.lastFragMsgId ELSE t.lastFragMsgId + 1
<1>1. CASE m.size = 0
  BY <1>1 DEF Numbered
<1>2. CASE m.size # 0
  <2>1. Numbered(t, m) = [t EXCEPT !.lastFragMsgId = t.lastFragMsgId + 1]
    BY <1>2 DEF Numbered
  <2>. QED  BY <1>2, <2>1 DEF Transports
<1>. QED  BY <1>1, <1>2

(* s has sent m to d.                                                         *)
HasSent(ds, tr, hs, s, d, m) ==
  LET ds2 == ds \cup Datagrams(tr[s], s, d, m)
      tr2 == With(tr, s, Numbered(tr[s], m))
  IN  NetInv(ds2, tr2, hs) /\ Flight(ds2, tr2) \subseteq Flight(ds, tr) \cup {m}

(* A message that is nowhere yet may be sent.                                 *)
LEMMA Send ==
  ASSUME NEW ds, NEW tr, NEW hs, NetInv(ds, tr, hs), NEW m \in Messages,
         m \notin Flight(ds, tr) \cup Given(hs), NEW s \in Nodes, NEW d \in Nodes,
         s = From(m), d = To(m)
  PROVE  HasSent(ds, tr, hs, s, d, m)
<1>. DEFINE id  == IF m.size = 0 THEN 0 ELSE tr[s].lastFragMsgId + 1
            new == Datagrams(tr[s], s, d, m)
            ds2 == ds \cup new
            tr2 == With(tr, s, Numbered(tr[s], m))
<1>1. tr \in [Nodes -> Transports] /\ tr[s] \in Transports /\ ds \subseteq DatagramSet
  BY DEF NetInv
<1>. SUFFICES /\ NetInv(ds2, tr2, hs)
              /\ Flight(ds2, tr2) \subseteq Flight(ds, tr) \cup {m}
  BY DEF HasSent
<1>2. tr2 \in [Nodes -> Transports]
  <2>1. Numbered(tr[s], m) \in Transports
    BY <1>1, NumberedType
  <2>. QED  BY <1>1, <2>1 DEF With
<1>3. \A p \in Nodes :
        /\ tr2[p].reorderBuffer = tr[p].reorderBuffer
        /\ tr2[p].fragInfo = tr[p].fragInfo
        /\ tr2[p].lastFragMsgId = IF p = s /\ m.size # 0 THEN tr[s].lastFragMsgId + 1
                                  ELSE tr[p].lastFragMsgId
        /\ tr[p].lastFragMsgId \in Nat
  <2>1. \A p \in Nodes : tr2[p] = IF p = s THEN Numbered(tr[s], m) ELSE tr[p]
    BY <1>1 DEF With
  <2>2. \A p \in Nodes : tr[p].lastFragMsgId \in Nat
    BY <1>1 DEF Transports
  <2>3. /\ Numbered(tr[s], m).fragInfo = tr[s].fragInfo
        /\ Numbered(tr[s], m).reorderBuffer = tr[s].reorderBuffer
        /\ Numbered(tr[s], m).lastFragMsgId =
             IF m.size = 0 THEN tr[s].lastFragMsgId ELSE tr[s].lastFragMsgId + 1
    BY <1>1, NumberedType
  <2>. QED  BY <2>1, <2>2, <2>3
<1>. HIDE DEF tr2
<1>4. Pieces(m) \in Nat \ {0}
  BY PiecesType
<1>5. id \in Nat /\ id <= tr2[s].lastFragMsgId /\ (id = 0 <=> m.size = 0)
  BY <1>3
<1>6. \A k \in 1 .. Pieces(m) : /\ <<Piece(m, k)>> \in Fragments
                                /\ Of(<<Piece(m, k)>>) = m
  BY <1>4, OneOf DEF Fragments, Piece, Of
<1>7. \A e \in new : /\ e \in DatagramSet /\ Of(e.data) = m /\ e.msgId = id /\ e.src = s
                     /\ DatagramOK(e, tr2)
  <2>1. SUFFICES ASSUME NEW k \in 1 .. Pieces(m)
        PROVE  LET e == [src |-> s, dst |-> d, fragStart |-> k - 1,
                         msgLen |-> Pieces(m), msgId |-> id, data |-> <<Piece(m, k)>>]
               IN  /\ e \in DatagramSet /\ Of(e.data) = m /\ e.msgId = id /\ e.src = s
                   /\ DatagramOK(e, tr2)
    <3>1. id = IF m.size = 0 THEN 0 ELSE Numbered(tr[s], m).lastFragMsgId
      BY <1>1 DEF Numbered, Transports
    <3>. HIDE DEF id
    <3>. QED  BY <3>1 DEF Datagrams
  <2>. HIDE DEF id
  <2>2. k - 1 \in Nat /\ k - 1 < Pieces(m) /\ (k - 1) + 1 = k
    BY <1>4
  <2>. QED  BY <1>4, <1>5, <1>6, <2>2 DEF DatagramSet, DatagramOK
<1>. HIDE DEF id, new, ds2
<1>8. \A e \in ds : DatagramOK(e, tr2) /\ e.src \in Nodes /\ e.msgId \in Nat
                    /\ e.msgId <= tr[e.src].lastFragMsgId /\ Of(e.data) # m
  <2>1. SUFFICES ASSUME NEW e \in ds
        PROVE DatagramOK(e, tr2) /\ e.src \in Nodes /\ e.msgId \in Nat
              /\ e.msgId <= tr[e.src].lastFragMsgId /\ Of(e.data) # m
    OBVIOUS
  <2>2. e \in DatagramSet /\ DatagramOK(e, tr)
    BY DEF NetInv
  <2>3. e.src \in Nodes /\ e.msgId \in Nat
    BY <2>2 DEF DatagramSet
  <2>4. DatagramOK(e, tr2)
    BY <1>3, <2>2, <2>3 DEF DatagramOK
  <2>5. Of(e.data) # m
    BY DEF Flight, CarriedBy
  <2>. QED  BY <2>2, <2>3, <2>4, <2>5 DEF DatagramOK
<1>9. ds2 = ds \cup new
  BY DEF ds2
<1>10. CarriedBy(ds2) \subseteq CarriedBy(ds) \cup {m}
  BY <1>7, <1>9 DEF CarriedBy
<1>11. JoinedIn(tr2) = JoinedIn(tr) /\ HeldIn(tr2) = HeldIn(tr)
  BY <1>3 DEF JoinedIn, HeldIn
<1>12. NumbersOK(ds2)
  <2>1. ASSUME NEW a \in ds, NEW e \in new, a.src = e.src, a.msgId = e.msgId,
               e.msgId # 0
        PROVE  FALSE
    BY <1>3, <1>7, <1>8, <2>1 DEF id
  <2>. QED  BY <1>7, <1>8, <1>9, <2>1 DEF NetInv, NumbersOK
<1>13. JoiningOK(ds2, tr2)
  <2>1. SUFFICES ASSUME NEW p \in Nodes, NEW q \in Nodes
                 PROVE  JoinOK(ds2, tr2, p, q, tr[p].fragInfo[q])
    BY <1>3 DEF JoiningOK
  <2>. DEFINE info == tr[p].fragInfo[q]
  <2>2. SUFFICES ASSUME info.data # << >> PROVE JoinOK(ds2, tr2, p, q, info)
    BY DEF JoinOK
  <2>3. JoinOK(ds, tr, p, q, info)
    BY DEF NetInv, JoiningOK
  <2>4. Of(info.data) # m
    <3>1. info.data \in Fragments
      BY <1>1 DEF Transports
    <3>2. Of(info.data) \in JoinedIn(tr)
      BY <2>2, <3>1, OfFragments DEF JoinedIn
    <3>. QED  BY <3>2 DEF Flight
  <2>. HIDE DEF info
  <2>5. info.msgId \in 1 .. tr[q].lastFragMsgId /\ info.msgId \in 1 .. tr2[q].lastFragMsgId
    BY <1>3, <2>2, <2>3 DEF JoinOK
  <2>6. \A e \in new : /\ ~(e.src = q /\ e.msgId = info.msgId) /\ Of(e.data) # Of(info.data)
    BY <1>3, <1>7, <2>4, <2>5 DEF id
  <2>. QED  BY <1>9, <2>2, <2>3, <2>5, <2>6 DEF JoinOK
<1>14. HeldOK(tr2)
  BY <1>3 DEF NetInv, HeldOK
<1>15. ds2 \subseteq DatagramSet /\ \A e \in ds2 : DatagramOK(e, tr2)
  BY <1>1, <1>7, <1>8, <1>9
<1>. QED
  BY <1>2, <1>10, <1>11, <1>12, <1>13, <1>14, <1>15 DEF NetInv, Flight

-----------------------------------------------------------------------------
(* What may happen to calls.                                                  *)

(* A message in flight is lost.                                               *)
LEMMA Fewer ==
  ASSUME NEW F, NEW G, NEW cl, NEW ex, CallInv(F, G, cl, ex), NEW F2 \in SUBSET F
  PROVE  CallInv(F2, G, cl, ex)
<1>1. OnePerCall(F2, G) /\ Answered(F2, G) /\ SentOnes(F2, G, cl)
  BY DEF CallInv, OnePerCall, Answered, SentOnes
<1>2. PendingOK(F2, cl)
  BY DEF CallInv, PendingOK
<1>. QED  BY <1>1, <1>2 DEF CallInv

(* A client has sent m.                                                       *)
Asked(s, kind, m) == [s EXCEPT !.pending[kind] = m, !.sent[kind] = @ + 1]

(* Only what is pending and the count of that kind change.                    *)
LEMMA AskedType ==
  ASSUME NEW s \in ClientStates, NEW kind \in Kinds, NEW m \in Messages,
         s.sent[kind] < MaxRequests
  PROVE  /\ Asked(s, kind, m) \in ClientStates
         /\ \A k \in Kinds :
              /\ Asked(s, kind, m).pending[k] = IF k = kind THEN m ELSE s.pending[k]
              /\ Asked(s, kind, m).sent[k] = IF k = kind THEN s.sent[kind] + 1
                                             ELSE s.sent[k]
              /\ s.sent[k] \in Nat
         /\ Asked(s, kind, m).answers = s.answers
         /\ Asked(s, kind, m).crashed = s.crashed
<1>. DEFINE a == Asked(s, kind, m)
<1>1. /\ a.pending = [s.pending EXCEPT ![kind] = m]
      /\ a.sent = [s.sent EXCEPT ![kind] = s.sent[kind] + 1]
      /\ a.answers = s.answers /\ a.crashed = s.crashed
  BY DEF ClientStates, Asked
<1>2. s.sent[kind] + 1 \in 0 .. MaxRequests
  BY UnreplicatedAssumption DEF ClientStates
<1>3. a \in ClientStates
  <2>1. /\ [s.pending EXCEPT ![kind] = m] \in [Kinds -> Messages \cup {NoMessage}]
        /\ [s.sent EXCEPT ![kind] = s.sent[kind] + 1] \in [Kinds -> 0 .. MaxRequests]
    BY <1>2 DEF ClientStates
  <2>. QED  BY <2>1 DEF ClientStates, Asked
<1>. HIDE DEF a
<1>4. \A k \in Kinds : s.sent[k] \in Nat
  BY DEF ClientStates
<1>5. s.pending \in [Kinds -> Messages \cup {NoMessage}] /\ s.sent \in [Kinds -> 0 .. MaxRequests]
  BY DEF ClientStates
<1>6. \A k \in Kinds : /\ a.pending[k] = IF k = kind THEN m ELSE s.pending[k]
                       /\ a.sent[k] = IF k = kind THEN s.sent[kind] + 1 ELSE s.sent[k]
  BY <1>1, <1>5
<1>. QED  BY <1>1, <1>3, <1>4, <1>6 DEF a

(* A client sends a request: it is a new one.                                 *)
LEMMA Ask ==
  ASSUME NEW F, NEW G, NEW cl, NEW ex, CallInv(F, G, cl, ex),
         NEW c \in Clients, NEW kind \in Kinds, NEW size \in 0 .. MaxFragments,
         cl[c].pending[kind] = NoMessage, cl[c].sent[kind] < MaxRequests,
         NEW m, m = Request(c, kind, cl[c].sent[kind] + 1, size)
  PROVE  /\ m \in Messages \ (F \cup G) /\ From(m) = c /\ To(m) = Server
         /\ CallInv(F \cup {m}, G, With(cl, c, Asked(cl[c], kind, m)), ex)
<1>. DEFINE cl2 == With(cl, c, Asked(cl[c], kind, m))
<1>1. /\ cl \in [Clients -> ClientStates] /\ cl[c] \in ClientStates
      /\ cl[c].sent[kind] \in 0 .. MaxRequests /\ MaxRequests \in Nat
  BY UnreplicatedAssumption DEF CallInv, ClientStates
<1>2. /\ m \in Messages /\ m.type = "REQUEST" /\ m.client = c /\ m.kind = kind
      /\ m.n = cl[c].sent[kind] + 1 /\ m.size = size
  BY <1>1 DEF Request, Messages
<1>3. \A p \in F \cup G : ~SameCall(p, m)
  <2>1. SUFFICES ASSUME NEW p \in F \cup G, p.client = c, p.kind = kind,
                        p.n = cl[c].sent[kind] + 1
                 PROVE FALSE
    BY <1>2 DEF SameCall
  <2>2. p.n <= cl[c].sent[kind]
    BY <2>1 DEF CallInv, SentOnes
  <2>. QED  BY <1>1, <2>1, <2>2
<1>4. m \notin F \cup G
  BY <1>3 DEF SameCall
<1>5. \A b \in Clients : /\ cl2[b] = IF b = c THEN Asked(cl[c], kind, m) ELSE cl[b]
                         /\ cl[b] \in ClientStates
  BY <1>1 DEF With
<1>6. cl2 \in [Clients -> ClientStates]
  BY <1>1, <1>2, AskedType DEF With
<1>. HIDE DEF cl2
<1>7. \A b \in Clients, k \in Kinds :
        /\ cl2[b].pending[k] = IF b = c /\ k = kind THEN m ELSE cl[b].pending[k]
        /\ cl2[b].sent[k] = IF b = c /\ k = kind THEN cl[c].sent[kind] + 1
                            ELSE cl[b].sent[k]
        /\ cl[b].sent[k] \in Nat
  <2>1. \A b \in Clients, k \in Kinds : cl[b].sent[k] \in Nat
    BY <1>1, <1>5 DEF ClientStates
  <2>. QED  BY <1>1, <1>2, <1>5, <2>1, AskedType
<1>8. \A b \in Clients : cl2[b].crashed = cl[b].crashed /\ cl2[b].answers = cl[b].answers
  BY <1>1, <1>2, <1>5, AskedType
<1>9. F \subseteq Messages /\ G \subseteq Messages
  BY DEF CallInv
<1>10. \A p \in F \cup G : p.client \in Clients /\ p.kind \in Kinds /\ p.n \in Nat
  BY <1>9 DEF Messages
<1>11. OnePerCall(F \cup {m}, G)
  BY <1>3 DEF CallInv, OnePerCall, SameCall
<1>12. Answered(F \cup {m}, G)
  BY <1>2 DEF CallInv, Answered
<1>13. SentOnes(F \cup {m}, G, cl2)
  <2>1. \A p \in F \cup G : p.n <= cl[p.client].sent[p.kind]
    BY DEF CallInv, SentOnes
  <2>2. \A p \in F \cup G : p.n <= cl2[p.client].sent[p.kind]
    BY <1>1, <1>7, <1>10, <2>1
  <2>3. m.n <= cl2[m.client].sent[m.kind]
    BY <1>1, <1>2, <1>7
  <2>. QED  BY <2>2, <2>3 DEF SentOnes
<1>14. PendingOK(F \cup {m}, cl2)
  <2>1. PendingOK(F, cl)
    BY DEF CallInv
  <2>2. \A b \in Clients, k \in Kinds :
          cl2[b].pending[k] # NoMessage =>
            \E z \in 0 .. MaxFragments :
              cl2[b].pending[k] = Request(b, k, cl2[b].sent[k], z)
    BY <1>1, <1>7, <2>1 DEF PendingOK
  <2>3. ASSUME NEW p \in F
        PROVE  cl2[p.client].pending[p.kind] = cl[p.client].pending[p.kind]
    BY <1>7, <1>10, <2>1 DEF PendingOK
  <2>4. m # NoMessage
    BY <1>2, UnreplicatedAssumption
  <2>. QED  BY <1>2, <1>7, <2>1, <2>2, <2>3, <2>4 DEF PendingOK
<1>15. AnswersOK(cl2)
  BY <1>8 DEF CallInv, AnswersOK
<1>16. CallInv(F \cup {m}, G, cl2, ex)
  BY <1>2, <1>4, <1>6, <1>11, <1>12, <1>13, <1>14, <1>15 DEF CallInv
<1>. QED  BY <1>2, <1>4, <1>16 DEF From, To, cl2

(* What an answer is.                                                         *)
LEMMA AnswerType ==
  ASSUME NEW m \in Messages, NEW size \in 0 .. MaxFragments
  PROVE  /\ Answer(m, size) \in Messages
         /\ Answer(m, size).type = "REPLY" /\ Answer(m, size).size = size
         /\ SameCall(Answer(m, size), m)
BY DEF Answer, Messages, SameCall

(* The server executes a request and answers it: the answer is a new one.     *)
LEMMA Serve ==
  ASSUME NEW F, NEW G, NEW cl, NEW ex, CallInv(F, G, cl, ex),
         NEW m \in F, m.type = "REQUEST", NEW size \in 0 .. MaxFragments,
         NEW r, r = Answer(m, size)
  PROVE  /\ r \in Messages \ (F \cup G) /\ r.type = "REPLY"
         /\ From(r) = Server /\ To(r) = From(m)
         /\ CallInv((F \ {m}) \cup {r}, G \cup {m}, cl,
                    IF m.kind = "logged" THEN Append(ex, m) ELSE ex)
<1>. DEFINE ex2 == IF m.kind = "logged" THEN Append(ex, m) ELSE ex
<1>1. /\ F \subseteq Messages /\ G \subseteq Messages /\ F \cap G = {} /\ m \in Messages
      /\ OnePerCall(F, G) /\ Answered(F, G) /\ SentOnes(F, G, cl) /\ PendingOK(F, cl)
      /\ ExecutedOK(G, ex)
  BY DEF CallInv
<1>2. /\ r \in Messages /\ r.type = "REPLY" /\ SameCall(r, m) /\ r.size = size
  BY <1>1, AnswerType
<1>3. \A p \in F \cup G : p.type = "REPLY" => ~SameCall(p, r)
  <2>1. SUFFICES ASSUME NEW p \in F \cup G, p.type = "REPLY", SameCall(p, r) PROVE FALSE
    OBVIOUS
  <2>2. PICK q \in G : q.type = "REQUEST" /\ SameCall(p, q)
    BY <1>1, <2>1 DEF Answered
  <2>3. SameCall(m, q)
    BY <1>2, <2>1, <2>2 DEF SameCall
  <2>. QED  BY <1>1, <2>2, <2>3 DEF OnePerCall
<1>4. r \notin F \cup G
  BY <1>2, <1>3 DEF SameCall
<1>5. From(r) = Server /\ To(r) = From(m)
  BY <1>2 DEF From, To, SameCall
<1>. DEFINE F2 == (F \ {m}) \cup {r}
            G2 == G \cup {m}
<1>6. F2 \subseteq Messages /\ G2 \subseteq Messages /\ F2 \cap G2 = {}
  BY <1>1, <1>2, <1>4
<1>7. OnePerCall(F2, G2)
  BY <1>1, <1>2, <1>3 DEF OnePerCall, SameCall
<1>8. Answered(F2, G2)
  BY <1>1, <1>2 DEF Answered
<1>9. SentOnes(F2, G2, cl)
  BY <1>1, <1>2 DEF SentOnes, SameCall
<1>10. PendingOK(F2, cl)
  BY <1>1, <1>2 DEF PendingOK, SameCall
<1>11. ExecutedOK(G2, ex2)
  <2>1. CASE m.kind = "logged"
    <3>1. ex2 = Append(ex, m) /\ ex \in Seq(Messages) /\ Len(ex) \in Nat
      BY <1>1, <2>1 DEF ExecutedOK
    <3>2. /\ ex2 \in Seq(Messages) /\ DOMAIN ex2 = 1 .. Len(ex) + 1
          /\ DOMAIN ex = 1 .. Len(ex)
          /\ \A i \in 1 .. Len(ex) : ex2[i] = ex[i]
          /\ ex2[Len(ex) + 1] = m
      BY <1>1, <3>1, AppendProperties
    <3>. HIDE DEF ex2
    <3>3. \A i \in DOMAIN ex : ex[i] # m /\ ex[i] \in G /\ ex[i].type = "REQUEST"
      BY <1>1 DEF ExecutedOK
    <3>4. \A i \in DOMAIN ex2 : ex2[i] \in G2 /\ ex2[i].type = "REQUEST"
      <4>1. SUFFICES ASSUME NEW i \in DOMAIN ex2 PROVE ex2[i] \in G2 /\ ex2[i].type = "REQUEST"
        OBVIOUS
      <4>2. CASE i = Len(ex) + 1
        BY <3>2, <4>2
      <4>3. CASE i # Len(ex) + 1
        BY <3>1, <3>2, <3>3, <4>3
      <4>. QED  BY <4>2, <4>3
    <3>5. IsInjective(ex2)
      <4>1. SUFFICES ASSUME NEW i \in DOMAIN ex2, NEW j \in DOMAIN ex2, ex2[i] = ex2[j]
                     PROVE  i = j
        BY DEF IsInjective
      <4>2. i \in 1 .. Len(ex) \/ i = Len(ex) + 1
        BY <3>1, <3>2
      <4>3. j \in 1 .. Len(ex) \/ j = Len(ex) + 1
        BY <3>1, <3>2
      <4>4. \A a, b \in DOMAIN ex : ex[a] = ex[b] => a = b
        BY <1>1 DEF ExecutedOK, IsInjective
      <4>. QED  BY <3>2, <3>3, <4>1, <4>2, <4>3, <4>4
    <3>. QED  BY <3>2, <3>4, <3>5 DEF ExecutedOK
  <2>2. CASE m.kind # "logged"
    BY <1>1, <2>2 DEF ExecutedOK
  <2>. QED  BY <2>1, <2>2
<1>12. CallInv(F2, G2, cl, ex2)
  BY <1>6, <1>7, <1>8, <1>9, <1>10, <1>11 DEF CallInv
<1>. QED  BY <1>2, <1>4, <1>5, <1>12

(* A client takes an answer while its request is pending: nothing is pending  *)
(* any more, and the answer is recorded.                                      *)
LEMMA TakenType ==
  ASSUME NEW s \in ClientStates, NEW message, NEW m \in Messages, Of(message.data) = m,
         ~s.crashed, s.pending[m.kind] # NoMessage
  PROVE  /\ HandleReply(s, message) \in ClientStates
         /\ \A k \in Kinds : HandleReply(s, message).pending[k] =
                               IF k = m.kind THEN NoMessage ELSE s.pending[k]
         /\ HandleReply(s, message).sent = s.sent
         /\ ~HandleReply(s, message).crashed
         /\ HandleReply(s, message).answers =
              s.answers \cup {[asked |-> s.pending[m.kind], told |-> m]}
<1>. DEFINE p == s.pending[m.kind]
            a == [s EXCEPT !.pending[m.kind] = NoMessage,
                           !.answers = @ \cup {[asked |-> p, told |-> m]}]
<1>1. HandleReply(s, message) = a
  BY DEF HandleReply, Of
<1>2. m.kind \in Kinds /\ p \in Messages
  BY DEF Messages, ClientStates
<1>. HIDE DEF p
<1>3. /\ a.pending = [s.pending EXCEPT ![m.kind] = NoMessage]
      /\ a.answers = s.answers \cup {[asked |-> p, told |-> m]}
      /\ a.sent = s.sent /\ a.crashed = s.crashed
  BY DEF ClientStates
<1>4. a \in ClientStates
  <2>1. /\ [s.pending EXCEPT ![m.kind] = NoMessage] \in [Kinds -> Messages \cup {NoMessage}]
        /\ s.answers \cup {[asked |-> p, told |-> m]} \in SUBSET [asked : Messages, told : Messages]
    BY <1>2 DEF ClientStates
  <2>. QED  BY <2>1 DEF ClientStates
<1>. HIDE DEF a
<1>5. s.pending \in [Kinds -> Messages \cup {NoMessage}]
  BY DEF ClientStates
<1>6. \A k \in Kinds : a.pending[k] = IF k = m.kind THEN NoMessage ELSE s.pending[k]
  BY <1>2, <1>3, <1>5
<1>. QED  BY <1>1, <1>3, <1>4, <1>6 DEF p

(* What a client takes is the answer to what it asked.                        *)
LEMMA Take ==
  ASSUME NEW F, NEW G, NEW cl, NEW ex, CallInv(F, G, cl, ex),
         NEW m \in F, m.type = "REPLY", NEW c, c = m.client,
         NEW message, Of(message.data) = m
  PROVE  CallInv(F \ {m}, G \cup {m}, With(cl, c, HandleReply(cl[c], message)), ex)
<1>. DEFINE cl2 == With(cl, c, HandleReply(cl[c], message))
<1>1. /\ F \subseteq Messages /\ G \subseteq Messages /\ F \cap G = {} /\ m \in Messages
      /\ OnePerCall(F, G) /\ Answered(F, G) /\ SentOnes(F, G, cl) /\ PendingOK(F, cl)
      /\ ExecutedOK(G, ex) /\ AnswersOK(cl)
      /\ cl \in [Clients -> ClientStates]
  BY DEF CallInv
<1>2. c \in Clients /\ m.kind \in Kinds /\ cl[c] \in ClientStates
  BY <1>1 DEF Messages
<1>. DEFINE p == cl[c].pending[m.kind]
<1>3. p # NoMessage /\ p.n = m.n /\ ~cl[c].crashed
  BY <1>1, <1>2 DEF PendingOK, AnswersOK
<1>4. PICK size \in 0 .. MaxFragments : p = Request(c, m.kind, cl[c].sent[m.kind], size)
  BY <1>1, <1>2, <1>3 DEF PendingOK
<1>5. m = Answer(p, m.size)
  <2>. HIDE DEF p
  <2>1. p \in Messages /\ SameCall(p, m)
    BY <1>1, <1>2, <1>3, <1>4 DEF Request, Messages, SameCall
  <2>2. m.size \in 0 .. MaxFragments
    BY <1>1 DEF Messages
  <2>. DEFINE r == Answer(p, m.size)
  <2>3. /\ r \in Messages /\ r.type = "REPLY" /\ r.size = m.size
        /\ r.client = m.client /\ r.kind = m.kind /\ r.n = m.n
    BY <2>1, <2>2, AnswerType DEF SameCall
  <2>. HIDE DEF r
  <2>4. r = m
    BY <1>1, <2>3 DEF Messages
  <2>. QED  BY <2>4 DEF r
<1>. DEFINE a == HandleReply(cl[c], message)
<1>6. /\ a \in ClientStates
      /\ \A k \in Kinds : a.pending[k] = IF k = m.kind THEN NoMessage ELSE cl[c].pending[k]
      /\ a.sent = cl[c].sent /\ ~a.crashed
      /\ a.answers = cl[c].answers \cup {[asked |-> p, told |-> m]}
  BY <1>1, <1>2, <1>3, TakenType
<1>. HIDE DEF a, p
<1>7. \A b \in Clients : cl2[b] = IF b = c THEN a ELSE cl[b]
  BY <1>1 DEF a, With
<1>8. cl2 \in [Clients -> ClientStates]
  BY <1>1, <1>6 DEF a, With
<1>. HIDE DEF cl2
<1>9. OnePerCall(F \ {m}, G \cup {m}) /\ Answered(F \ {m}, G \cup {m})
  BY <1>1 DEF OnePerCall, Answered
<1>10. \A q \in F \cup G : q.client \in Clients /\ q.kind \in Kinds
  BY <1>1 DEF Messages
<1>11. SentOnes(F \ {m}, G \cup {m}, cl2)
  <2>1. \A b \in Clients : cl2[b].sent = cl[b].sent
    BY <1>6, <1>7
  <2>. QED  BY <1>1, <1>10, <2>1 DEF SentOnes
<1>12. \A q \in F \ {m} : ~(q.client = c /\ q.kind = m.kind)
  <2>1. SUFFICES ASSUME NEW q \in F \ {m}, q.client = c, q.kind = m.kind PROVE FALSE
    OBVIOUS
  <2>2. p.n = q.n
    BY <1>1, <2>1 DEF PendingOK, p
  <2>3. SameCall(q, m)
    BY <1>3, <2>1, <2>2 DEF SameCall
  <2>4. q.type = "REQUEST"
    BY <1>1, <2>1, <2>3 DEF OnePerCall, Messages
  <2>5. PICK r \in G : r.type = "REQUEST" /\ SameCall(m, r)
    BY <1>1 DEF Answered
  <2>6. SameCall(q, r)
    BY <2>3, <2>5 DEF SameCall
  <2>. QED  BY <1>1, <2>1, <2>4, <2>5, <2>6 DEF OnePerCall
<1>13. PendingOK(F \ {m}, cl2)
  <2>1. ASSUME NEW b \in Clients, NEW k \in Kinds, cl2[b].pending[k] # NoMessage
        PROVE  \E z \in 0 .. MaxFragments :
                 cl2[b].pending[k] = Request(b, k, cl2[b].sent[k], z)
    <3>1. cl2[b].pending[k] = cl[b].pending[k] /\ cl2[b].sent = cl[b].sent
      BY <1>6, <1>7, <2>1
    <3>. QED  BY <1>1, <2>1, <3>1 DEF PendingOK
  <2>2. ASSUME NEW q \in F \ {m}
        PROVE  cl2[q.client].pending[q.kind] = cl[q.client].pending[q.kind]
    BY <1>6, <1>7, <1>10, <1>12
  <2>. QED  BY <1>1, <2>1, <2>2 DEF PendingOK
<1>14. ExecutedOK(G \cup {m}, ex)
  BY <1>1 DEF ExecutedOK
<1>15. AnswersOK(cl2)
  BY <1>1, <1>5, <1>6, <1>7 DEF AnswersOK
<1>16. CallInv(F \ {m}, G \cup {m}, cl2, ex)
  BY <1>1, <1>8, <1>9, <1>11, <1>13, <1>14, <1>15 DEF CallInv
<1>. QED  BY <1>16 DEF cl2

-----------------------------------------------------------------------------
(* The steps.                                                                 *)

(* Nothing is anywhere at first.                                              *)
LEMMA InitIInv == Init => IInv
<1>1. SUFFICES ASSUME Init PROVE IInv
  OBVIOUS
<1>2. /\ net = {} /\ handed = {} /\ executed = << >>
      /\ transport = [n \in Nodes |-> InitTransport(Nodes)]
      /\ client = [c \in Clients |-> NewClient]
  BY <1>1 DEF Init
<1>3. InitTransport(Nodes) \in Transports
  <2>1. NoFragments \in [msgId : Nat, data : Fragments]
    BY DEF NoFragments, Fragments
  <2>. HIDE DEF NoFragments
  <2>. QED  BY <2>1 DEF InitTransport, Transports
<1>4. \A n, s \in Nodes : /\ transport[n].fragInfo[s].data = << >>
                          /\ transport[n].reorderBuffer = NoMessage
  BY <1>2 DEF InitTransport, NoFragments
<1>5. NetInv(net, transport, handed)
  <2>1. transport \in [Nodes -> Transports]
    BY <1>2, <1>3
  <2>2. NumbersOK(net) /\ JoiningOK(net, transport) /\ HeldOK(transport) /\ HandedOK(handed)
    BY <1>2, <1>4 DEF NumbersOK, JoiningOK, JoinOK, HeldOK, HandedOK
  <2>3. HeldIn(transport) = {} /\ Given(handed) = {}
    BY <1>2, <1>4 DEF HeldIn, Given
  <2>. QED  BY <1>2, <2>1, <2>2, <2>3 DEF NetInv
<1>6. Flight(net, transport) = {} /\ Given(handed) = {}
  BY <1>2, <1>4 DEF Flight, CarriedBy, JoinedIn, HeldIn, Given
<1>7. CallInv({}, {}, client, executed)
  <2>1. 0 \in 0 .. MaxRequests
    BY UnreplicatedAssumption
  <2>2. NewClient \in ClientStates
    BY <2>1 DEF NewClient, ClientStates
  <2>3. \A c \in Clients : /\ client[c].answers = {} /\ ~client[c].crashed
                           /\ \A k \in Kinds : client[c].pending[k] = NoMessage
    BY <1>2 DEF NewClient
  <2>4. client \in [Clients -> ClientStates]
    BY <1>2, <2>2
  <2>5. ExecutedOK({}, executed)
    BY <1>2 DEF ExecutedOK, IsInjective
  <2>. QED
    BY <2>3, <2>4, <2>5
    DEF CallInv, OnePerCall, Answered, SentOnes, PendingOK, AnswersOK
<1>. QED  BY <1>5, <1>6, <1>7 DEF IInv

(* Invoke.                                                                    *)
LEMMA InvokeStep ==
  ASSUME IInv, NEW c \in Clients, NEW kind \in Kinds, Invoke(c, kind)
  PROVE  IInv'
<1>1. PICK size \in 0 .. MaxFragments :
        LET m == Request(c, kind, client[c].sent[kind] + 1, size) IN
        /\ client' = [client EXCEPT ![c].pending[kind] = m,
                                    ![c].sent[kind] = @ + 1]
        /\ net' = net \cup Datagrams(transport[c], c, Server, m)
        /\ transport' = [transport EXCEPT ![c] = Numbered(@, m)]
  BY DEF Invoke
<1>. DEFINE m == Request(c, kind, client[c].sent[kind] + 1, size)
            F == Flight(net, transport)
            G == Given(handed)
<1>2. client[c].pending[kind] = NoMessage /\ client[c].sent[kind] < MaxRequests
      /\ handed' = handed /\ executed' = executed
  BY DEF Invoke
<1>3. client' = With(client, c, Asked(client[c], kind, m))
  BY <1>1, Zenon DEF Asked, With
<1>. HIDE DEF m, F, G
<1>4. CallInv(F, G, client, executed) /\ NetInv(net, transport, handed)
  BY DEF IInv, F, G
<1>5. /\ m \in Messages \ (F \cup G) /\ From(m) = c /\ To(m) = Server
      /\ CallInv(F \cup {m}, G, With(client, c, Asked(client[c], kind, m)), executed)
  BY <1>2, <1>4, Ask DEF m
<1>6. /\ NetInv(net', transport', handed)
      /\ Flight(net', transport') \subseteq F \cup {m}
  <2>1. c \in Nodes /\ Server \in Nodes /\ m \notin Flight(net, transport) \cup Given(handed)
    BY <1>5 DEF Nodes, F, G
  <2>2. /\ net' = net \cup Datagrams(transport[c], c, Server, m)
        /\ transport' = With(transport, c, Numbered(transport[c], m))
    BY <1>1 DEF m, With
  <2>3. HasSent(net, transport, handed, c, Server, m)
    BY <1>4, <1>5, <2>1, Send
  <2>. QED  BY <2>2, <2>3 DEF F, HasSent
<1>7. CallInv(Flight(net', transport'), G, client', executed)
  BY <1>3, <1>5, <1>6, Fewer
<1>. QED  BY <1>2, <1>6, <1>7 DEF IInv, G

(* The last value given counts.                                               *)
LEMMA BufferedAgain ==
  ASSUME NEW tr \in [Nodes -> Transports], NEW n \in Nodes, NEW t, NEW b
  PROVE  Buffered(With(tr, n, t), n, b) = With(tr, n, Holds(t, b))
<1>1. With(tr, n, t)[n] = t
  BY DEF With
<1>. DEFINE v == Holds(t, b)
<1>2. Buffered(With(tr, n, t), n, b) = With(With(tr, n, t), n, v)
  BY <1>1 DEF Buffered
<1>. HIDE DEF v
<1>3. With(With(tr, n, t), n, v) = With(tr, n, v)
  BY DEF With
<1>. QED  BY <1>2, <1>3 DEF v

(* Whom a message is delivered to tells what it is.                           *)
LEMMA Recipient ==
  ASSUME NEW m \in Messages, NEW n \in Nodes, n = To(m)
  PROVE  /\ n = Server => m.type = "REQUEST" /\ From(m) = m.client
         /\ n \in Clients => m.type = "REPLY" /\ m.client = n
BY UnreplicatedAssumption DEF To, From, Messages, Nodes

(* OnReadable, when the datagram completes no message or the message is       *)
(* dropped.                                                                   *)
LEMMA DropStep ==
  ASSUME IInv, NEW n \in Nodes, NEW d \in net, d.dst = n,
         Drop(n, Received(transport[n], d).transport, net \ {d})
  PROVE  IInv'
<1>. DEFINE t == Received(transport[n], d).transport
<1>1. NetInv(net, transport, handed)
      /\ CallInv(Flight(net, transport), Given(handed), client, executed)
  BY DEF IInv
<1>2. /\ transport' = With(transport, n, t) /\ net' = net \ {d}
      /\ executed' = executed /\ client' = client /\ handed' = handed
  BY DEF Drop, With
<1>3. /\ NetInv(net \ {d}, With(transport, n, t), handed)
      /\ Flight(net \ {d}, With(transport, n, t)) \subseteq Flight(net, transport)
  <2>1. HasReceived(net, transport, handed, n, d, Received(transport[n], d))
    BY <1>1, Receive
  <2>. QED  BY <2>1 DEF HasReceived
<1>. HIDE DEF t
<1>4. CallInv(Flight(net', transport'), Given(handed'), client', executed')
  BY <1>1, <1>2, <1>3, Fewer
<1>. QED  BY <1>2, <1>3, <1>4 DEF IInv

(* OnReadable, when the message is held back.                                 *)
LEMMA HoldStep ==
  ASSUME IInv, NEW n \in Nodes, NEW d \in net, d.dst = n,
         Received(transport[n], d).data # << >>,
         Hold(n, Received(transport[n], d).transport,
              [data |-> Received(transport[n], d).data, src |-> d.src], net \ {d})
  PROVE  IInv'
<1>. DEFINE got     == Received(transport[n], d)
            message == [data |-> got.data, src |-> d.src]
            t       == got.transport
            tr1     == With(transport, n, t)
            rest    == net \ {d}
            m       == Of(message.data)
<1>1. /\ NetInv(net, transport, handed) /\ transport \in [Nodes -> Transports]
      /\ CallInv(Flight(net, transport), Given(handed), client, executed)
      /\ Flight(net, transport) \cap Given(handed) = {}
  BY DEF IInv, NetInv
<1>2. /\ transport' = With(transport, n, Holds(t, message)) /\ net' = rest
      /\ executed' = executed /\ client' = client /\ handed' = handed
  BY DEF Hold, With
<1>3. /\ NetInv(rest, tr1, handed)
      /\ Flight(rest, tr1) \subseteq Flight(net, transport) /\ tr1[n] = t
      /\ Of(got.data) \in Flight(net, transport) /\ Of(got.data) \notin Flight(rest, tr1)
      /\ got.data \in Fragments /\ d.src \in Nodes /\ Complete(got.data, d.src, n)
  <2>1. HasReceived(net, transport, handed, n, d, got)
    BY <1>1, Receive
  <2>. HIDE DEF got
  <2>2. got.data # << >>
    BY DEF got
  <2>. QED  BY <2>1, <2>2 DEF HasReceived
<1>4. message.data = got.data /\ message.src = d.src
  OBVIOUS
<1>5. /\ message \in Holdable /\ Complete(message.data, message.src, n)
      /\ m \in Flight(net, transport) /\ m \notin Flight(rest, tr1) /\ m \notin Given(handed)
  BY <1>1, <1>3, <1>4 DEF Holdable
<1>. HIDE DEF got, message, t, tr1, rest, m
<1>6. m \notin CarriedBy(rest) \cup JoinedIn(tr1) \cup Given(handed)
  BY <1>5 DEF Flight
<1>7. transport' = Buffered(tr1, n, message)
  BY <1>1, <1>2, BufferedAgain DEF tr1
<1>8. /\ NetInv(rest, Buffered(tr1, n, message), handed)
      /\ Flight(rest, Buffered(tr1, n, message)) \subseteq Flight(rest, tr1) \cup
           (IF message # NoMessage THEN {m} ELSE {})
  <2>1. HasBuffered(rest, tr1, handed, n, message)
    BY <1>3, <1>5, <1>6, Buffer DEF m
  <2>. QED  BY <2>1 DEF HasBuffered, m
<1>9. Flight(net', transport') \subseteq Flight(net, transport)
  BY <1>2, <1>3, <1>5, <1>7, <1>8
<1>10. CallInv(Flight(net', transport'), Given(handed'), client', executed')
  BY <1>1, <1>2, <1>9, Fewer
<1>. QED  BY <1>2, <1>7, <1>8, <1>10 DEF IInv

(* Both messages were in flight, to n, and are handed over.                   *)
HandedOver(n, message, next, F, G, ds, tr, hs) ==
  /\ NetInv(ds, tr, hs) /\ Flight(ds, tr) \subseteq F
  /\ Of(message.data) \in F \ Flight(ds, tr)
  /\ n = To(Of(message.data)) /\ message.src = From(Of(message.data))
  /\ next = NoMessage => Given(hs) = G \cup {Of(message.data)}
  /\ next # NoMessage =>
       /\ Of(next.data) \in F \ {Of(message.data)}
       /\ Of(next.data) \notin Flight(ds, tr)
       /\ n = To(Of(next.data)) /\ next.src = From(Of(next.data))
       /\ Given(hs) = (G \cup {Of(message.data)}) \cup {Of(next.data)}

(* OnReadable, when a message and the one held back are delivered: what is    *)
(* left on the way when both are handed over.                                 *)
LEMMA Delivered ==
  ASSUME IInv, NEW n \in Nodes, NEW d \in net, d.dst = n,
         Received(transport[n], d).data # << >>,
         Deliver(n, Received(transport[n], d).transport,
                 [data |-> Received(transport[n], d).data, src |-> d.src], net \ {d})
  PROVE  LET got     == Received(transport[n], d)
             message == [data |-> got.data, src |-> d.src]
             next    == got.transport.reorderBuffer
             tr2     == With(transport, n, Holds(got.transport, NoMessage))
             m       == Of(message.data)
             F       == Flight(net, transport)
             G       == Given(handed)
         IN  HandedOver(n, message, next, F, G, net \ {d}, tr2, handed')
             /\ tr2[n] = Holds(got.transport, NoMessage)
<1>. DEFINE got     == Received(transport[n], d)
            message == [data |-> got.data, src |-> d.src]
            next    == got.transport.reorderBuffer
            tr2     == With(transport, n, Holds(got.transport, NoMessage))
            t   == got.transport
            tr1 == With(transport, n, t)
            rest == net \ {d}
            m   == Of(message.data)
            F   == Flight(net, transport)
            G   == Given(handed)
<1>1. /\ NetInv(net, transport, handed) /\ transport \in [Nodes -> Transports]
  BY DEF IInv, NetInv
<1>2. handed' = handed \cup {Delivery(n, message)}
                  \cup (IF next = NoMessage THEN {} ELSE {Delivery(n, next)})
  <2>. HIDE DEF got
  <2>. QED  BY DEF Deliver, Dispatched, got
<1>3. /\ NetInv(rest, tr1, handed)
      /\ Flight(rest, tr1) \subseteq F /\ tr1[n] = t
      /\ Of(got.data) \in F /\ Of(got.data) \notin Flight(rest, tr1)
      /\ got.data \in Fragments /\ d.src \in Nodes /\ Complete(got.data, d.src, n)
  <2>1. HasReceived(net, transport, handed, n, d, got)
    BY <1>1, Receive
  <2>. HIDE DEF got
  <2>2. got.data # << >>
    BY DEF got
  <2>. QED  BY <2>1, <2>2 DEF HasReceived
<1>4. message.data = got.data /\ message.src = d.src
  OBVIOUS
<1>5. tr2 = Buffered(tr1, n, NoMessage)
  <2>. HIDE DEF got
  <2>. QED  BY <1>1, BufferedAgain
<1>. HIDE DEF got, message, next, tr2, t, tr1, rest, F, G
<1>6. HasBuffered(rest, tr1, handed, n, NoMessage)
  BY <1>3, Buffer
<1>7. /\ NetInv(rest, tr2, handed) /\ Flight(rest, tr2) \subseteq Flight(rest, tr1)
      /\ tr2[n] = Holds(t, NoMessage)
      /\ next # NoMessage => /\ Of(next.data) \in Flight(rest, tr1)
                             /\ Of(next.data) \notin Flight(rest, tr2)
  BY <1>3, <1>5, <1>6 DEF t, next, HasBuffered
<1>8. m \in F /\ m \notin Flight(rest, tr1) /\ Complete(message.data, message.src, n)
      /\ m \notin Flight(rest, tr2)
  BY <1>3, <1>4, <1>7
<1>9. next # NoMessage => Complete(next.data, next.src, n) /\ next \in Holdable
  <2>1. HeldOK(tr1) /\ tr1[n] \in Transports
    BY <1>3 DEF NetInv
  <2>. QED  BY <1>3, <2>1 DEF HeldOK, Transports, t, next
<1>. DEFINE h1 == Delivery(n, message)
            h2 == Delivery(n, next)
<1>10. h1 \in Deliveries /\ h1.data = message.data /\ h1.from = message.src /\ h1.to = n
  BY <1>3, <1>4 DEF Delivery, Deliveries
<1>11. next # NoMessage =>
         h2 \in Deliveries /\ h2.data = next.data /\ h2.from = next.src /\ h2.to = n
  BY <1>9 DEF Delivery, Deliveries, Holdable
<1>. HIDE DEF h1, h2, m
<1>12. /\ NetInv(rest, tr2, handed \cup {h1})
       /\ Given(handed \cup {h1}) = G \cup {m}
  <2>1. HasGiven(rest, tr2, handed, h1)
    BY <1>7, <1>8, <1>10, Give DEF m
  <2>. QED  BY <1>10, <2>1 DEF HasGiven, m, G
<1>13. ASSUME next = NoMessage
       PROVE  HandedOver(n, message, next, F, G, rest, tr2, handed')
  <2>1. handed' = handed \cup {h1}
    BY <1>2, <1>13 DEF h1
  <2>2. n = To(m) /\ message.src = From(m)
    BY <1>8 DEF Complete, m
  <2>. QED  BY <1>3, <1>7, <1>8, <1>12, <1>13, <2>1, <2>2 DEF HandedOver, m
<1>14. ASSUME next # NoMessage
       PROVE  HandedOver(n, message, next, F, G, rest, tr2, handed')
  <2>1. handed' = (handed \cup {h1}) \cup {h2}
    BY <1>2, <1>14 DEF h1, h2
  <2>2. /\ NetInv(rest, tr2, (handed \cup {h1}) \cup {h2})
        /\ Given((handed \cup {h1}) \cup {h2}) = Given(handed \cup {h1}) \cup {Of(h2.data)}
    <3>1. HasGiven(rest, tr2, handed \cup {h1}, h2)
      BY <1>7, <1>9, <1>11, <1>12, <1>14, Give
    <3>. QED  BY <3>1 DEF HasGiven
  <2>3. Of(next.data) \in F \ {m}
    BY <1>3, <1>7, <1>8, <1>14
  <2>4. n = To(Of(next.data)) /\ next.src = From(Of(next.data))
    BY <1>9, <1>14 DEF Complete
  <2>5. n = To(m) /\ message.src = From(m)
    BY <1>8 DEF Complete, m
  <2>. QED
    BY <1>3, <1>7, <1>8, <1>11, <1>12, <1>14, <2>1, <2>2, <2>3, <2>4, <2>5
    DEF HandedOver, m
<1>15. HandedOver(n, message, next, F, G, rest, tr2, handed') /\ tr2[n] = Holds(t, NoMessage)
  BY <1>7, <1>13, <1>14
<1>. QED  BY <1>15 DEF got, message, next, tr2, t, rest, F, G

(* The last value given counts.                                               *)
LEMMA WithAgain ==
  ASSUME NEW f, NEW x \in DOMAIN f, NEW v, NEW w
  PROVE  With(f, x, v)[x] = v /\ With(With(f, x, v), x, w) = With(f, x, w)
BY DEF With

(* The server on its way through the messages delivered: F has those yet to   *)
(* be handled and what is on its way, G those handled before.                 *)
Serving(x, F, G, rest, tr, hs, cl) ==
  /\ tr \in [Nodes -> Transports]
  /\ NetInv(rest \cup x.out, With(tr, Server, x.transport), hs)
  /\ Flight(rest \cup x.out, With(tr, Server, x.transport)) \subseteq F
  /\ Given(hs) \subseteq F \cup G
  /\ CallInv(F, G, cl, x.executed)

(* Once it has handled a message, the answer r is on its way.                 *)
Handled(x, message, size, F, G, rest, tr, hs, cl, r) ==
  LET m == Of(message.data)
      y == HandleRequest(x, message, size)
  IN  /\ Serving(y, (F \ {m}) \cup {r}, G \cup {m}, rest, tr, hs, cl)
      /\ Flight(rest \cup y.out, With(tr, Server, y.transport)) \subseteq
           Flight(rest \cup x.out, With(tr, Server, x.transport)) \cup {r}

HasHandled(x, message, size, F, G, rest, tr, hs, cl) ==
  \E r \in Messages \ (F \cup G) :
    Handled(x, message, size, F, G, rest, tr, hs, cl, r)

(* HandleRequest.                                                             *)
LEMMA Handle ==
  ASSUME NEW x, NEW F, NEW G, NEW rest, NEW tr, NEW hs, NEW cl,
         Serving(x, F, G, rest, tr, hs, cl), NEW message,
         Of(message.data) \in F,
         Of(message.data) \notin
           Flight(rest \cup x.out, With(tr, Server, x.transport)),
         Of(message.data).type = "REQUEST",
         message.src = From(Of(message.data)), NEW size \in 0 .. MaxFragments
  PROVE  HasHandled(x, message, size, F, G, rest, tr, hs, cl)
<1>. DEFINE m   == Of(message.data)
            r   == Answer(m, size)
            y   == HandleRequest(x, message, size)
            ds  == rest \cup x.out
            tr1 == With(tr, Server, x.transport)
            tr2 == With(tr, Server, y.transport)
            ex2 == IF m.kind = "logged" THEN Append(x.executed, m) ELSE x.executed
            t2  == Numbered(x.transport, r)
            D   == Datagrams(x.transport, Server, message.src, r)
<1>1. y.executed = ex2 /\ y.transport = t2 /\ y.out = x.out \cup D
  BY DEF HandleRequest, Of
<1>2. /\ tr \in [Nodes -> Transports] /\ NetInv(ds, tr1, hs)
      /\ Flight(ds, tr1) \subseteq F /\ Given(hs) \subseteq F \cup G
      /\ CallInv(F, G, cl, x.executed) /\ m \in F /\ m \notin Flight(ds, tr1)
      /\ m.type = "REQUEST" /\ message.src = From(m)
  BY DEF Serving
<1>3. m \in Messages
  BY <1>2 DEF CallInv
<1>4. Server \in Nodes /\ DOMAIN tr = Nodes
  BY <1>2 DEF Nodes
<1>5. tr1[Server] = x.transport
  BY <1>4, WithAgain
<1>6. tr2 = With(tr1, Server, Numbered(tr1[Server], r))
  <2>. HIDE DEF r
  <2>1. tr2 = With(tr, Server, t2) /\ Numbered(tr1[Server], r) = t2
    BY <1>1, <1>5
  <2>. HIDE DEF t2, y, tr2
  <2>2. With(tr1, Server, t2) = With(tr, Server, t2)
    BY <1>4, WithAgain
  <2>. QED  BY <2>1, <2>2
<1>. HIDE DEF m, r, y, ds, tr1, tr2, ex2, t2, D
<1>7. /\ r \in Messages \ (F \cup G) /\ r.type = "REPLY"
      /\ From(r) = Server /\ To(r) = From(m)
      /\ CallInv((F \ {m}) \cup {r}, G \cup {m}, cl, ex2)
  BY <1>2, Serve DEF r, ex2
<1>8. r \notin Flight(ds, tr1) \cup Given(hs) /\ To(r) \in Nodes
  <2>1. From(m) \in Nodes
    BY <1>3, <1>4 DEF From, Messages, Nodes
  <2>. QED  BY <1>2, <1>7, <2>1
<1>9. HasSent(ds, tr1, hs, Server, To(r), r)
  BY <1>2, <1>4, <1>7, <1>8, Send
<1>10. D = Datagrams(tr1[Server], Server, To(r), r)
  BY <1>2, <1>5, <1>7 DEF D
<1>11. NetInv(ds \cup D, tr2, hs) /\ Flight(ds \cup D, tr2) \subseteq Flight(ds, tr1) \cup {r}
  BY <1>6, <1>9, <1>10 DEF HasSent
<1>12. ds \cup D = rest \cup y.out /\ tr2 = With(tr, Server, y.transport)
  BY <1>1 DEF ds, tr2
<1>13. /\ NetInv(rest \cup y.out, With(tr, Server, y.transport), hs)
       /\ Flight(rest \cup y.out, With(tr, Server, y.transport))
            \subseteq Flight(ds, tr1) \cup {r}
  BY <1>11, <1>12
<1>14. Serving(y, (F \ {m}) \cup {r}, G \cup {m}, rest, tr, hs, cl)
  <2>1. Flight(rest \cup y.out, With(tr, Server, y.transport)) \subseteq (F \ {m}) \cup {r}
    BY <1>2, <1>13
  <2>2. Given(hs) \subseteq ((F \ {m}) \cup {r}) \cup (G \cup {m})
    BY <1>2
  <2>3. CallInv((F \ {m}) \cup {r}, G \cup {m}, cl, y.executed)
    BY <1>1, <1>7
  <2>. QED  BY <1>2, <1>13, <2>1, <2>2, <2>3 DEF Serving
<1>15. Handled(x, message, size, F, G, rest, tr, hs, cl, r)
  BY <1>13, <1>14 DEF Handled, m, y, ds, tr1
<1>. QED  BY <1>7, <1>15 DEF HasHandled, m

(* OnReadable, when what is delivered is delivered to the server.             *)
LEMMA ServerStep ==
  ASSUME IInv, NEW d \in net, d.dst = Server,
         Received(transport[Server], d).data # << >>,
         Deliver(Server, Received(transport[Server], d).transport,
                 [data |-> Received(transport[Server], d).data, src |-> d.src],
                 net \ {d})
  PROVE  IInv'
<1>. DEFINE got     == Received(transport[Server], d)
            message == [data |-> got.data, src |-> d.src]
            out     == Dispatched(got.transport, message)
            next    == got.transport.reorderBuffer
            t2      == Holds(got.transport, NoMessage)
            tr2     == With(transport, Server, t2)
            rest    == net \ {d}
            m       == Of(message.data)
            F       == Flight(net, transport)
            G       == Given(handed)
<1>1. out.transport = t2 /\ out.first = message /\ out.next = next
  <2>. HIDE DEF got, message
  <2>. QED  BY DEF Dispatched
<1>2. DeliverToServer(out, rest)
  BY UnreplicatedAssumption DEF Deliver
<1>. HIDE DEF got, message, out, next, t2, tr2, rest, m, F, G
<1>3. PICK size \in 0 .. MaxFragments, nextSize \in 0 .. MaxFragments :
        LET start == [executed |-> executed, transport |-> t2, out |-> {}]
            once  == HandleRequest(start, message, size)
            x     == IF next = NoMessage THEN once
                     ELSE HandleRequest(once, next, nextSize)
        IN  /\ executed' = x.executed
            /\ transport' = [transport EXCEPT ![Server] = x.transport]
            /\ net' = rest \cup x.out /\ client' = client
  BY <1>1, <1>2 DEF DeliverToServer
<1>. DEFINE start == [executed |-> executed, transport |-> t2, out |-> {}]
            once  == HandleRequest(start, message, size)
            x     == IF next = NoMessage THEN once
                     ELSE HandleRequest(once, next, nextSize)
<1>4. /\ start.executed = executed /\ start.transport = t2 /\ start.out = {}
  OBVIOUS
<1>. HIDE DEF start, once
<1>5. /\ executed' = x.executed /\ transport' = With(transport, Server, x.transport)
      /\ net' = rest \cup x.out /\ client' = client
  BY <1>3 DEF With, start, once
<1>6. /\ transport \in [Nodes -> Transports] /\ CallInv(F, G, client, executed)
      /\ F \subseteq Messages
  BY DEF IInv, NetInv, CallInv, F, G
<1>7. HandedOver(Server, message, next, F, G, rest, tr2, handed')
  <2>1. Server \in Nodes
    BY DEF Nodes
  <2>. QED  BY <2>1, Delivered DEF got, message, next, t2, tr2, rest, F, G
<1>8. /\ m \in F /\ m \notin Flight(rest, tr2) /\ Server = To(m) /\ message.src = From(m)
      /\ NetInv(rest, tr2, handed') /\ Flight(rest, tr2) \subseteq F
      /\ Given(handed') \subseteq F \cup G
      /\ next = NoMessage => Given(handed') = G \cup {m}
      /\ next # NoMessage =>
           /\ Of(next.data) \in F \ {m} /\ Of(next.data) \notin Flight(rest, tr2)
           /\ Server = To(Of(next.data)) /\ next.src = From(Of(next.data))
           /\ Given(handed') = (G \cup {m}) \cup {Of(next.data)}
  BY <1>7 DEF HandedOver, m
<1>9. /\ m.type = "REQUEST"
      /\ next # NoMessage => Of(next.data).type = "REQUEST"
  BY <1>6, <1>8, Recipient DEF Nodes
<1>10. rest \cup start.out = rest /\ With(transport, Server, start.transport) = tr2
  BY <1>4 DEF tr2
<1>11. Serving(start, F, G, rest, transport, handed', client)
  BY <1>4, <1>6, <1>8, <1>10 DEF Serving
<1>12. PICK r \in Messages \ (F \cup G) :
         Handled(start, message, size, F, G, rest, transport, handed', client, r)
  <2>1. HasHandled(start, message, size, F, G, rest, transport, handed', client)
    BY <1>8, <1>9, <1>10, <1>11, Handle DEF m
  <2>. QED  BY <2>1 DEF HasHandled
<1>. DEFINE F1 == (F \ {m}) \cup {r}
            G1 == G \cup {m}
            trOnce == With(transport, Server, once.transport)
<1>13. /\ Serving(once, F1, G1, rest, transport, handed', client)
       /\ Flight(rest \cup once.out, trOnce) \subseteq Flight(rest, tr2) \cup {r}
  BY <1>10, <1>12 DEF Handled, once, m
<1>. HIDE DEF F1, G1, trOnce
<1>14. \E F2, G2 : /\ Serving(x, F2, G2, rest, transport, handed', client)
                   /\ G2 = Given(handed')
  <2>1. CASE next = NoMessage
    <3>. HIDE DEF x
    <3>1. x = once
      BY <2>1 DEF x
    <3>2. G1 = Given(handed')
      BY <1>8, <2>1 DEF G1
    <3>. QED  BY <1>13, <3>1, <3>2
  <2>2. CASE next # NoMessage
    <3>. DEFINE m2 == Of(next.data)
    <3>1. m2 \in F1 /\ m2 \notin Flight(rest \cup once.out, trOnce)
      BY <1>8, <1>12, <1>13, <2>2 DEF F1
    <3>2. m2.type = "REQUEST" /\ next.src = From(m2)
      BY <1>8, <1>9, <2>2
    <3>3. x = HandleRequest(once, next, nextSize)
      BY <2>2
    <3>. HIDE DEF x
    <3>4. PICK r2 \in Messages \ (F1 \cup G1) :
            Handled(once, next, nextSize, F1, G1, rest, transport, handed', client, r2)
      <4>1. /\ Of(next.data) \in F1
            /\ Of(next.data) \notin
                 Flight(rest \cup once.out, With(transport, Server, once.transport))
            /\ Of(next.data).type = "REQUEST" /\ next.src = From(Of(next.data))
        BY <3>1, <3>2 DEF trOnce
      <4>2. Serving(once, F1, G1, rest, transport, handed', client)
        BY <1>13
      <4>. HIDE DEF m2
      <4>3. HasHandled(once, next, nextSize, F1, G1, rest, transport, handed', client)
        BY <4>1, <4>2, Handle
      <4>. QED  BY <4>3 DEF HasHandled
    <3>5. Serving(x, (F1 \ {m2}) \cup {r2}, G1 \cup {m2}, rest, transport, handed', client)
      BY <3>3, <3>4 DEF Handled
    <3>6. G1 \cup {m2} = Given(handed')
      BY <1>8, <2>2 DEF G1
    <3>. QED  BY <3>5, <3>6
  <2>. QED  BY <2>1, <2>2
<1>. HIDE DEF x
<1>15. PICK F2, G2 : Serving(x, F2, G2, rest, transport, handed', client)
                     /\ G2 = Given(handed')
  BY <1>14
<1>16. /\ NetInv(net', transport', handed') /\ Flight(net', transport') \subseteq F2
       /\ CallInv(F2, Given(handed'), client', executed')
  BY <1>5, <1>15 DEF Serving
<1>17. CallInv(Flight(net', transport'), Given(handed'), client', executed')
  BY <1>16, Fewer
<1>. QED  BY <1>16, <1>17 DEF IInv

(* OnReadable, when what is delivered is delivered to a client.               *)
LEMMA ClientStep ==
  ASSUME IInv, NEW c \in Clients, NEW d \in net, d.dst = c,
         Received(transport[c], d).data # << >>,
         Deliver(c, Received(transport[c], d).transport,
                 [data |-> Received(transport[c], d).data, src |-> d.src], net \ {d})
  PROVE  IInv'
<1>. DEFINE got     == Received(transport[c], d)
            message == [data |-> got.data, src |-> d.src]
            out     == Dispatched(got.transport, message)
            next    == got.transport.reorderBuffer
            t2      == Holds(got.transport, NoMessage)
            tr2     == With(transport, c, t2)
            rest    == net \ {d}
            m       == Of(message.data)
            F       == Flight(net, transport)
            G       == Given(handed)
            once    == HandleReply(client[c], message)
            twice   == HandleReply(once, next)
<1>1. out.transport = t2 /\ out.first = message /\ out.next = next
  <2>. HIDE DEF got, message
  <2>. QED  BY DEF Dispatched
<1>2. DeliverToClient(c, out, rest)
  BY UnreplicatedAssumption DEF Deliver
<1>. HIDE DEF got, message, out, next, t2, tr2, rest, m, F, G, once, twice
<1>3. /\ client' = With(client, c, IF next = NoMessage THEN once ELSE twice)
      /\ transport' = tr2 /\ net' = rest /\ executed' = executed
  BY <1>1, <1>2 DEF DeliverToClient, With, once, twice, tr2
<1>4. /\ CallInv(F, G, client, executed) /\ F \subseteq Messages /\ DOMAIN client = Clients
  BY DEF IInv, CallInv, F, G
<1>5. HandedOver(c, message, next, F, G, rest, tr2, handed')
  <2>1. c \in Nodes
    BY DEF Nodes
  <2>. QED  BY <2>1, Delivered DEF got, message, next, t2, tr2, rest, F, G
<1>6. /\ m \in F /\ m \notin Flight(rest, tr2) /\ c = To(m) /\ message.src = From(m)
      /\ NetInv(rest, tr2, handed') /\ Flight(rest, tr2) \subseteq F
      /\ next = NoMessage => Given(handed') = G \cup {m}
      /\ next # NoMessage =>
           /\ Of(next.data) \in F \ {m} /\ Of(next.data) \notin Flight(rest, tr2)
           /\ c = To(Of(next.data))
           /\ Given(handed') = (G \cup {m}) \cup {Of(next.data)}
  BY <1>5 DEF HandedOver, m
<1>7. /\ m.type = "REPLY" /\ m.client = c
      /\ next # NoMessage => Of(next.data).type = "REPLY" /\ Of(next.data).client = c
  BY <1>4, <1>6, Recipient DEF Nodes
<1>. DEFINE cl1 == With(client, c, once)
            F1  == F \ {m}
            G1  == G \cup {m}
<1>8. CallInv(F1, G1, cl1, executed)
  BY <1>4, <1>6, <1>7, Take DEF once, m
<1>9. cl1[c] = once /\ With(cl1, c, twice) = With(client, c, twice)
  BY <1>4, WithAgain
<1>. HIDE DEF cl1, F1, G1
<1>10. \E F2 : /\ CallInv(F2, Given(handed'), client', executed)
               /\ Flight(rest, tr2) \subseteq F2
  <2>1. CASE next = NoMessage
    <3>1. client' = cl1 /\ Given(handed') = G1
      BY <1>3, <1>6, <2>1 DEF cl1, G1
    <3>2. Flight(rest, tr2) \subseteq F1
      BY <1>6 DEF F1
    <3>. QED  BY <1>8, <3>1, <3>2
  <2>2. CASE next # NoMessage
    <3>. DEFINE m2 == Of(next.data)
    <3>1. m2 \in F1 /\ m2.type = "REPLY" /\ m2.client = c
      BY <1>6, <1>7, <2>2 DEF F1
    <3>2. CallInv(F1 \ {m2}, G1 \cup {m2}, With(cl1, c, HandleReply(cl1[c], next)), executed)
      BY <1>8, <3>1, Take
    <3>3. With(cl1, c, HandleReply(cl1[c], next)) = client'
      BY <1>3, <1>9, <2>2 DEF twice
    <3>4. G1 \cup {m2} = Given(handed')
      BY <1>6, <2>2 DEF G1
    <3>5. Flight(rest, tr2) \subseteq F1 \ {m2}
      BY <1>6, <2>2 DEF F1
    <3>. QED  BY <3>2, <3>3, <3>4, <3>5
  <2>. QED  BY <2>1, <2>2
<1>11. CallInv(Flight(net', transport'), Given(handed'), client', executed')
  BY <1>3, <1>10, Fewer
<1>. QED  BY <1>3, <1>6, <1>11 DEF IInv

-----------------------------------------------------------------------------
(* The theorems.                                                              *)

(* The invariant of the network and of the calls holds: whatever is lost, in  *)
(* whichever order the fragments and the messages come.                       *)
THEOREM Invariance == Spec => []IInv
<1>1. IInv /\ [Next]_vars => IInv'
  <2>1. SUFFICES ASSUME IInv, [Next]_vars PROVE IInv'
    OBVIOUS
  <2>2. CASE UNCHANGED vars
    BY <2>1, <2>2 DEF vars, IInv, Flight, Given, NetInv, CallInv
  <2>3. ASSUME NEW c \in Clients, NEW kind \in Kinds, Invoke(c, kind)
        PROVE  IInv'
    BY <2>1, <2>3, InvokeStep
  <2>4. ASSUME NEW n \in Nodes, OnReadable(n)
        PROVE  IInv'
    <3>1. PICK d \in net :
            /\ d.dst = n
            /\ LET got     == Received(transport[n], d)
                   message == [data |-> got.data, src |-> d.src]
                   rest    == net \ {d}
               IN  \/ got.data = << >> /\ Drop(n, got.transport, rest)
                   \/ got.data # << >> /\ Drop(n, got.transport, rest)
                   \/ got.data # << >> /\ Hold(n, got.transport, message, rest)
                   \/ got.data # << >> /\ Deliver(n, got.transport, message, rest)
      BY <2>4 DEF OnReadable
    <3>. DEFINE got     == Received(transport[n], d)
                message == [data |-> got.data, src |-> d.src]
                rest    == net \ {d}
    <3>2. CASE Drop(n, got.transport, rest)
      BY <2>1, <3>1, <3>2, DropStep
    <3>3. CASE got.data # << >> /\ Hold(n, got.transport, message, rest)
      BY <2>1, <3>1, <3>3, HoldStep
    <3>4. CASE got.data # << >> /\ Deliver(n, got.transport, message, rest)
      <4>1. CASE n = Server
        BY <2>1, <3>1, <3>4, <4>1, ServerStep
      <4>2. CASE n \in Clients
        BY <2>1, <3>1, <3>4, <4>2, ClientStep
      <4>. QED  BY <4>1, <4>2 DEF Nodes
    <3>. QED  BY <3>1, <3>2, <3>3, <3>4
  <2>. QED  BY <2>1, <2>2, <2>3, <2>4 DEF Next
<1>. QED  BY <1>1, InitIInv, PTL DEF Spec

(* Fragments of two messages are never joined.                                *)
THEOREM FragmentsTheorem == Spec => []FragmentsOfOneMessage
<1>1. IInv => FragmentsOfOneMessage
  <2>1. SUFFICES ASSUME IInv, NEW n \in Nodes, NEW s \in Nodes,
                        NEW k \in DOMAIN transport[n].fragInfo[s].data
                 PROVE  LET info == transport[n].fragInfo[s] IN
                        /\ info.data[k] = Piece(info.data[1].of, k)
                        /\ Len(info.data) < Pieces(info.data[1].of)
                        /\ info.msgId \in 1 .. transport[s].lastFragMsgId
    BY DEF FragmentsOfOneMessage
  <2>. DEFINE info == transport[n].fragInfo[s]
  <2>2. JoinOK(net, transport, n, s, info) /\ info.data \in Fragments
    BY <2>1 DEF IInv, NetInv, JoiningOK, Transports
  <2>. HIDE DEF info
  <2>3. k \in DOMAIN info.data
    BY DEF info
  <2>4. info.data # << >> /\ k \in 1 .. Len(info.data)
    BY <2>2, <2>3 DEF Fragments
  <2>5. info.data[k] = Piece(Of(info.data), k)
    BY <2>2, <2>4 DEF JoinOK, Begins
  <2>. QED  BY <2>2, <2>4, <2>5 DEF JoinOK, Of, info
<1>. QED  BY <1>1, Invariance, PTL

(* What is delivered is whole and comes from where it was sent.               *)
THEOREM WholeTheorem == Spec => []DeliveredWhole
<1>1. IInv => DeliveredWhole
  BY DEF IInv, NetInv, HandedOK, Complete, DeliveredWhole, From, To, Of
<1>. QED  BY <1>1, Invariance, PTL

(* Each client is told the answer to what it asked.                           *)
THEOREM AnswersTheorem == Spec => []AnswersMatch
<1>1. IInv => AnswersMatch
  BY DEF IInv, CallInv, AnswersOK, ExecutedOK, AnswersMatch
<1>. QED  BY <1>1, Invariance, PTL
=============================================================================
