---------------------------- MODULE Unreplicated ----------------------------
(***************************************************************************)
(* The unreplicated protocol (unreplicated/replica.cc, client.cc) over the   *)
(* UDP transport: one server; clients with at most one logged and one        *)
(* unlogged request pending, and no timers.  Datagrams may overtake each     *)
(* other and be lost: a datagram that is lost is one never received.  None   *)
(* is duplicated, and no process restarts.                                   *)
(***************************************************************************)
EXTENDS UDPTransport

CONSTANTS
  Server,
  Clients,
  MaxRequests,  \* bound: requests of a client of each kind
  MaxFragments  \* bound: fragments of a message

Nodes == Clients \cup {Server}

Kinds == {"logged", "unlogged"}

Messages ==
  [type : {"REQUEST", "REPLY"}, kind : Kinds, client : Clients,
   n : 1 .. MaxRequests, size : 0 .. MaxFragments]

ASSUME UnreplicatedAssumption ==
  /\ MaxRequests \in Nat /\ MaxFragments \in Nat /\ Server \notin Clients
  /\ NoMessage \notin Messages

VARIABLES
  transport,  \* transport[n]: the transport of a process
  net,        \* datagrams on their way
  executed,   \* the logged requests the server's application has executed
  client,     \* client[c]: what is pending, and the answers it has had
  handed      \* every message a transport has delivered: from, to, data

vars == <<transport, net, executed, client, handed>>

(* Nothing in a request tells two requests of a client apart: n is for the   *)
(* properties.                                                               *)
Request(c, kind, n, size) ==
  [type |-> "REQUEST", kind |-> kind, client |-> c, n |-> n, size |-> size]

Answer(request, size) == [request EXCEPT !.type = "REPLY", !.size = size]

NewClient ==
  [pending |-> [k \in Kinds |-> NoMessage], sent |-> [k \in Kinds |-> 0],
   answers |-> {}, crashed |-> FALSE]

Init ==
  /\ transport = [n \in Nodes |-> InitTransport(Nodes)]
  /\ net = {} /\ executed = << >> /\ handed = {}
  /\ client = [c \in Clients |-> NewClient]

(* Invoke and InvokeUnlogged: a second request of the kind is a panic.       *)
Invoke(c, kind) ==
  /\ ~client[c].crashed /\ client[c].pending[kind] = NoMessage
  /\ client[c].sent[kind] < MaxRequests
  /\ \E size \in 0 .. MaxFragments :
       LET m == Request(c, kind, client[c].sent[kind] + 1, size) IN
       /\ client' = [client EXCEPT ![c].pending[kind] = m,
                                   ![c].sent[kind] = @ + 1]
       /\ net' = net \cup Datagrams(transport[c], c, Server, m)
       /\ transport' = [transport EXCEPT ![c] = Numbered(@, m)]
  /\ UNCHANGED <<executed, handed>>

(* The server executes a request each time it comes and answers at once.  x  *)
(* is the server on its way through the messages delivered.                  *)
HandleRequest(x, message, size) ==
  LET request == message.data[1].of
      reply   == Answer(request, size)
  IN  [executed  |-> IF request.kind = "logged" THEN Append(x.executed, request)
                     ELSE x.executed,
       transport |-> Numbered(x.transport, reply),
       out |-> x.out \cup Datagrams(x.transport, Server, message.src, reply)]

(* An answer is taken for the request that is pending; when there is none,   *)
(* the client uses a null pointer after a warning.                           *)
HandleReply(s, message) ==
  LET reply   == message.data[1].of
      pending == s.pending[reply.kind]
  IN  IF s.crashed \/ pending = NoMessage THEN [s EXCEPT !.crashed = TRUE]
      ELSE [s EXCEPT !.pending[reply.kind] = NoMessage,
                     !.answers = @ \cup {[asked |-> pending, told |-> reply]}]

(* ReceiveMessage of the server and of a client, for the message delivered   *)
(* and for the one that follows it, if one does.                             *)
DeliverToServer(out, rest) ==
  \E size, nextSize \in 0 .. MaxFragments :
    LET start == [executed |-> executed, transport |-> out.transport,
                  out |-> {}]
        once  == HandleRequest(start, out.first, size)
        x     == IF out.next = NoMessage THEN once
                 ELSE HandleRequest(once, out.next, nextSize)
    IN  /\ executed' = x.executed
        /\ transport' = [transport EXCEPT ![Server] = x.transport]
        /\ net' = rest \cup x.out
        /\ UNCHANGED client

DeliverToClient(c, out, rest) ==
  LET once == HandleReply(client[c], out.first) IN
  /\ client' = [client EXCEPT ![c] = IF out.next = NoMessage THEN once
                                     ELSE HandleReply(once, out.next)]
  /\ transport' = [transport EXCEPT ![c] = out.transport]
  /\ net' = rest
  /\ UNCHANGED executed

(* A message that is whole is dropped, held back if none is, or delivered.   *)
Drop(n, t, rest) ==
  /\ transport' = [transport EXCEPT ![n] = t] /\ net' = rest
  /\ UNCHANGED <<executed, client, handed>>

Hold(n, t, message, rest) ==
  /\ t.reorderBuffer = NoMessage
  /\ transport' = [transport EXCEPT ![n] = Holds(t, message)] /\ net' = rest
  /\ UNCHANGED <<executed, client, handed>>

Delivery(n, message) ==
  [from |-> message.src, to |-> n, data |-> message.data]

Deliver(n, t, message, rest) ==
  LET out == Dispatched(t, message) IN
  /\ handed' = handed \cup {Delivery(n, out.first)}
                 \cup (IF out.next = NoMessage THEN {}
                       ELSE {Delivery(n, out.next)})
  /\ \/ n = Server /\ DeliverToServer(out, rest)
     \/ n \in Clients /\ DeliverToClient(n, out, rest)

OnReadable(n) ==
  \E d \in {d \in net : d.dst = n} :
    LET got     == Received(transport[n], d)
        message == [data |-> got.data, src |-> d.src]
        rest    == net \ {d}
    IN  \/ got.data = << >> /\ Drop(n, got.transport, rest)
        \/ got.data # << >> /\ Drop(n, got.transport, rest)
        \/ got.data # << >> /\ Hold(n, got.transport, message, rest)
        \/ got.data # << >> /\ Deliver(n, got.transport, message, rest)

Next ==
  \/ \E c \in Clients, kind \in Kinds : Invoke(c, kind)
  \/ \E n \in Nodes : OnReadable(n)

Spec == Init /\ [][Next]_vars

-----------------------------------------------------------------------------

(* The data of a message being put together is shorter than the message, and *)
(* is of one message only: a fragment is joined to no other message's, in    *)
(* whichever order the fragments of the messages come                        *)
(* (lib/udptransport.cc:566-594).                                            *)
FragmentsOfOneMessage ==
  \A n, s \in Nodes :
    LET info == transport[n].fragInfo[s] IN
    \A k \in DOMAIN info.data :
      /\ info.data[k] = Piece(info.data[1].of, k)
      /\ Len(info.data) < Pieces(info.data[1].of)
      /\ info.msgId \in 1 .. transport[s].lastFragMsgId

(* A message that a transport delivers is whole, was sent to that process    *)
(* and is given with the address of the process that sent it, when           *)
(* fragments of several messages interleave and a message is held back       *)
(* (lib/udptransport.cc:516-656).                                            *)
DeliveredWhole ==
  \A h \in handed :
    LET m == h.data[1].of IN
    /\ Whole(h.data)
    /\ m.type = "REQUEST" => h.from = m.client /\ h.to = Server
    /\ m.type = "REPLY" => h.from = Server /\ h.to = m.client

(* Though an answer does not say what it answers, what a client is told is   *)
(* the answer to what it asked; a request is executed at most once; and no   *)
(* client comes to use a null pointer (unreplicated/client.cc:127-159).      *)
AnswersMatch ==
  /\ \A c \in Clients :
       /\ ~client[c].crashed
       /\ \A a \in client[c].answers :
            a.told = Answer(a.asked, a.told.size)
  /\ IsInjective(executed)
=============================================================================
