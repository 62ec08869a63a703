---------------------------- MODULE UDPTransport ----------------------------
(***************************************************************************)
(* Messages over UDP (lib/udptransport.cc).  A message too large for a       *)
(* datagram goes in fragments, numbered by the sending process, and is put   *)
(* together again by the receiving one; a receiver may hold a message back   *)
(* until the next one comes, to simulate what the network does.  What a      *)
(* datagram carries of a message is a sequence of its pieces.                *)
(***************************************************************************)
EXTENDS Integers, Sequences, SequencesExt

CONSTANT NoMessage

(* A message has a size: 0 when it fits in a datagram as it is, else its     *)
(* fragments.  The limit is compared with the length that counts the magic   *)
(* number and the fragments are cut from one that does not: there may be 1.  *)
Pieces(m) == IF m.size = 0 THEN 1 ELSE m.size

Piece(m, k) == [of |-> m, at |-> k]

(* What a process keeps: the number of its last fragmented message; of each  *)
(* sender, the message being put together; the message held back.            *)
NoFragments == [msgId |-> 0, data |-> << >>]

InitTransport(senders) ==
  [lastFragMsgId |-> 0, fragInfo |-> [s \in senders |-> NoFragments],
   reorderBuffer |-> NoMessage]

Numbered(t, m) ==
  IF m.size = 0 THEN t ELSE [t EXCEPT !.lastFragMsgId = @ + 1]

(* SendMessageInternal: msgId is 0 in a datagram that is not a fragment.     *)
Datagrams(t, src, dst, m) ==
  {[src |-> src, dst |-> dst, fragStart |-> k - 1, msgLen |-> Pieces(m),
    msgId |-> IF m.size = 0 THEN 0 ELSE Numbered(t, m).lastFragMsgId,
    data  |-> <<Piece(m, k)>>] : k \in 1 .. Pieces(m)}

(* DecodePacket reads the message if it is there from the first piece to the *)
(* last.                                                                     *)
Whole(data) ==
  LET m == data[1].of IN data = [k \in 1 .. Pieces(m) |-> Piece(m, k)]

(* MUTANT of Begun: the fragments of the other message are kept.             *)
MutantBegun(info, d) == [info EXCEPT !.msgId = d.msgId]

(* A fragment of another message than the one that is being put together     *)
(* makes an end of that one, whichever is the older.                         *)
Begun(info, d) ==
  IF info.msgId = d.msgId THEN info ELSE [msgId |-> d.msgId, data |-> << >>]

(* MUTANT of Reassembled: the place of a fragment is not looked at.          *)
MutantReassembled(info, d) ==
  [Begun(info, d) EXCEPT !.data = @ \o d.data]

(* A fragment that is not the next one of its message is lost.               *)
Reassembled(info, d) ==
  IF d.fragStart = Len(Begun(info, d).data)
  THEN [Begun(info, d) EXCEPT !.data = @ \o d.data]
  ELSE Begun(info, d)

(* OnReadable up to the dispatch: what the process keeps, and the data of    *)
(* the message that a datagram completes, or nothing.                        *)
Received(t, d) ==
  LET info == Reassembled(t.fragInfo[d.src], d) IN
  IF d.msgId = 0 THEN [transport |-> t, data |-> d.data]
  ELSE IF Len(info.data) = d.msgLen
       THEN [transport |-> [t EXCEPT !.fragInfo[d.src] = NoFragments],
             data |-> info.data]
       ELSE [transport |-> [t EXCEPT !.fragInfo[d.src] = info], data |-> << >>]

Holds(t, message) == [t EXCEPT !.reorderBuffer = message]

(* MUTANT of Dispatched: the address of the message held back is not         *)
(* restored.                                                                 *)
MutantDispatched(t, message) ==
  [transport |-> Holds(t, NoMessage), first |-> message,
   next |-> IF t.reorderBuffer = NoMessage THEN NoMessage
            ELSE [t.reorderBuffer EXCEPT !.src = message.src]]

(* The message held back, if there is one, follows the one delivered.        *)
Dispatched(t, message) ==
  [transport |-> Holds(t, NoMessage), first |-> message,
   next |-> t.reorderBuffer]
=============================================================================
