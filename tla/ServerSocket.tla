----------------------------- MODULE ServerSocket -----------------------------
(***************************************************************************)
(* One ServerSocket object: it listens, accepts one client, and from then  *)
(* on serves that client; ServerSocket.cpp.  An object is a record:        *)
(*   state      ServerState, or "deleted"                                  *)
(*   client     what client_control_block refers to in lwIP ("none" for    *)
(*              nullptr); the listening block exists in LISTENING only     *)
(*   tx, wire   tx_packet_buffer and the send buffer of the client's block *)
(*   accepted, received  orders taken for this client, and those it has    *)
(* A handler is the object after it, or the set of objects it may leave.   *)
(* What arrives from the client, the priorities of control blocks and      *)
(* moving an object are left out.                                          *)
(***************************************************************************)
EXTENDS TcpSend

Blank(state) ==
  [state |-> state, client |-> "none", tx |-> <<>>, wire |-> <<>>, accepted |-> 0, received |-> 0]

Deleted == Blank("deleted")

(* The constructor; without a control block or a port it panics and leaves *)
(* the object INACTIVE.                                                    *)
NewServerSocket == {Blank("LISTENING"), Blank("INACTIVE")}

IsConnected(s) == s.state = "ACCEPTED"
IsListening(s) == s.state = "LISTENING"

(* accept_callback(): the listening block is closed.                       *)
Accepted(s) == [s EXCEPT !.state = "ACCEPTED", !.client = "ESTABLISHED"]

(* close(), and with it the destructor.                                    *)
Closed(s) == Blank("CLOSED")

(* error_callback(): lwIP has freed the block.                             *)
Lost(s) == Blank("CLOSED")

(* receive_callback() without a packet: the client's FIN.                  *)
Finished(s) == [s EXCEPT !.state = "CLOSING", !.client = "CLOSE_WAIT"]

CanSend(s) == s.state = "ACCEPTED" /\ s.client # "none"
Transmitter(s) == [open |-> CanSend(s), tx |-> s.tx, wire |-> s.wire]

(* The object after the transmit path has been left like this.             *)
Sent(s, path) ==
  [s EXCEPT !.tx = path.tx, !.wire = path.wire,
            !.state = IF CanSend(s) /\ ~path.open THEN "CLOSING" ELSE @]

(* send_order(): the answer and the object.                                *)
OrderSent(s) ==
  { [sent |-> a.sent,
     socket |-> [Sent(s, a.path) EXCEPT !.accepted = IF a.sent THEN @ + 1 ELSE @]]
    : a \in IF CanSend(s) THEN SendOrder(Transmitter(s), s.accepted + 1)
            ELSE {[sent |-> FALSE, path |-> Transmitter(s)]} }

MustClose(s) == s.state = "CLOSING"

(* poll_callback(): flush, and close if the client is to go.               *)
Polled(s) ==
  {IF MustClose(t) THEN Closed(t) ELSE t : t \in {Sent(s, path) : path \in Send(Transmitter(s))}}

(* send_callback(): the client acknowledged n orders.                      *)
Acknowledged(s, n) ==
  LET t == [s EXCEPT !.wire = SubSeq(@, n + 1, Len(@)), !.received = @ + n]
  IN IF t.tx = <<>>
     THEN {IF t.state = "CLOSING" THEN Closed(t) ELSE t}
     ELSE {Sent(t, path) : path \in Send(Transmitter(t))}
-----------------------------------------------------------------------------
Objects(MaxOrders) ==
  [state : {"INACTIVE", "LISTENING", "ACCEPTED", "CLOSING", "CLOSED", "deleted"},
   client : {"none", "ESTABLISHED", "CLOSE_WAIT"},
   tx : Seq(1..MaxOrders), wire : Seq(1..MaxOrders),
   accepted : 0..MaxOrders, received : 0..MaxOrders]

TypedSocket(s, MaxOrders) ==
  /\ s \in Objects(MaxOrders)
  /\ Len(s.tx) <= MAX_TX_QUEUE_DEPTH /\ Len(s.wire) <= TCP_SND_BUF
  /\ s.received <= s.accepted
=============================================================================
