-------------------------------- MODULE Socket --------------------------------
(***************************************************************************)
(* The TCP client of a board, Socket.cpp, with the lwIP control blocks it  *)
(* uses: connecting and giving up an attempt, sending orders through the   *)
(* queue, the peer's FIN, a broken connection, close, reset and reconnect. *)
(*                                                                         *)
(* Everything runs in main context (lwIP is polled), so a step is a whole  *)
(* call of the application or a whole callback of lwIP.  Orders are        *)
(* numbered in the order send_order accepted them in this connection; the  *)
(* bytes that arrive, and rx_stream_buffer, are left out.                  *)
(***************************************************************************)
EXTENDS TcpSend

CONSTANTS
  Pcbs,             \* lwIP's pool of TCP control blocks
  null,             \* nullptr
  ConnectPollLimit, \* 20: polls after which an attempt is given up
  MaxOrders         \* bound: orders accepted in one connection

VARIABLES
  state,                    \* SocketState
  connection_control_block,
  socket_control_block,
  pending_connection_reset,
  connect_poll_ticks,
  tx_packet_buffer,
  lwip,                     \* what lwIP holds each control block for
  wire,                     \* send buffer of the connection
  accepted,                 \* orders send_order accepted in this connection
  received,                 \* how many of them the peer has received
  routable                  \* there is a route to remote_ip

control == <<connection_control_block, socket_control_block, pending_connection_reset, connect_poll_ticks>>
traffic == <<tx_packet_buffer, wire, accepted, received>>
vars == <<state, control, traffic, lwip, routable>>

ASSUME PoolAssumption == null \notin Pcbs
ASSUME LimitAssumption == ConnectPollLimit \in Nat \ {0} /\ MaxOrders \in Nat

(* A control block is free; bound to the local port but in no list that    *)
(* lwIP's timers visit; connecting; connected; connected with the peer's   *)
(* FIN received; or closed by us and on its way through TIME_WAIT.         *)
PcbState == {"free", "bound", "SYN_SENT", "ESTABLISHED", "CLOSE_WAIT", "closing"}
Free == {p \in Pcbs : lwip[p] = "free"}

Leaked(pcb) == lwip       \* Defect: the old block is not aborted

(* What tcp_abort leaves of a control block, if there is one.              *)
Aborted(pcb) == [p \in Pcbs |-> IF p = pcb THEN "free" ELSE lwip[p]]

(* tcp_connect finds a route, and no old connection between the same two   *)
(* addresses and ports.                                                    *)
CanConnect(table) == routable /\ \A p \in Pcbs : table[p] # "closing"

(* tcp_new, tcp_bind and tcp_connect with the control blocks in table: no  *)
(* block or port; a bound block that could not connect; or an attempt.     *)
Attempts(table) ==
  {[lwip |-> table, block |-> null, pending |-> TRUE]} \union
  {[lwip |-> [table EXCEPT ![p] = "bound"], block |-> p, pending |-> TRUE] :
     p \in {q \in Pcbs : table[q] = "free"}} \union
  {[lwip |-> [table EXCEPT ![p] = "SYN_SENT"], block |-> p, pending |-> FALSE] :
     p \in {q \in Pcbs : table[q] = "free" /\ CanConnect(table)}}

clear_packet_queues == tx_packet_buffer' = <<>>

(* The control block is gone, and what lwIP held for it.                   *)
ConnectionEnds == wire' = <<>> /\ accepted' = 0 /\ received' = 0

(* The constructor does not return without a control block (PANIC).        *)
Init ==
  /\ state = "INACTIVE"
  /\ routable \in BOOLEAN
  /\ \E a \in [block : Pcbs, connects : BOOLEAN] :
       /\ a.connects => routable
       /\ connection_control_block = a.block
       /\ pending_connection_reset = ~a.connects
       /\ lwip = [p \in Pcbs |-> IF p # a.block THEN "free"
                                 ELSE IF a.connects THEN "SYN_SENT" ELSE "bound"]
  /\ socket_control_block = null
  /\ connect_poll_ticks = 0
  /\ tx_packet_buffer = <<>> /\ wire = <<>>
  /\ accepted = 0 /\ received = 0
-----------------------------------------------------------------------------
(* Operations of the application.                                          *)

reset ==
  /\ state' = "INACTIVE"
  /\ socket_control_block' = null
  /\ connect_poll_ticks' = 0
  /\ clear_packet_queues /\ ConnectionEnds
  /\ \E a \in Attempts(Aborted(connection_control_block)) :
       /\ lwip' = a.lwip
       /\ connection_control_block' = a.block
       /\ pending_connection_reset' = a.pending
  /\ UNCHANGED routable

OnlyPending == pending_connection_reset   \* Defect: nullptr is not looked at

(* An attempt under way is left alone, and so is a connection that is      *)
(* closing: tcp_connect answers ERR_ISCONN.                                *)
MustReset == pending_connection_reset \/ connection_control_block = null

reconnect ==
  /\ state # "CONNECTED"
  /\ IF MustReset THEN reset ELSE UNCHANGED vars

(* tcp_close keeps a connected block until the peer has answered, unless   *)
(* it holds data nobody read; a block that only connects is aborted.       *)
Closed(connected) ==
  LET rest == IF connection_control_block = connected THEN lwip ELSE Aborted(connection_control_block)
  IN IF connected = null THEN {rest}
     ELSE {[rest EXCEPT ![connected] = s] : s \in {"free", "closing"}}

CloseBlock(connected) ==
  /\ lwip' \in Closed(connected)
  /\ socket_control_block' = null
  /\ connection_control_block' = null
  /\ clear_packet_queues /\ ConnectionEnds
  /\ connect_poll_ticks' = 0
  /\ pending_connection_reset' = FALSE
  /\ state' = "INACTIVE"
  /\ UNCHANGED routable

close == CloseBlock(socket_control_block)

CanSend == state = "CONNECTED" /\ socket_control_block # null
Transmitter == [open |-> CanSend, tx |-> tx_packet_buffer, wire |-> wire]

(* What an operation of the transmit path leaves behind.                   *)
Transmits(path) ==
  /\ tx_packet_buffer' = path.tx /\ wire' = path.wire
  /\ state' = IF CanSend /\ ~path.open THEN "CLOSING" ELSE state

Accepts(answer) ==
  /\ Transmits(answer.path)
  /\ accepted' = IF answer.sent THEN accepted + 1 ELSE accepted
  /\ UNCHANGED <<control, received, lwip, routable>>

send_order ==
  IF CanSend
  THEN accepted < MaxOrders /\ \E a \in SendOrder(Transmitter, accepted + 1) : Accepts(a)
  ELSE reconnect

add_order_to_queue ==
  /\ accepted < MaxOrders
  /\ \E a \in AddOrderToQueue(Transmitter, accepted + 1) : Accepts(a)

send ==
  /\ \E path \in Send(Transmitter) : Transmits(path)
  /\ UNCHANGED <<control, accepted, received, lwip, routable>>
-----------------------------------------------------------------------------
(* Callbacks of lwIP.  pcb is the block lwIP calls them for.               *)

Connecting == {p \in Pcbs : lwip[p] = "SYN_SENT"}
Connected == {p \in Pcbs : lwip[p] \in {"ESTABLISHED", "CLOSE_WAIT"}}

(* lwIP reports failures to the error callbacks, never to this one.        *)
connect_callback(pcb) ==
  /\ pcb \in Connecting
  /\ lwip' = [lwip EXCEPT ![pcb] = "ESTABLISHED"]
  /\ connection_control_block' = pcb
  /\ socket_control_block' = pcb
  /\ pending_connection_reset' = FALSE
  /\ connect_poll_ticks' = 0
  /\ \E path \in Send([open |-> TRUE, tx |-> tx_packet_buffer, wire |-> wire]) :
       /\ tx_packet_buffer' = path.tx /\ wire' = path.wire
       /\ state' = IF path.open THEN "CONNECTED" ELSE "CLOSING"
  /\ UNCHANGED <<accepted, received, routable>>

(* Without a packet: the peer's FIN.                                       *)
receive_callback(pcb) ==
  /\ lwip[pcb] = "ESTABLISHED"
  /\ lwip' = [lwip EXCEPT ![pcb] = "CLOSE_WAIT"]
  /\ socket_control_block' = pcb
  /\ state' = "CLOSING"
  /\ UNCHANGED <<connection_control_block, pending_connection_reset, connect_poll_ticks, traffic, routable>>

Flushed == Send(Transmitter)

OnlyEmpty(path) == state = "CLOSING" /\ path.tx = <<>>  \* Defect: the queue first
MustClose(path) == state = "CLOSING" \/ (CanSend /\ ~path.open)

poll_callback(pcb) ==
  /\ pcb \in Connected
  /\ \E path \in Flushed :
       IF MustClose(path)
       THEN CloseBlock(pcb)
       ELSE /\ Transmits(path)
            /\ socket_control_block' = pcb
            /\ UNCHANGED <<connection_control_block, pending_connection_reset, connect_poll_ticks,
                           accepted, received, lwip, routable>>

(* The peer acknowledged the first n orders of the send buffer.            *)
Acknowledged(n) == [Transmitter EXCEPT !.wire = SubSeq(@, n + 1, Len(@))]

send_callback(pcb, n) ==
  /\ pcb \in Connected
  /\ n \in 1..Len(wire)
  /\ IF tx_packet_buffer = <<>> /\ state = "CLOSING"
     THEN CloseBlock(pcb)
     ELSE /\ \E path \in Send(Acknowledged(n)) : Transmits(path)
          /\ socket_control_block' = pcb
          /\ received' = received + n
          /\ UNCHANGED <<connection_control_block, pending_connection_reset, connect_poll_ticks,
                         accepted, lwip, routable>>

(* Both error callbacks: lwIP has freed the block.                         *)
BlockLost(pcb) ==
  /\ lwip' = Aborted(pcb)
  /\ socket_control_block' = null
  /\ connection_control_block' = null
  /\ state' = "INACTIVE"
  /\ pending_connection_reset' = TRUE
  /\ connect_poll_ticks' = 0
  /\ ConnectionEnds
  /\ UNCHANGED routable

error_callback(pcb) ==
  /\ pcb \in Connected
  /\ clear_packet_queues
  /\ BlockLost(pcb)

connection_error_callback(pcb) ==
  /\ pcb \in Connecting
  /\ UNCHANGED tx_packet_buffer
  /\ BlockLost(pcb)

(* Called for a block in SYN_SENT only: a bound one is in none of lwIP's   *)
(* lists, a connected one has poll_callback.                               *)
connection_poll_callback(pcb) ==
  /\ pcb \in Connecting
  /\ IF pending_connection_reset
     THEN /\ pcb = connection_control_block
          /\ reset
     ELSE /\ connection_control_block' = pcb
          /\ connect_poll_ticks' = connect_poll_ticks + 1
          /\ pending_connection_reset' = (connect_poll_ticks + 1 >= ConnectPollLimit)
          /\ UNCHANGED <<state, socket_control_block, traffic, lwip, routable>>
-----------------------------------------------------------------------------
(* The rest of lwIP and the network.                                       *)

ClosingEnds ==
  /\ \E p \in Pcbs : lwip[p] = "closing" /\ lwip' = [lwip EXCEPT ![p] = "free"]
  /\ UNCHANGED <<state, control, traffic, routable>>

RouteChanges ==
  /\ routable' = ~routable
  /\ UNCHANGED <<state, control, traffic, lwip>>

Next ==
  \/ send_order
  \/ add_order_to_queue
  \/ send
  \/ reconnect
  \/ reset
  \/ close
  \/ \E p \in Pcbs :
       \/ connect_callback(p)
       \/ receive_callback(p)
       \/ poll_callback(p)
       \/ \E n \in 1..TCP_SND_BUF : send_callback(p, n)
       \/ error_callback(p)
       \/ connection_error_callback(p)
       \/ connection_poll_callback(p)
  \/ ClosingEnds
  \/ RouteChanges

Spec == Init /\ [][Next]_vars

(* lwIP's timers run, a closed connection ends, a route that is away comes *)
(* back, and of a peer that is tried again and again, of memory and of     *)
(* acknowledgements that are waited for again and again, some come: these  *)
(* are assumptions about the network and the pools, not about the code.    *)
(* The application keeps calling send_order.                               *)
Fairness ==
  /\ \A p \in Pcbs :
       /\ WF_vars(poll_callback(p))
       /\ WF_vars(connection_poll_callback(p))
       /\ SF_vars(connect_callback(p))
       /\ WF_vars(\E n \in 1..TCP_SND_BUF : send_callback(p, n))
       /\ SF_vars(poll_callback(p) /\ Len(tx_packet_buffer') < Len(tx_packet_buffer))
  /\ WF_vars(ClosingEnds)
  /\ WF_vars(RouteChanges /\ routable')
  /\ SF_vars(send_order /\ Connecting' # {} /\ Connecting = {})

FairSpec == Spec /\ Fairness
-----------------------------------------------------------------------------
TypeOK ==
  /\ state \in {"INACTIVE", "CONNECTED", "CLOSING"}
  /\ connection_control_block \in Pcbs \union {null}
  /\ socket_control_block \in Pcbs \union {null}
  /\ pending_connection_reset \in BOOLEAN
  /\ connect_poll_ticks \in 0..ConnectPollLimit
  /\ Transmitter \in Path(1..MaxOrders)
  /\ Len(tx_packet_buffer) <= MAX_TX_QUEUE_DEPTH /\ Len(wire) <= TCP_SND_BUF
  /\ lwip \in [Pcbs -> PcbState]
  /\ accepted \in 0..MaxOrders /\ received \in 0..accepted
  /\ routable \in BOOLEAN

(* The pointers of the socket and lwIP's blocks agree in every state a     *)
(* callback can find: no pointer dangles, no block that can still call     *)
(* back is forgotten, and only a connected block is sent to.               *)
ControlBlocksAgree ==
  /\ {p \in Pcbs : lwip[p] \notin {"free", "closing"}} = {connection_control_block} \ {null}
  /\ socket_control_block # null <=> Connected # {}
  /\ socket_control_block # null => socket_control_block = connection_control_block
  /\ state = "CONNECTED" => socket_control_block # null
  /\ state = "CLOSING" => socket_control_block # null

(* The socket's state is in range and agrees with lwIP's.                  *)
SocketIsConsistent == TypeOK /\ ControlBlocksAgree

(* What send_order answered TRUE for in this connection has arrived, is in *)
(* the send buffer or waits in the queue, in the order of the calls and    *)
(* once: the immediate path does not overtake the queue, a flush that      *)
(* stops in the middle loses nothing, and nothing is left over from an     *)
(* earlier connection.                                                     *)
OrdersKeepTheirOrder ==
  state # "INACTIVE" =>
    wire \o tx_packet_buffer = [i \in 1..(accepted - received) |-> received + i]

(* A queue does not wait for ever, whoever acknowledges or polls when.     *)
QueueDrains == tx_packet_buffer # <<>> ~> tx_packet_buffer = <<>>

(* After the peer's FIN or a failed write the socket is closed, whether or *)
(* not there were orders in the queue.                                     *)
ClosingFinishes == state = "CLOSING" ~> state # "CLOSING"

(* Orders leave the queue, and a socket that closes gets there.            *)
SendingAndClosingEnd == QueueDrains /\ ClosingFinishes

(* An application that keeps sending is connected again and again: no      *)
(* order of losses, closes and refused attempts leaves the socket stuck.   *)
Reconnects == []<>(state = "CONNECTED")
=============================================================================
