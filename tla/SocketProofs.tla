------------------------------ MODULE SocketProofs ------------------------------
(***************************************************************************)
(* The safety of the TCP client, for every pool of control blocks, every   *)
(* capacity of the queues and every number of polls and orders.            *)
(*                                                                         *)
(* Neither of the two invariants is inductive.  A socket that is INACTIVE  *)
(* has nothing queued, written or counted, so a connection that begins     *)
(* begins empty; and an attempt that is not to be given up has polls left, *)
(* so connect_poll_ticks stays in its range.                               *)
(***************************************************************************)
EXTENDS Socket, TcpSendProofs

Inactive ==
  state = "INACTIVE" =>
    /\ socket_control_block = null
    /\ tx_packet_buffer = <<>> /\ wire = <<>>
    /\ accepted = 0 /\ received = 0

PollsLeft == ~pending_connection_reset => connect_poll_ticks < ConnectPollLimit

SocketInv ==
  /\ TypeOK
  /\ ControlBlocksAgree
  /\ OrdersKeepTheirOrder
  /\ Inactive
  /\ PollsLeft

Order == 1..MaxOrders

(* The blocks for which lwIP may still call back.                          *)
Active(table) == {p \in Pcbs : table[p] \notin {"free", "closing"}}
-----------------------------------------------------------------------------
(* Only the block of the connection, or of the attempt, can call back.     *)
LEMMA OneBlock ==
  ASSUME SocketInv, NEW pcb \in Pcbs, lwip[pcb] \notin {"free", "closing"}
  PROVE  /\ connection_control_block = pcb
         /\ \A p \in Pcbs : p # pcb => lwip[p] \in {"free", "closing"}
         /\ pcb \in Connected => socket_control_block = pcb /\ state # "INACTIVE"
         /\ pcb \in Connecting => Connected = {} /\ socket_control_block = null
                                  /\ state = "INACTIVE"
  <1>1. {p \in Pcbs : lwip[p] \notin {"free", "closing"}} = {connection_control_block} \ {null}
    BY DEF SocketInv, ControlBlocksAgree
  <1>2. connection_control_block = pcb
        /\ \A p \in Pcbs : p # pcb => lwip[p] \in {"free", "closing"}
    BY <1>1
  <1>3. pcb \in Connected => socket_control_block = pcb /\ state # "INACTIVE"
    BY <1>2, PoolAssumption DEF SocketInv, ControlBlocksAgree, Inactive
  <1>4. pcb \in Connecting => Connected = {}
    BY <1>2 DEF Connecting, Connected
  <1> QED
    BY <1>2, <1>3, <1>4 DEF SocketInv, ControlBlocksAgree, TypeOK

LEMMA TransmitterInBounds ==
  ASSUME SocketInv
  PROVE  /\ InBounds(Transmitter, Order)
         /\ Transmitter.open = CanSend
         /\ Transmitter.tx = tx_packet_buffer /\ Transmitter.wire = wire
         /\ Stream(Transmitter) = wire \o tx_packet_buffer
         /\ tx_packet_buffer \in Seq(Order) /\ wire \in Seq(Order)
  BY DEF SocketInv, TypeOK, InBounds, Path, Transmitter, Order, Stream

(* A step after which the socket is INACTIVE with nothing left over.       *)
LEMMA Ends ==
  ASSUME state' = "INACTIVE",
         socket_control_block' = null,
         connect_poll_ticks' = 0,
         tx_packet_buffer' = <<>>, ConnectionEnds,
         pending_connection_reset' \in BOOLEAN,
         connection_control_block' \in Pcbs \union {null},
         lwip' \in [Pcbs -> PcbState],
         Active(lwip') = {connection_control_block'} \ {null},
         \A p \in Pcbs : lwip'[p] \notin {"ESTABLISHED", "CLOSE_WAIT"},
         routable' \in BOOLEAN
  PROVE  SocketInv'
  <1>1. TypeOK'
    BY QueueAssumption, LimitAssumption
    DEF TypeOK, Transmitter, CanSend, Path, ConnectionEnds
  <1>2. ControlBlocksAgree'
    BY DEF ControlBlocksAgree, Connected, Active
  <1>3. OrdersKeepTheirOrder' /\ Inactive' /\ PollsLeft'
    BY LimitAssumption DEF OrdersKeepTheirOrder, Inactive, PollsLeft, ConnectionEnds
  <1> QED
    BY <1>1, <1>2, <1>3 DEF SocketInv

(* What the transmit path leaves behind keeps the stream.                  *)
LEMMA TransmitsKeeps ==
  ASSUME SocketInv, NEW path, InBounds(path, Order), Transmits(path),
         socket_control_block' = socket_control_block,
         UNCHANGED <<connection_control_block, pending_connection_reset, connect_poll_ticks,
                     lwip, routable>>,
         accepted' \in 0..MaxOrders, received' \in 0..accepted',
         state # "INACTIVE" => Stream(path) = Numbers(received', accepted' - received'),
         state = "INACTIVE" => path = Transmitter /\ accepted' = 0 /\ received' = 0
  PROVE  SocketInv'
  <1>1. /\ path.tx \in Seq(Order) /\ path.wire \in Seq(Order)
        /\ Len(path.tx) <= MAX_TX_QUEUE_DEPTH /\ Len(path.wire) <= TCP_SND_BUF
    BY DEF InBounds, Path
  <1>2. /\ tx_packet_buffer' = path.tx /\ wire' = path.wire
        /\ state' \in {state, "CLOSING"} /\ (state' # state => CanSend)
    BY DEF Transmits
  <1>3. TypeOK'
    BY <1>1, <1>2 DEF SocketInv, TypeOK, Transmitter, CanSend, Path, Order
  <1>4. ControlBlocksAgree'
    BY <1>2 DEF SocketInv, ControlBlocksAgree, Connected, CanSend
  <1>5. OrdersKeepTheirOrder'
    <2>1. SUFFICES ASSUME state' # "INACTIVE" PROVE Stream(path) = Numbers(received', accepted' - received')
      BY <1>2 DEF OrdersKeepTheirOrder, Stream, Numbers
    <2> QED
      BY <1>2, <2>1 DEF CanSend
  <1>6. Inactive'
    BY <1>2, TransmitterInBounds DEF SocketInv, Inactive, CanSend
  <1>7. PollsLeft'
    BY DEF SocketInv, PollsLeft
  <1> QED
    BY <1>3, <1>4, <1>5, <1>6, <1>7 DEF SocketInv

LEMMA StutterKeeps ==
  ASSUME SocketInv, UNCHANGED vars
  PROVE  SocketInv'
  BY DEF SocketInv, vars, control, traffic, TypeOK, ControlBlocksAgree, OrdersKeepTheirOrder,
         Inactive, PollsLeft, Transmitter, CanSend, Connected
-----------------------------------------------------------------------------
(* Each operation of the application.                                      *)

LEMMA AbortedTable ==
  ASSUME SocketInv, NEW pcb \in Pcbs \union {null}
  PROVE  /\ Aborted(pcb) \in [Pcbs -> PcbState]
         /\ Active(Aborted(pcb)) = Active(lwip) \ {pcb}
  BY DEF SocketInv, TypeOK, Aborted, Active, PcbState

LEMMA ResetKeeps ==
  ASSUME SocketInv, reset
  PROVE  SocketInv'
  <1> DEFINE table == Aborted(connection_control_block)
  <1>1. table \in [Pcbs -> PcbState] /\ Active(table) = {}
    <2>1. connection_control_block \in Pcbs \union {null}
          /\ Active(lwip) = {connection_control_block} \ {null}
      BY DEF SocketInv, TypeOK, ControlBlocksAgree, Active
    <2> QED
      BY <2>1, AbortedTable
  <1>2. PICK a \in Attempts(table) :
          /\ lwip' = a.lwip
          /\ connection_control_block' = a.block
          /\ pending_connection_reset' = a.pending
    BY DEF reset
  <1> HIDE DEF table
  <1>3. /\ a.block \in Pcbs \union {null} /\ a.pending \in BOOLEAN
        /\ a.lwip \in [Pcbs -> PcbState]
        /\ Active(a.lwip) = {a.block} \ {null}
        /\ \A p \in Pcbs : a.lwip[p] \notin {"ESTABLISHED", "CLOSE_WAIT"}
    <2>1. \A p \in Pcbs : table[p] \in {"free", "closing"}
      BY <1>1 DEF Active
    <2>2. CASE a = [lwip |-> table, block |-> null, pending |-> TRUE]
      BY <1>1, <2>1, <2>2
    <2>3. CASE \E p \in Pcbs : a = [lwip |-> [table EXCEPT ![p] = "bound"], block |-> p, pending |-> TRUE]
      <3>1. PICK p \in Pcbs : a = [lwip |-> [table EXCEPT ![p] = "bound"], block |-> p, pending |-> TRUE]
        BY <2>3
      <3>2. a.lwip = [table EXCEPT ![p] = "bound"] /\ a.block = p /\ a.pending = TRUE
        BY <3>1
      <3> QED
        BY <1>1, <2>1, <3>2, PoolAssumption DEF Active, PcbState
    <2>4. CASE \E p \in Pcbs : a = [lwip |-> [table EXCEPT ![p] = "SYN_SENT"], block |-> p, pending |-> FALSE]
      <3>1. PICK p \in Pcbs : a = [lwip |-> [table EXCEPT ![p] = "SYN_SENT"], block |-> p, pending |-> FALSE]
        BY <2>4
      <3>2. a.lwip = [table EXCEPT ![p] = "SYN_SENT"] /\ a.block = p /\ a.pending = FALSE
        BY <3>1
      <3> QED
        BY <1>1, <2>1, <3>2, PoolAssumption DEF Active, PcbState
    <2> QED
      BY <1>2, <2>2, <2>3, <2>4 DEF Attempts
  <1> QED
    BY <1>2, <1>3, Ends DEF reset, clear_packet_queues, SocketInv, TypeOK

LEMMA ReconnectKeeps ==
  ASSUME SocketInv, reconnect
  PROVE  SocketInv'
  BY ResetKeeps, StutterKeeps DEF reconnect

(* The block of the connection is the only one that closes.                *)
LEMMA CloseBlockKeeps ==
  ASSUME SocketInv, CloseBlock(socket_control_block)
  PROVE  SocketInv'
  <1>1. /\ connection_control_block \in Pcbs \union {null}
        /\ socket_control_block \in {connection_control_block, null}
        /\ Active(lwip) = {connection_control_block} \ {null}
        /\ lwip \in [Pcbs -> PcbState]
        /\ \A p \in Pcbs : lwip[p] \in {"ESTABLISHED", "CLOSE_WAIT"} => socket_control_block = p
    <2>1. /\ connection_control_block \in Pcbs \union {null}
          /\ socket_control_block \in {connection_control_block, null}
          /\ Active(lwip) = {connection_control_block} \ {null}
          /\ lwip \in [Pcbs -> PcbState]
      BY DEF SocketInv, TypeOK, ControlBlocksAgree, Active
    <2> QED
      BY <2>1, OneBlock DEF Connected
  <1>2. /\ lwip' \in [Pcbs -> PcbState]
        /\ Active(lwip') = {}
    <2>1. CASE socket_control_block = null
      <3>1. lwip' = IF connection_control_block = null THEN lwip ELSE Aborted(connection_control_block)
        BY <2>1 DEF CloseBlock, Closed
      <3> QED
        BY <1>1, <3>1, AbortedTable
    <2>2. CASE socket_control_block # null
      <3>1. PICK s \in {"free", "closing"} : lwip' = [lwip EXCEPT ![socket_control_block] = s]
        BY <1>1, <2>2 DEF CloseBlock, Closed
      <3> QED
        BY <1>1, <2>2, <3>1 DEF Active, PcbState
    <2> QED
      BY <2>1, <2>2
  <1>3. \A p \in Pcbs : lwip'[p] \notin {"ESTABLISHED", "CLOSE_WAIT"}
    BY <1>2 DEF Active
  <1> QED
    BY <1>2, <1>3, Ends DEF CloseBlock, clear_packet_queues, SocketInv, TypeOK

LEMMA AcceptsKeeps ==
  ASSUME SocketInv, accepted < MaxOrders,
         NEW answer, Answers(Transmitter, answer, accepted + 1, Order),
         ~CanSend => answer = [sent |-> FALSE, path |-> Transmitter],
         Accepts(answer)
  PROVE  SocketInv'
  <1> DEFINE count == accepted - received
  <1>1. accepted \in Nat /\ received \in Nat /\ received <= accepted /\ MaxOrders \in Nat
    BY LimitAssumption DEF SocketInv, TypeOK
  <1>2. count \in Nat /\ received + count + 1 = accepted + 1 /\ accepted + 1 - received = count + 1
    BY <1>1
  <1>3. state # "INACTIVE" => Stream(Transmitter) = Numbers(received, count)
    BY TransmitterInBounds DEF SocketInv, OrdersKeepTheirOrder, Numbers
  <1>4. state = "INACTIVE" => ~CanSend
    BY DEF CanSend
  <1>5. CASE answer.sent
    <2>1. CanSend
      BY <1>5
    <2>2. InBounds(answer.path, Order) /\ Stream(answer.path) = Append(Stream(Transmitter), accepted + 1)
      BY <1>5 DEF Answers, Extends
    <2>3. accepted' = accepted + 1 /\ received' = received
      BY <1>5 DEF Accepts
    <2>4. Stream(answer.path) = Numbers(received', accepted' - received')
      <3>1. Append(Numbers(received, count), received + count + 1) = Numbers(received, count + 1)
        BY <1>1, <1>2, NumbersAppend
      <3>2. Stream(answer.path) = Append(Numbers(received, count), accepted + 1)
        BY <1>3, <1>4, <2>1, <2>2
      <3>3. received + count + 1 = accepted + 1 /\ accepted' - received' = count + 1
        BY <1>1, <2>3
      <3> HIDE DEF count
      <3> QED
        BY <2>3, <3>1, <3>2, <3>3
    <2>5. accepted' \in 0..MaxOrders /\ received' \in 0..accepted'
      BY <1>1, <2>3
    <2> QED
      BY <1>4, <2>1, <2>2, <2>4, <2>5, TransmitsKeeps DEF Accepts, control
  <1>6. CASE ~answer.sent
    <2>1. InBounds(answer.path, Order) /\ Stream(answer.path) = Stream(Transmitter)
      BY <1>6 DEF Answers, KeepsStream
    <2>2. accepted' = accepted /\ received' = received
      BY <1>6 DEF Accepts
    <2>3. state = "INACTIVE" => answer.path = Transmitter /\ accepted' = 0 /\ received' = 0
      BY <1>4, <2>2 DEF SocketInv, Inactive
    <2>4. accepted' \in 0..MaxOrders /\ received' \in 0..accepted'
      BY <2>2 DEF SocketInv, TypeOK
    <2>5. state # "INACTIVE" => Stream(answer.path) = Numbers(received', accepted' - received')
      BY <1>3, <2>1, <2>2
    <2> QED
      BY <2>1, <2>3, <2>4, <2>5, TransmitsKeeps DEF Accepts, control
  <1> QED
    BY <1>5, <1>6

LEMMA SendOrderKeeps ==
  ASSUME SocketInv, send_order
  PROVE  SocketInv'
  <1>1. CASE CanSend
    <2>1. PICK a \in SendOrder(Transmitter, accepted + 1) : Accepts(a)
      BY <1>1 DEF send_order
    <2>2. accepted < MaxOrders /\ accepted + 1 \in Order
      BY <1>1, LimitAssumption DEF send_order, SocketInv, TypeOK, Order
    <2>3. Answers(Transmitter, a, accepted + 1, Order)
      BY <2>1, <2>2, SendOrderAnswers, TransmitterInBounds
    <2> QED
      BY <1>1, <2>1, <2>2, <2>3, AcceptsKeeps
  <1>2. CASE ~CanSend
    BY <1>2, ReconnectKeeps DEF send_order
  <1> QED
    BY <1>1, <1>2

LEMMA AddOrderKeeps ==
  ASSUME SocketInv, add_order_to_queue
  PROVE  SocketInv'
  <1>1. PICK a \in AddOrderToQueue(Transmitter, accepted + 1) : Accepts(a)
    BY DEF add_order_to_queue
  <1>2. accepted < MaxOrders /\ accepted + 1 \in Order
    BY LimitAssumption DEF add_order_to_queue, SocketInv, TypeOK, Order
  <1>3. Answers(Transmitter, a, accepted + 1, Order)
    BY <1>1, <1>2, AddAnswers, TransmitterInBounds
  <1>4. ~CanSend => a = [sent |-> FALSE, path |-> Transmitter]
    BY <1>1, TransmitterInBounds DEF AddOrderToQueue
  <1> QED
    BY <1>1, <1>2, <1>3, <1>4, AcceptsKeeps

LEMMA SendKeepsInv ==
  ASSUME SocketInv, send
  PROVE  SocketInv'
  <1>1. PICK path \in Send(Transmitter) : Transmits(path)
    BY DEF send
  <1>2. KeepsStream(Transmitter, path, Order) /\ (~CanSend => path = Transmitter)
    BY <1>1, SendKeeps, TransmitterInBounds
  <1>3. accepted' = accepted /\ received' = received
    BY DEF send
  <1>4. accepted' \in 0..MaxOrders /\ received' \in 0..accepted'
    BY <1>3 DEF SocketInv, TypeOK
  <1>5. state # "INACTIVE" => Stream(path) = Numbers(received', accepted' - received')
    BY <1>2, <1>3, TransmitterInBounds DEF KeepsStream, SocketInv, OrdersKeepTheirOrder, Numbers
  <1>6. state = "INACTIVE" => path = Transmitter /\ accepted' = 0 /\ received' = 0
    BY <1>2, <1>3 DEF CanSend, SocketInv, Inactive
  <1> QED
    BY <1>1, <1>2, <1>4, <1>5, <1>6, TransmitsKeeps DEF send, KeepsStream, control
-----------------------------------------------------------------------------
(* Each callback of lwIP.                                                  *)

(* A connection begins with nothing to send: the flush finds no order.     *)
LEMMA ConnectKeeps ==
  ASSUME SocketInv, NEW pcb \in Pcbs, connect_callback(pcb)
  PROVE  SocketInv'
  <1> DEFINE p == [open |-> TRUE, tx |-> tx_packet_buffer, wire |-> wire]
  <1>1. /\ lwip[pcb] = "SYN_SENT" /\ connection_control_block = pcb
        /\ \A b \in Pcbs : b # pcb => lwip[b] \in {"free", "closing"}
        /\ tx_packet_buffer = <<>> /\ wire = <<>> /\ accepted = 0 /\ received = 0
    BY OneBlock DEF connect_callback, Connecting, SocketInv, Inactive
  <1>2. PICK path \in Send(p) :
          /\ tx_packet_buffer' = path.tx /\ wire' = path.wire
          /\ state' = IF path.open THEN "CONNECTED" ELSE "CLOSING"
    BY DEF connect_callback
  <1>3. InBounds(p, Order)
    BY <1>1, QueueAssumption DEF InBounds, Path
  <1>4. KeepsStream(p, path, Order)
    BY <1>2, <1>3, SendKeeps
  <1>5. /\ path.tx \in Seq(Order) /\ path.wire \in Seq(Order)
        /\ Len(path.tx) <= MAX_TX_QUEUE_DEPTH /\ Len(path.wire) <= TCP_SND_BUF
        /\ path.wire \o path.tx = <<>>
    BY <1>1, <1>4 DEF KeepsStream, InBounds, Path, Stream
  <1>6. /\ lwip' = [lwip EXCEPT ![pcb] = "ESTABLISHED"]
        /\ connection_control_block' = pcb /\ socket_control_block' = pcb
        /\ pending_connection_reset' = FALSE /\ connect_poll_ticks' = 0
        /\ accepted' = 0 /\ received' = 0 /\ routable' = routable
    BY <1>1 DEF connect_callback
  <1>7. TypeOK'
    <2>1. Transmitter' \in Path(Order)
      BY <1>2, <1>5 DEF Transmitter, CanSend, Path
    <2>2. lwip' \in [Pcbs -> PcbState]
      BY <1>6 DEF SocketInv, TypeOK, PcbState
    <2>3. /\ state' \in {"INACTIVE", "CONNECTED", "CLOSING"}
          /\ Len(tx_packet_buffer') <= MAX_TX_QUEUE_DEPTH /\ Len(wire') <= TCP_SND_BUF
      BY <1>2, <1>5
    <2>4. /\ connection_control_block' \in Pcbs \union {null}
          /\ socket_control_block' \in Pcbs \union {null}
          /\ pending_connection_reset' \in BOOLEAN /\ routable' \in BOOLEAN
      BY <1>6 DEF SocketInv, TypeOK
    <2>5. /\ connect_poll_ticks' \in 0..ConnectPollLimit
          /\ accepted' \in 0..MaxOrders /\ received' \in 0..accepted'
      BY <1>6, LimitAssumption
    <2> QED
      BY <2>1, <2>2, <2>3, <2>4, <2>5 DEF TypeOK, Order
  <1>8. ControlBlocksAgree'
    BY <1>1, <1>2, <1>6, PoolAssumption DEF SocketInv, TypeOK, ControlBlocksAgree, Connected
  <1>9. OrdersKeepTheirOrder'
    BY <1>2, <1>5, <1>6 DEF OrdersKeepTheirOrder
  <1>10. Inactive' /\ PollsLeft'
    BY <1>2, <1>6, LimitAssumption DEF Inactive, PollsLeft
  <1> QED
    BY <1>7, <1>8, <1>9, <1>10 DEF SocketInv

LEMMA ReceiveKeeps ==
  ASSUME SocketInv, NEW pcb \in Pcbs, receive_callback(pcb)
  PROVE  SocketInv'
  <1>1. /\ lwip[pcb] = "ESTABLISHED" /\ connection_control_block = pcb
        /\ socket_control_block = pcb /\ state # "INACTIVE"
    BY OneBlock DEF receive_callback, Connected
  <1>2. /\ lwip' = [lwip EXCEPT ![pcb] = "CLOSE_WAIT"]
        /\ socket_control_block' = pcb /\ state' = "CLOSING"
        /\ UNCHANGED <<connection_control_block, pending_connection_reset, connect_poll_ticks,
                        tx_packet_buffer, wire, accepted, received, routable>>
    BY DEF receive_callback, traffic
  <1>3. TypeOK'
    BY <1>2 DEF SocketInv, TypeOK, Transmitter, CanSend, Path, PcbState
  <1>4. ControlBlocksAgree'
    BY <1>1, <1>2, PoolAssumption DEF SocketInv, TypeOK, ControlBlocksAgree, Connected
  <1>5. OrdersKeepTheirOrder'
    BY <1>1, <1>2 DEF SocketInv, OrdersKeepTheirOrder
  <1>6. Inactive' /\ PollsLeft'
    BY <1>2 DEF SocketInv, Inactive, PollsLeft
  <1> QED
    BY <1>3, <1>4, <1>5, <1>6 DEF SocketInv

LEMMA PollKeeps ==
  ASSUME SocketInv, NEW pcb \in Pcbs, poll_callback(pcb)
  PROVE  SocketInv'
  <1>1. socket_control_block = pcb /\ state # "INACTIVE"
    BY OneBlock DEF poll_callback, Connected
  <1>2. PICK path \in Flushed :
          IF MustClose(path)
          THEN CloseBlock(pcb)
          ELSE /\ Transmits(path)
               /\ socket_control_block' = pcb
               /\ UNCHANGED <<connection_control_block, pending_connection_reset, connect_poll_ticks,
                               accepted, received, lwip, routable>>
    BY DEF poll_callback
  <1>3. CASE MustClose(path)
    BY <1>1, <1>2, <1>3, CloseBlockKeeps
  <1>4. CASE ~MustClose(path)
    <2>1. KeepsStream(Transmitter, path, Order)
      BY <1>2, SendKeeps, TransmitterInBounds DEF Flushed
    <2>2. accepted' \in 0..MaxOrders /\ received' \in 0..accepted'
      BY <1>2, <1>4 DEF SocketInv, TypeOK
    <2>3. Stream(path) = Numbers(received', accepted' - received')
      BY <1>1, <1>2, <1>4, <2>1, TransmitterInBounds
      DEF KeepsStream, SocketInv, OrdersKeepTheirOrder, Numbers
    <2> QED
      BY <1>1, <1>2, <1>4, <2>1, <2>2, <2>3, TransmitsKeeps DEF KeepsStream
  <1> QED
    BY <1>3, <1>4

(* The orders acknowledged are the oldest: those that remain are numbered  *)
(* from there on.                                                          *)
LEMMA SendCallbackKeeps ==
  ASSUME SocketInv, NEW pcb \in Pcbs, NEW n \in 1..TCP_SND_BUF, send_callback(pcb, n)
  PROVE  SocketInv'
  <1> DEFINE count == accepted - received
             rest == Rest(wire, n)
  <1>1. socket_control_block = pcb /\ state # "INACTIVE"
    BY OneBlock DEF send_callback, Connected
  <1>2. CASE tx_packet_buffer = <<>> /\ state = "CLOSING"
    BY <1>1, <1>2, CloseBlockKeeps DEF send_callback
  <1>3. CASE ~(tx_packet_buffer = <<>> /\ state = "CLOSING")
    <2>1. PICK path \in Send(Acknowledged(n)) : Transmits(path)
      BY <1>3 DEF send_callback
    <2>2. /\ accepted \in Nat /\ received \in Nat /\ count \in Nat
          /\ received + count = accepted /\ accepted <= MaxOrders
      BY LimitAssumption DEF SocketInv, TypeOK
    <2>3. Numbered(wire, tx_packet_buffer, received, count)
      BY <1>1 DEF SocketInv, OrdersKeepTheirOrder, Numbers, Numbered
    <2>4. n \in 1..Len(wire)
      BY DEF send_callback
    <2> HIDE DEF count
    <2>5. /\ n <= count /\ rest \in Seq(Order) /\ Len(rest) <= Len(wire)
          /\ Numbered(rest, tx_packet_buffer, received + n, count - n)
      <3>1. wire \in Seq(Order) /\ tx_packet_buffer \in Seq(Order)
        BY TransmitterInBounds
      <3> QED
        BY ONLY <2>2, <2>3, <2>4, <3>1, NumbersDrop
    <2>6. /\ Acknowledged(n) = [Transmitter EXCEPT !.wire = rest]
          /\ Acknowledged(n).open = CanSend /\ Acknowledged(n).tx = tx_packet_buffer
          /\ Acknowledged(n).wire = rest
          /\ Acknowledged(n) \in Path(Order)
      <3> HIDE DEF rest
      <3>1. Acknowledged(n) = [Transmitter EXCEPT !.wire = rest]
        BY DEF Acknowledged, Transmitter, Rest, rest
      <3> QED
        BY <2>5, <3>1, TransmitterInBounds DEF Transmitter, Path, InBounds
    <2>7. InBounds(Acknowledged(n), Order)
      <3>1. Len(wire) <= TCP_SND_BUF /\ Len(tx_packet_buffer) <= MAX_TX_QUEUE_DEPTH
        BY DEF SocketInv, TypeOK
      <3>2. Len(wire) \in Nat /\ Len(rest) \in Nat
        BY <2>5, LenProperties, TransmitterInBounds
      <3> HIDE DEF rest
      <3> QED
        BY <2>5, <2>6, <3>1, <3>2, QueueAssumption DEF InBounds
    <2>8. KeepsStream(Acknowledged(n), path, Order)
      BY <2>1, <2>7, SendKeeps
    <2>9. accepted' = accepted /\ received' = received + n
      BY <1>3 DEF send_callback
    <2>10. accepted' \in 0..MaxOrders /\ received' \in 0..accepted'
      BY <2>2, <2>4, <2>5, <2>9
    <2>11. Stream(path) = Numbers(received', accepted' - received')
      <3> HIDE DEF rest
      <3>1. accepted' - received' = count - n
        BY <2>2, <2>9
      <3> QED
        BY <2>5, <2>6, <2>8, <2>9, <3>1 DEF KeepsStream, Stream, Numbered
    <2> QED
      BY <1>1, <1>3, <2>1, <2>8, <2>10, <2>11, TransmitsKeeps DEF KeepsStream, send_callback
  <1> QED
    BY <1>2, <1>3

LEMMA BlockLostKeeps ==
  ASSUME SocketInv, NEW pcb \in Pcbs, lwip[pcb] \notin {"free", "closing"},
         BlockLost(pcb), tx_packet_buffer' = <<>>
  PROVE  SocketInv'
  <1>1. lwip' \in [Pcbs -> PcbState] /\ Active(lwip') = {}
    <2>1. Active(lwip) = {pcb}
      BY OneBlock DEF Active
    <2> QED
      BY <2>1, AbortedTable DEF BlockLost
  <1>2. \A p \in Pcbs : lwip'[p] \notin {"ESTABLISHED", "CLOSE_WAIT"}
    BY <1>1 DEF Active
  <1> QED
    BY <1>1, <1>2, Ends DEF BlockLost, SocketInv, TypeOK

LEMMA ErrorKeeps ==
  ASSUME SocketInv, NEW pcb \in Pcbs, error_callback(pcb)
  PROVE  SocketInv'
  BY BlockLostKeeps DEF error_callback, Connected, clear_packet_queues

(* The queue this callback does not clear is empty: the socket that        *)
(* connects is INACTIVE.                                                   *)
LEMMA ConnectionErrorKeeps ==
  ASSUME SocketInv, NEW pcb \in Pcbs, connection_error_callback(pcb)
  PROVE  SocketInv'
  <1>1. lwip[pcb] = "SYN_SENT" /\ pcb \in Connecting
    BY DEF connection_error_callback, Connecting
  <1>2. tx_packet_buffer' = <<>>
    BY <1>1, OneBlock DEF connection_error_callback, SocketInv, Inactive
  <1> QED
    BY <1>1, <1>2, BlockLostKeeps DEF connection_error_callback

LEMMA ConnectionPollKeeps ==
  ASSUME SocketInv, NEW pcb \in Pcbs, connection_poll_callback(pcb)
  PROVE  SocketInv'
  <1>1. CASE pending_connection_reset
    BY <1>1, ResetKeeps DEF connection_poll_callback
  <1>2. CASE ~pending_connection_reset
    <2>1. connection_control_block = pcb
      BY OneBlock DEF connection_poll_callback, Connecting
    <2>2. /\ connection_control_block' = connection_control_block
          /\ connect_poll_ticks' = connect_poll_ticks + 1
          /\ pending_connection_reset' = (connect_poll_ticks + 1 >= ConnectPollLimit)
          /\ UNCHANGED <<state, socket_control_block, tx_packet_buffer, wire, accepted, received,
                          lwip, routable>>
      BY <1>2, <2>1 DEF connection_poll_callback, traffic
    <2>3. connect_poll_ticks \in Nat /\ connect_poll_ticks < ConnectPollLimit
      BY <1>2 DEF SocketInv, TypeOK, PollsLeft
    <2>4. connect_poll_ticks' \in 0..ConnectPollLimit /\ pending_connection_reset' \in BOOLEAN
          /\ PollsLeft'
      <3>1. connect_poll_ticks' \in 0..ConnectPollLimit
        BY <2>2, <2>3, LimitAssumption
      <3>2. pending_connection_reset' = (connect_poll_ticks' >= ConnectPollLimit)
        BY <2>2
      <3>3. pending_connection_reset' \in BOOLEAN
        <4>1. (connect_poll_ticks + 1 >= ConnectPollLimit) \in BOOLEAN
          OBVIOUS
        <4> QED
          BY <2>2, <4>1
      <3>4. connect_poll_ticks' >= ConnectPollLimit \/ connect_poll_ticks' < ConnectPollLimit
        BY <3>1, LimitAssumption
      <3> QED
        BY <3>1, <3>2, <3>3, <3>4 DEF PollsLeft
    <2>5. TypeOK'
      BY <2>2, <2>4 DEF SocketInv, TypeOK, Transmitter, CanSend
    <2>6. ControlBlocksAgree' /\ OrdersKeepTheirOrder' /\ Inactive'
      BY <2>2 DEF SocketInv, ControlBlocksAgree, Connected, OrdersKeepTheirOrder, Inactive
    <2> QED
      BY <2>4, <2>5, <2>6 DEF SocketInv
  <1> QED
    BY <1>1, <1>2

LEMMA LwipKeeps ==
  ASSUME SocketInv, ClosingEnds \/ RouteChanges
  PROVE  SocketInv'
  <1>1. CASE ClosingEnds
    <2>1. PICK p \in Pcbs : lwip[p] = "closing" /\ lwip' = [lwip EXCEPT ![p] = "free"]
      BY <1>1 DEF ClosingEnds
    <2>2. lwip' \in [Pcbs -> PcbState]
          /\ \A b \in Pcbs : lwip'[b] = lwip[b] \/ {lwip[b], lwip'[b]} \subseteq {"free", "closing"}
      BY <2>1 DEF SocketInv, TypeOK, PcbState
    <2>3. Active(lwip') = Active(lwip) /\ Connected' = Connected
      BY <2>2 DEF Active, Connected
    <2>4. UNCHANGED <<state, connection_control_block, socket_control_block,
                      pending_connection_reset, connect_poll_ticks, tx_packet_buffer, wire,
                      accepted, received, routable>>
      BY <1>1 DEF ClosingEnds, control, traffic
    <2>5. TypeOK' /\ OrdersKeepTheirOrder' /\ Inactive' /\ PollsLeft'
      BY <2>2, <2>4 DEF SocketInv, TypeOK, Transmitter, CanSend, OrdersKeepTheirOrder, Inactive, PollsLeft
    <2>6. ControlBlocksAgree'
      BY <2>3, <2>4 DEF SocketInv, ControlBlocksAgree, Active
    <2> QED
      BY <2>5, <2>6 DEF SocketInv
  <1>2. CASE RouteChanges
    BY <1>2 DEF RouteChanges, control, traffic, SocketInv, TypeOK, ControlBlocksAgree,
                OrdersKeepTheirOrder, Inactive, PollsLeft, Transmitter, CanSend, Connected
  <1> QED
    BY <1>1, <1>2
-----------------------------------------------------------------------------
LEMMA InitialSocket ==
  ASSUME Init
  PROVE  SocketInv
  <1>1. PICK a \in [block : Pcbs, connects : BOOLEAN] :
          /\ connection_control_block = a.block
          /\ pending_connection_reset = ~a.connects
          /\ lwip = [p \in Pcbs |-> IF p # a.block THEN "free"
                                    ELSE IF a.connects THEN "SYN_SENT" ELSE "bound"]
    BY DEF Init
  <1>2. a.block \in Pcbs /\ a.connects \in BOOLEAN
    OBVIOUS
  <1>3. /\ state = "INACTIVE" /\ socket_control_block = null /\ connect_poll_ticks = 0
        /\ tx_packet_buffer = <<>> /\ wire = <<>> /\ accepted = 0 /\ received = 0
        /\ routable \in BOOLEAN
    BY DEF Init
  <1>4. lwip \in [Pcbs -> PcbState]
    BY <1>1 DEF PcbState
  <1>5. TypeOK
    BY <1>1, <1>2, <1>3, <1>4, QueueAssumption, LimitAssumption
    DEF TypeOK, Transmitter, CanSend, Path
  <1>6. ControlBlocksAgree
    BY <1>1, <1>2, <1>3, PoolAssumption DEF ControlBlocksAgree, Connected
  <1> QED
    BY <1>3, <1>5, <1>6, LimitAssumption DEF SocketInv, OrdersKeepTheirOrder, Inactive, PollsLeft

LEMMA NextKeeps ==
  ASSUME SocketInv, [Next]_vars
  PROVE  SocketInv'
  <1>1. CASE send_order
    BY <1>1, SendOrderKeeps
  <1>2. CASE add_order_to_queue
    BY <1>2, AddOrderKeeps
  <1>3. CASE send
    BY <1>3, SendKeepsInv
  <1>4. CASE reconnect
    BY <1>4, ReconnectKeeps
  <1>5. CASE reset
    BY <1>5, ResetKeeps
  <1>6. CASE close
    BY <1>6, CloseBlockKeeps DEF close
  <1>7. ASSUME NEW p \in Pcbs, connect_callback(p) PROVE SocketInv'
    BY <1>7, ConnectKeeps
  <1>8. ASSUME NEW p \in Pcbs, receive_callback(p) PROVE SocketInv'
    BY <1>8, ReceiveKeeps
  <1>9. ASSUME NEW p \in Pcbs, poll_callback(p) PROVE SocketInv'
    BY <1>9, PollKeeps
  <1>10. ASSUME NEW p \in Pcbs, NEW n \in 1..TCP_SND_BUF, send_callback(p, n) PROVE SocketInv'
    BY <1>10, SendCallbackKeeps
  <1>11. ASSUME NEW p \in Pcbs, error_callback(p) PROVE SocketInv'
    BY <1>11, ErrorKeeps
  <1>12. ASSUME NEW p \in Pcbs, connection_error_callback(p) PROVE SocketInv'
    BY <1>12, ConnectionErrorKeeps
  <1>13. ASSUME NEW p \in Pcbs, connection_poll_callback(p) PROVE SocketInv'
    BY <1>13, ConnectionPollKeeps
  <1>14. CASE ClosingEnds \/ RouteChanges
    BY <1>14, LwipKeeps
  <1>15. CASE UNCHANGED vars
    BY <1>15, StutterKeeps
  <1> QED
    BY <1>1, <1>2, <1>3, <1>4, <1>5, <1>6, <1>7, <1>8, <1>9, <1>10, <1>11, <1>12, <1>13, <1>14,
       <1>15 DEF Next

LEMMA SocketInvariant == Spec => []SocketInv
  BY InitialSocket, NextKeeps, PTL DEF Spec

(* However the application's calls, the peer, lwIP's timers and the two    *)
(* error callbacks interleave, the socket's two pointers and its state     *)
(* agree with the blocks lwIP holds: none dangles, and no block that can   *)
(* still call back is forgotten.                                           *)
THEOREM PointersAgreeWithLwip == Spec => []SocketIsConsistent
  <1>1. SocketInv => SocketIsConsistent
    BY DEF SocketInv, SocketIsConsistent
  <1> QED
    BY <1>1, SocketInvariant, PTL

(* Every order send_order or add_order_to_queue took in this connection is *)
(* received, in the send buffer or in the queue, once and in the order of  *)
(* the calls, whatever tcp_write answers and wherever a flush stops.       *)
THEOREM ClientKeepsTheOrder == Spec => []OrdersKeepTheirOrder
  <1>1. SocketInv => OrdersKeepTheirOrder
    BY DEF SocketInv
  <1> QED
    BY <1>1, SocketInvariant, PTL
=============================================================================
