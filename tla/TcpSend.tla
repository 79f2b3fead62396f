------------------------------- MODULE TcpSend -------------------------------
(***************************************************************************)
(* The transmit path that Socket and ServerSocket have in common, word for *)
(* word: an order goes straight into lwIP's send buffer or waits in        *)
(* tx_packet_buffer for send() to write it.                                *)
(*                                                                         *)
(* A path is a record: open, whether the object is in the state in which   *)
(* it may send and has a control block; tx, its tx_packet_buffer; wire,    *)
(* what the send buffer of that control block holds, oldest first.  Every  *)
(* order takes one unit of the send buffer.  What lwIP answers, and        *)
(* whether pbuf_alloc finds memory, is a choice, so an operation is the    *)
(* set of its outcomes.                                                    *)
(***************************************************************************)
EXTENDS Naturals, Sequences

CONSTANTS
  MAX_TX_QUEUE_DEPTH, \* 64: orders tx_packet_buffer may hold
  TCP_SND_BUF         \* capacity of lwIP's send buffer, in orders

ASSUME QueueAssumption == MAX_TX_QUEUE_DEPTH \in Nat \ {0} /\ TCP_SND_BUF \in Nat \ {0}

Path(Order) == [open : BOOLEAN, tx : Seq(Order), wire : Seq(Order)]

(* tcp_sndbuf()                                                            *)
Room(p) == TCP_SND_BUF - Len(p.wire)

(* tcp_write() failed with something else than ERR_MEM: state = CLOSING.   *)
Broken(p) == [p EXCEPT !.open = FALSE]

(* Defect: try_send_immediately() does not ask whether orders are waiting. *)
OvertakeQueue(p, order) ==
  {[sent |-> FALSE, path |-> p]} \union
  IF p.open /\ Room(p) > 0
  THEN {[sent |-> TRUE, path |-> [p EXCEPT !.wire = Append(@, order)]]}
  ELSE {}

(* try_send_immediately(): the answer and the path after it.               *)
TrySendImmediately(p, order) ==
  {[sent |-> FALSE, path |-> p]} \union
  IF p.open /\ p.tx = <<>> /\ Room(p) > 0
  THEN {[sent |-> TRUE, path |-> [p EXCEPT !.wire = Append(@, order)]],
        [sent |-> FALSE, path |-> Broken(p)]}
  ELSE {}

(* add_order_to_queue()                                                    *)
AddOrderToQueue(p, order) ==
  {[sent |-> FALSE, path |-> p]} \union
  IF p.open /\ Len(p.tx) < MAX_TX_QUEUE_DEPTH
  THEN {[sent |-> TRUE, path |-> [p EXCEPT !.tx = Append(@, order)]]}
  ELSE {}

(* The first n orders of the queue have been written.                      *)
Written(p, n) ==
  [p EXCEPT !.tx = SubSeq(@, n + 1, Len(@)), !.wire = @ \o SubSeq(p.tx, 1, n)]

(* send() writes from the front until the queue is empty, the buffer has   *)
(* no room, memory runs out or a write fails.                              *)
Send(p) ==
  IF ~p.open THEN {p}
  ELSE UNION { {Written(p, n)} \union
               (IF n < Len(p.tx) /\ n < Room(p) THEN {Broken(Written(p, n))} ELSE {})
             : n \in {k \in 0..Len(p.tx) : k <= Room(p)} }

(* The outcomes of an operation that follows each of a set of answers.     *)
Refused(answers) == {a.path : a \in {b \in answers : ~b.sent}}
Taken(answers) == {a.path : a \in {b \in answers : b.sent}}

(* send_order() of an open path: written at once; or queued, after one     *)
(* flush if need be, and flushed; or refused.                              *)
SendOrder(p, order) ==
  LET tried  == TrySendImmediately(p, order)
      queued == UNION {AddOrderToQueue(q, order) : q \in Refused(tried)}
      again  == UNION {AddOrderToQueue(q, order) : q \in UNION {Send(r) : r \in Refused(queued)}}
      held   == UNION {Send(q) : q \in Taken(queued) \union Taken(again)}
  IN [sent : {TRUE}, path : Taken(tried) \union held] \union
     [sent : {FALSE}, path : Refused(again)]
=============================================================================
