----------------------------- MODULE TcpSendProofs -----------------------------
(***************************************************************************)
(* What the transmit path keeps, whatever lwIP answers: the orders of the  *)
(* send buffer and of the queue, read one after the other, stay the same   *)
(* or get one more at the end.                                             *)
(***************************************************************************)
EXTENDS TcpSend, SequenceTheorems, TLAPS

(* What the client is to receive, in this order.                           *)
Stream(p) == p.wire \o p.tx

(* A path within the capacities of its two queues.                         *)
InBounds(p, Order) ==
  p \in Path(Order) /\ Len(p.tx) <= MAX_TX_QUEUE_DEPTH /\ Len(p.wire) <= TCP_SND_BUF

(* q is what an operation that takes no order may leave of p.              *)
KeepsStream(p, q, Order) ==
  InBounds(q, Order) /\ Stream(q) = Stream(p) /\ (q.open => p.open)

(* ... and one that takes the order.                                       *)
Extends(p, q, order, Order) ==
  InBounds(q, Order) /\ Stream(q) = Append(Stream(p), order) /\ (q.open => p.open)
-----------------------------------------------------------------------------
LEMMA ConcatAppend ==
  ASSUME NEW S, NEW s \in Seq(S), NEW t \in Seq(S), NEW e \in S
  PROVE  s \o Append(t, e) = Append(s \o t, e)
  OBVIOUS

(* A path given by its three parts.                                        *)
LEMMA PathParts ==
  ASSUME NEW Order, NEW p, InBounds(p, Order)
  PROVE  /\ p.open \in BOOLEAN /\ p.tx \in Seq(Order) /\ p.wire \in Seq(Order)
         /\ Len(p.tx) \in Nat /\ Len(p.wire) \in Nat
         /\ Room(p) \in Nat
         /\ KeepsStream(p, p, Order)
  <1>1. p.open \in BOOLEAN /\ p.tx \in Seq(Order) /\ p.wire \in Seq(Order)
    BY DEF InBounds, Path
  <1>2. Len(p.tx) \in Nat /\ Len(p.wire) \in Nat
    BY <1>1, LenProperties
  <1> QED
    BY <1>1, <1>2, QueueAssumption DEF KeepsStream, InBounds, Room

(* A write that fails changes nothing but the state.                       *)
LEMMA BrokenKeeps ==
  ASSUME NEW Order, NEW p, InBounds(p, Order)
  PROVE  KeepsStream(p, Broken(p), Order) /\ ~Broken(p).open
  BY DEF InBounds, Path, Broken, KeepsStream, Stream

(* Orders move from the front of the queue to the end of the send buffer.  *)
LEMMA WrittenKeeps ==
  ASSUME NEW Order, NEW p, InBounds(p, Order),
         NEW n \in 0..Len(p.tx), n <= Room(p)
  PROVE  KeepsStream(p, Written(p, n), Order)
  <1> DEFINE front == SubSeq(p.tx, 1, n)
             rest  == SubSeq(p.tx, n + 1, Len(p.tx))
  <1>1. /\ p.open \in BOOLEAN /\ p.tx \in Seq(Order) /\ p.wire \in Seq(Order)
        /\ Len(p.tx) \in Nat /\ Len(p.wire) \in Nat
    BY PathParts
  <1>2. /\ front \in Seq(Order) /\ Len(front) = n
        /\ rest \in Seq(Order) /\ Len(rest) = Len(p.tx) - n
    <2>1. \A i \in 1..Len(p.tx) : p.tx[i] \in Order
      BY <1>1, ElementOfSeq
    <2>2. front \in Seq(Order) /\ Len(front) = n
      BY <1>1, <2>1, SubSeqProperties
    <2>3. rest \in Seq(Order) /\ Len(rest) = Len(p.tx) - n
      BY <1>1, <2>1, SubSeqProperties
    <2> QED
      BY <2>2, <2>3
  <1>3. front \o rest = p.tx
    <2>1. 1 \in 1..Len(p.tx) + 1 /\ n \in 1 - 1..Len(p.tx) /\ Len(p.tx) \in n..Len(p.tx)
      BY <1>1
    <2>2. front \o rest = SubSeq(p.tx, 1, Len(p.tx))
      BY <1>1, <2>1, ConcatAdjacentSubSeq
    <2> QED
      BY <1>1, <2>2, SubSeqFull
  <1>4. /\ Written(p, n).open = p.open /\ Written(p, n).tx = rest
        /\ Written(p, n).wire = p.wire \o front
        /\ Written(p, n) = [p EXCEPT !.tx = rest, !.wire = p.wire \o front]
    BY DEF Written, InBounds, Path
  <1> HIDE DEF front, rest
  <1>5. p.wire \o front \in Seq(Order) /\ Len(p.wire \o front) = Len(p.wire) + n
    BY <1>1, <1>2, ConcatProperties
  <1>6. (p.wire \o front) \o rest = p.wire \o p.tx
    <2>1. \A s, t, u \in Seq(Order) : (s \o t) \o u = s \o (t \o u)
      BY ConcatAssociative
    <2>2. (p.wire \o front) \o rest = p.wire \o (front \o rest)
      BY <1>1, <1>2, <2>1, Zenon
    <2> QED
      BY <1>3, <2>2
  <1>7. Written(p, n) \in Path(Order)
    BY <1>2, <1>4, <1>5 DEF InBounds, Path
  <1> HIDE DEF Written
  <1>8. Stream(Written(p, n)) = Stream(p)
    BY <1>4, <1>6 DEF Stream
  <1>9. Len(rest) <= Len(p.tx) /\ Len(p.wire) + n <= TCP_SND_BUF
    BY <1>1, <1>2, QueueAssumption DEF Room
  <1>10. InBounds(Written(p, n), Order)
    BY <1>1, <1>2, <1>4, <1>5, <1>7, <1>9, QueueAssumption DEF InBounds
  <1> QED
    BY <1>4, <1>8, <1>10 DEF KeepsStream

LEMMA KeepsTwice ==
  ASSUME NEW Order, NEW p, NEW q, NEW r, KeepsStream(p, q, Order), KeepsStream(q, r, Order)
  PROVE  KeepsStream(p, r, Order)
  BY DEF KeepsStream

(* send() loses no order and puts none in front of another, wherever it    *)
(* stops.                                                                  *)
LEMMA SendKeeps ==
  ASSUME NEW Order, NEW p, InBounds(p, Order), NEW q \in Send(p)
  PROVE  KeepsStream(p, q, Order) /\ (~p.open => q = p)
  <1>1. CASE ~p.open
    BY <1>1, PathParts DEF Send
  <1>2. CASE p.open
    <2>1. PICK n \in 0..Len(p.tx) : n <= Room(p) /\ q \in {Written(p, n), Broken(Written(p, n))}
      BY <1>2 DEF Send
    <2>2. KeepsStream(p, Written(p, n), Order)
      BY <2>1, WrittenKeeps
    <2>3. KeepsStream(Written(p, n), Broken(Written(p, n)), Order)
      BY <2>2, BrokenKeeps DEF KeepsStream
    <2> QED
      BY <1>2, <2>1, <2>2, <2>3, KeepsTwice
  <1> QED
    BY <1>1, <1>2

(* An order at the end of the queue is at the end of the stream, and so is *)
(* one at the end of the send buffer when the queue is empty.              *)
LEMMA AppendExtends ==
  ASSUME NEW Order, NEW p, InBounds(p, Order), NEW order \in Order
  PROVE  /\ Len(p.tx) < MAX_TX_QUEUE_DEPTH =>
              Extends(p, [p EXCEPT !.tx = Append(@, order)], order, Order)
         /\ p.tx = <<>> /\ Room(p) > 0 =>
              Extends(p, [p EXCEPT !.wire = Append(@, order)], order, Order)
  <1>1. /\ p.open \in BOOLEAN /\ p.tx \in Seq(Order) /\ p.wire \in Seq(Order)
        /\ Len(p.tx) \in Nat /\ Len(p.wire) \in Nat
    BY PathParts
  <1>2. /\ Append(p.tx, order) \in Seq(Order) /\ Len(Append(p.tx, order)) = Len(p.tx) + 1
        /\ Append(p.wire, order) \in Seq(Order) /\ Len(Append(p.wire, order)) = Len(p.wire) + 1
    BY <1>1, AppendProperties
  <1>3. p.wire \o Append(p.tx, order) = Append(p.wire \o p.tx, order)
    <2>1. \A s, t \in Seq(Order) : s \o Append(t, order) = Append(s \o t, order)
      BY ConcatAppend
    <2> QED
      BY <1>1, <2>1, Zenon
  <1>4. Append(p.wire, order) \o <<>> = Append(p.wire \o <<>>, order)
    BY <1>1, <1>2, ConcatEmptySeq
  <1>5. Len(p.tx) < MAX_TX_QUEUE_DEPTH =>
          Extends(p, [p EXCEPT !.tx = Append(@, order)], order, Order)
    <2> DEFINE q == [p EXCEPT !.tx = Append(p.tx, order)]
    <2>1. q \in Path(Order) /\ q.open = p.open /\ q.wire = p.wire /\ q.tx = Append(p.tx, order)
      BY <1>2 DEF InBounds, Path
    <2> HIDE DEF q
    <2>2. Len(p.tx) < MAX_TX_QUEUE_DEPTH => Len(q.tx) <= MAX_TX_QUEUE_DEPTH
      BY <1>1, <1>2, <2>1, QueueAssumption
    <2>3. Len(p.tx) < MAX_TX_QUEUE_DEPTH => Extends(p, q, order, Order)
      BY <1>3, <2>1, <2>2 DEF Extends, InBounds, Stream
    <2> QED
      BY <2>3 DEF q
  <1>6. p.tx = <<>> /\ Room(p) > 0 =>
          Extends(p, [p EXCEPT !.wire = Append(@, order)], order, Order)
    <2> DEFINE q == [p EXCEPT !.wire = Append(p.wire, order)]
    <2>1. q \in Path(Order) /\ q.open = p.open /\ q.tx = p.tx /\ q.wire = Append(p.wire, order)
      BY <1>2 DEF InBounds, Path
    <2> HIDE DEF q
    <2>2. Room(p) > 0 => Len(q.wire) <= TCP_SND_BUF
      BY <1>1, <1>2, <2>1, QueueAssumption DEF Room
    <2>3. p.tx = <<>> /\ Room(p) > 0 => Extends(p, q, order, Order)
      BY <1>4, <2>1, <2>2 DEF Extends, InBounds, Stream
    <2> QED
      BY <2>3 DEF q
  <1> QED
    BY <1>5, <1>6

(* The order of an answer is at the end of the stream if the answer is     *)
(* TRUE, and nowhere otherwise.                                            *)
Answers(p, a, order, Order) ==
  /\ a.sent \in BOOLEAN
  /\ IF a.sent THEN Extends(p, a.path, order, Order) ELSE KeepsStream(p, a.path, Order)

LEMMA TryAnswers ==
  ASSUME NEW Order, NEW p, InBounds(p, Order), NEW order \in Order,
         NEW a \in TrySendImmediately(p, order)
  PROVE  Answers(p, a, order, Order)
  <1>1. CASE a = [sent |-> FALSE, path |-> p]
    BY <1>1, PathParts DEF Answers
  <1>2. CASE p.tx = <<>> /\ Room(p) > 0 /\ a = [sent |-> TRUE, path |-> [p EXCEPT !.wire = Append(@, order)]]
    <2>1. Extends(p, [p EXCEPT !.wire = Append(@, order)], order, Order)
      BY <1>2, AppendExtends
    <2> QED
      BY <1>2, <2>1 DEF Answers
  <1>3. CASE a = [sent |-> FALSE, path |-> Broken(p)]
    BY <1>3, BrokenKeeps DEF Answers
  <1> QED
    BY <1>1, <1>2, <1>3 DEF TrySendImmediately

LEMMA AddAnswers ==
  ASSUME NEW Order, NEW p, InBounds(p, Order), NEW order \in Order,
         NEW a \in AddOrderToQueue(p, order)
  PROVE  Answers(p, a, order, Order)
  <1>1. CASE a = [sent |-> FALSE, path |-> p]
    BY <1>1, PathParts DEF Answers
  <1>2. CASE Len(p.tx) < MAX_TX_QUEUE_DEPTH
             /\ a = [sent |-> TRUE, path |-> [p EXCEPT !.tx = Append(@, order)]]
    <2>1. Extends(p, [p EXCEPT !.tx = Append(@, order)], order, Order)
      BY <1>2, AppendExtends
    <2> QED
      BY <1>2, <2>1 DEF Answers
  <1> QED
    BY <1>1, <1>2 DEF AddOrderToQueue

(* send_order() in all its ways through the path: the order follows every  *)
(* order taken before it, or is not taken and disturbs none.               *)
THEOREM SendOrderAnswers ==
  ASSUME NEW Order, NEW p, InBounds(p, Order), NEW order \in Order,
         NEW a \in SendOrder(p, order)
  PROVE  Answers(p, a, order, Order)
  <1> DEFINE tried  == TrySendImmediately(p, order)
             queued == UNION {AddOrderToQueue(q, order) : q \in Refused(tried)}
             again  == UNION {AddOrderToQueue(q, order) : q \in UNION {Send(r) : r \in Refused(queued)}}
             held   == UNION {Send(q) : q \in Taken(queued) \union Taken(again)}
  <1>1. ASSUME NEW b \in tried PROVE Answers(p, b, order, Order)
    BY TryAnswers
  <1>2. ASSUME NEW q, KeepsStream(p, q, Order), NEW b \in AddOrderToQueue(q, order)
        PROVE  Answers(p, b, order, Order)
    BY <1>2, AddAnswers, KeepsTwice DEF Answers, KeepsStream, Extends
  <1>3. ASSUME NEW b \in queued PROVE Answers(p, b, order, Order)
    <2>1. PICK q \in Refused(tried) : b \in AddOrderToQueue(q, order)
      OBVIOUS
    <2>2. KeepsStream(p, q, Order)
      BY <1>1, <2>1 DEF Refused, Answers
    <2> QED
      BY <1>2, <2>1, <2>2
  <1>4. ASSUME NEW b \in again PROVE Answers(p, b, order, Order)
    <2>1. PICK r \in Refused(queued) : \E q \in Send(r) : b \in AddOrderToQueue(q, order)
      OBVIOUS
    <2>2. PICK q \in Send(r) : b \in AddOrderToQueue(q, order)
      BY <2>1
    <2>3. KeepsStream(p, r, Order)
      BY <1>3, <2>1 DEF Refused, Answers
    <2>4. KeepsStream(p, q, Order)
      BY <2>2, <2>3, SendKeeps, KeepsTwice DEF KeepsStream
    <2> QED
      BY <1>2, <2>2, <2>4
  <1>5. ASSUME NEW q \in held PROVE Extends(p, q, order, Order)
    <2>1. PICK r \in Taken(queued) \union Taken(again) : q \in Send(r)
      OBVIOUS
    <2>2. Extends(p, r, order, Order)
      BY <1>3, <1>4, <2>1 DEF Taken, Answers
    <2>3. KeepsStream(r, q, Order)
      BY <2>1, <2>2, SendKeeps DEF Extends
    <2> QED
      BY <2>2, <2>3 DEF Extends, KeepsStream
  <1>6. a \in [sent : {TRUE}, path : Taken(tried) \union held] \union
              [sent : {FALSE}, path : Refused(again)]
    BY DEF SendOrder
  <1> HIDE DEF tried, queued, again, held
  <1>7. CASE a \in [sent : {TRUE}, path : Taken(tried) \union held]
    <2>1. a.sent = TRUE /\ a.path \in Taken(tried) \union held
      BY <1>7
    <2>2. Extends(p, a.path, order, Order)
      BY <1>1, <1>5, <2>1 DEF Taken, Answers
    <2> QED
      BY <2>1, <2>2 DEF Answers
  <1>8. CASE a \in [sent : {FALSE}, path : Refused(again)]
    <2>1. a.sent = FALSE /\ a.path \in Refused(again)
      BY <1>8
    <2>2. KeepsStream(p, a.path, Order)
      BY <1>4, <2>1 DEF Refused, Answers
    <2> QED
      BY <2>1, <2>2 DEF Answers
  <1> QED
    BY <1>6, <1>7, <1>8
-----------------------------------------------------------------------------
(* Orders are numbered in the order they are taken.                        *)

Numbers(from, count) == [i \in 1..count |-> from + i]

LEMMA NumbersType ==
  ASSUME NEW from \in Nat, NEW count \in Nat, NEW max \in Nat, from + count <= max
  PROVE  Numbers(from, count) \in Seq(1..max) /\ Len(Numbers(from, count)) = count
  <1>1. \A i \in 1..count : from + i \in 1..max
    OBVIOUS
  <1>2. Numbers(from, count) \in [1..count -> 1..max]
    BY <1>1 DEF Numbers
  <1>3. Numbers(from, count) \in Seq(1..max)
    BY <1>2, SeqDef
  <1> QED
    BY <1>2, <1>3, LenProperties

(* One more order at the end.                                              *)
LEMMA NumbersAppend ==
  ASSUME NEW from \in Nat, NEW count \in Nat
  PROVE  Append(Numbers(from, count), from + count + 1) = Numbers(from, count + 1)
  <1> DEFINE max == from + count + 1
             s == Numbers(from, count)
             t == Numbers(from, count + 1)
  <1>1. s \in Seq(1..max) /\ Len(s) = count /\ t \in Seq(1..max) /\ Len(t) = count + 1
    BY NumbersType
  <1>2. max \in 1..max
    OBVIOUS
  <1> HIDE DEF max
  <1>3. /\ Append(s, max) \in Seq(1..max) /\ Len(Append(s, max)) = count + 1
        /\ \A i \in 1..count : Append(s, max)[i] = s[i]
        /\ Append(s, max)[count + 1] = max
    BY <1>1, <1>2, AppendProperties
  <1>4. \A i \in 1..count + 1 : Append(s, max)[i] = t[i]
    <2> TAKE i \in 1..count + 1
    <2>1. CASE i \in 1..count
      BY <1>3, <2>1 DEF Numbers
    <2>2. CASE i = count + 1
      BY <1>3, <2>2 DEF Numbers, max
    <2>3. i \in 1..count \/ i = count + 1
      OBVIOUS
    <2> QED
      BY <2>1, <2>2, <2>3
  <1>5. Append(s, max) = t
    BY <1>1, <1>3, <1>4, SeqEqual
  <1> QED
    BY <1>5 DEF max

(* What the send buffer and the queue hold are the count orders that       *)
(* follow number from.                                                     *)
Numbered(wire, tx, from, count) == wire \o tx = Numbers(from, count)

(* What is left of a sequence without its first n elements.                *)
Rest(s, n) == SubSeq(s, n + 1, Len(s))

(* The first n orders of the send buffer are acknowledged.                 *)
LEMMA NumbersDrop ==
  ASSUME NEW Order, NEW wire \in Seq(Order), NEW tx \in Seq(Order),
         NEW from \in Nat, NEW count \in Nat, Numbered(wire, tx, from, count),
         NEW n \in 1..Len(wire)
  PROVE  /\ n <= count
         /\ Rest(wire, n) \in Seq(Order)
         /\ Len(Rest(wire, n)) <= Len(wire)
         /\ Numbered(Rest(wire, n), tx, from + n, count - n)
  <1> DEFINE rest == Rest(wire, n)
  <1>1. Len(wire) \in Nat /\ Len(tx) \in Nat /\ \A i \in 1..Len(wire) : wire[i] \in Order
    BY LenProperties, ElementOfSeq
  <1>2. /\ rest \in Seq(Order) /\ Len(rest) = Len(wire) - n
        /\ \A i \in 1..Len(wire) - n : rest[i] = wire[n + i]
    <2>1. /\ rest \in Seq(Order) /\ Len(rest) = Len(wire) - (n + 1) + 1
          /\ \A i \in 1..Len(wire) - (n + 1) + 1 : rest[i] = wire[n + 1 + i - 1]
      BY <1>1, SubSeqProperties DEF Rest
    <2> HIDE DEF rest
    <2>2. Len(wire) - (n + 1) + 1 = Len(wire) - n
      BY <1>1
    <2>3. ASSUME NEW i \in 1..Len(wire) - n PROVE rest[i] = wire[n + i]
      <3>1. i \in 1..Len(wire) - (n + 1) + 1 /\ n + 1 + i - 1 = n + i
        BY <1>1
      <3> QED
        BY <2>1, <3>1
    <2> QED
      BY <2>1, <2>2, <2>3
  <1> HIDE DEF rest
  <1>3. wire \o tx = Numbers(from, count)
    BY DEF Numbered
  <1>4. Len(Numbers(from, count)) = count
    <2>1. from + count \in Nat /\ from + count <= from + count
      OBVIOUS
    <2> QED
      BY <2>1, NumbersType
  <1>5. /\ Len(wire \o tx) = Len(wire) + Len(tx)
        /\ \A i \in 1..Len(wire) + Len(tx) :
             (wire \o tx)[i] = IF i <= Len(wire) THEN wire[i] ELSE tx[i - Len(wire)]
    BY ConcatProperties
  <1>6. /\ rest \o tx \in Seq(Order) /\ Len(rest \o tx) = Len(rest) + Len(tx)
        /\ \A i \in 1..Len(rest) + Len(tx) :
             (rest \o tx)[i] = IF i <= Len(rest) THEN rest[i] ELSE tx[i - Len(rest)]
    BY <1>2, ConcatProperties
  <1>7. \A i \in 1..count : (wire \o tx)[i] = from + i
    BY <1>3 DEF Numbers
  <1>8. Len(wire) + Len(tx) = count /\ n <= count /\ count - n \in Nat
        /\ Len(rest) + Len(tx) = count - n
    <2>1. Len(wire \o tx) = count
      BY <1>3, <1>4
    <2> QED
      BY <1>1, <1>2, <1>5, <2>1
  <1>9. \A i \in 1..count - n : (rest \o tx)[i] = from + n + i
    <2> TAKE i \in 1..count - n
    <2>1. n + i \in 1..count /\ i \in 1..Len(rest) + Len(tx)
      BY <1>8
    <2>2. CASE i <= Len(rest)
      <3>1. i \in 1..Len(wire) - n /\ n + i <= Len(wire)
        BY <1>1, <1>2, <2>2
      <3>2. (rest \o tx)[i] = wire[n + i]
        BY <1>2, <1>6, <2>1, <2>2, <3>1
      <3>3. (wire \o tx)[n + i] = wire[n + i]
        BY <1>5, <1>8, <2>1, <3>1
      <3>4. (wire \o tx)[n + i] = from + (n + i)
        BY <1>7, <2>1
      <3>5. from + (n + i) = from + n + i
        BY <2>1
      <3> QED
        BY <3>2, <3>3, <3>4, <3>5
    <2>3. CASE ~(i <= Len(rest))
      <3>1. ~(n + i <= Len(wire)) /\ i - Len(rest) = n + i - Len(wire)
        BY <1>1, <1>2, <2>3
      <3>2. (rest \o tx)[i] = tx[i - Len(rest)]
        BY <1>6, <2>1, <2>3
      <3>3. (wire \o tx)[n + i] = tx[n + i - Len(wire)]
        BY <1>5, <1>8, <2>1, <3>1
      <3>4. (wire \o tx)[n + i] = from + (n + i)
        BY <1>7, <2>1
      <3> QED
        <4>1. (rest \o tx)[i] = from + (n + i)
          BY ONLY <3>1, <3>2, <3>3, <3>4
        <4>2. from + (n + i) = from + n + i
          BY <2>1
        <4> QED
          BY <4>1, <4>2
    <2> QED
      BY <2>2, <2>3
  <1>10. rest \o tx = [i \in 1..count - n |-> from + n + i]
    <2>1. rest \o tx \in [1..Len(rest \o tx) -> Order]
      BY <1>6, LenProperties
    <2>2. Len(rest \o tx) = count - n
      BY <1>6, <1>8
    <2> QED
      BY <1>9, <2>1, <2>2
  <1>11. Len(rest) <= Len(wire)
    BY <1>1, <1>2
  <1>12. rest \o tx = Numbers(from + n, count - n)
    BY <1>10 DEF Numbers
  <1> QED
    BY <1>2, <1>8, <1>11, <1>12 DEF rest, Numbered
=============================================================================
