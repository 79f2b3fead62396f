------------------------------ MODULE ServerProofs ------------------------------
(***************************************************************************)
(* The safety of the TCP server, for every capacity of its array and of    *)
(* the queues and every number of orders.                                  *)
(*                                                                         *)
(* What is inductive speaks of one object at a time, and of who owns it:   *)
(* an object with no client is as blank as it was made, so that a client   *)
(* that is accepted begins with nothing that was meant for another.        *)
(***************************************************************************)
EXTENDS Server, TcpSendProofs, FiniteSetTheorems, WellFoundedInduction

Order == 1..MaxOrders

(* The stream of an object's client is its orders, one after the other.    *)
InStep(s) == Numbered(s.wire, s.tx, s.received, s.accepted - s.received)

ObjectOK(s) ==
  /\ TypedSocket(s, MaxOrders)
  /\ s.client = "none" => s = Blank(s.state) /\ s.state \notin {"ACCEPTED", "CLOSING"}
  /\ s.client # "none" => s.state \in {"ACCEPTED", "CLOSING"} /\ InStep(s)

ServerInv ==
  /\ TypeOK
  /\ SocketsAreOwned
  /\ \A a \in Addresses : ObjectOK(sockets[a])
-----------------------------------------------------------------------------
(* One object.                                                             *)

Made(state, client, tx, wire, accepted, received) ==
  [state |-> state, client |-> client, tx |-> tx, wire |-> wire,
   accepted |-> accepted, received |-> received]

LEMMA NoOrders == Numbered(<<>>, <<>>, 0, 0)
  <1>1. <<>> \o <<>> = <<>>
    OBVIOUS
  <1>2. Numbers(0, 0) = <<>>
    BY DEF Numbers
  <1> QED
    BY <1>1, <1>2 DEF Numbered

LEMMA BlankIsSound ==
  ASSUME NEW st \in {"INACTIVE", "LISTENING", "CLOSED", "deleted"}
  PROVE  ObjectOK(Blank(st)) /\ Blank(st).state = st /\ Blank(st).client = "none"
  <1>1. <<>> \in Seq(Order) /\ Len(<<>>) = 0
    OBVIOUS
  <1>2. Blank(st) \in Objects(MaxOrders)
    BY <1>1, CapacityAssumption DEF Blank, Objects, Order
  <1> QED
    BY <1>1, <1>2, QueueAssumption DEF Blank, ObjectOK, TypedSocket

LEMMA ObjectParts ==
  ASSUME NEW s, ObjectOK(s)
  PROVE  /\ s.tx \in Seq(Order) /\ s.wire \in Seq(Order)
         /\ s.accepted \in 0..MaxOrders /\ s.received \in 0..s.accepted
         /\ s.accepted - s.received \in Nat /\ s.accepted \in Nat /\ s.received \in Nat
         /\ InBounds(Transmitter(s), Order)
         /\ Transmitter(s).open = CanSend(s)
         /\ Stream(Transmitter(s)) = s.wire \o s.tx
         /\ s = Made(s.state, s.client, s.tx, s.wire, s.accepted, s.received)
  <1>1. /\ s.tx \in Seq(Order) /\ s.wire \in Seq(Order)
        /\ s.accepted \in 0..MaxOrders /\ s.received \in 0..MaxOrders /\ s.received <= s.accepted
        /\ Len(s.tx) <= MAX_TX_QUEUE_DEPTH /\ Len(s.wire) <= TCP_SND_BUF
    BY DEF ObjectOK, TypedSocket, Objects, Order
  <1>2. s.accepted \in 0..MaxOrders /\ s.received \in 0..s.accepted
        /\ s.accepted - s.received \in Nat /\ s.accepted \in Nat /\ s.received \in Nat
    BY <1>1, CapacityAssumption
  <1>3. CanSend(s) \in BOOLEAN
    BY DEF CanSend
  <1>4. InBounds(Transmitter(s), Order) /\ Transmitter(s).open = CanSend(s)
        /\ Stream(Transmitter(s)) = s.wire \o s.tx
    BY <1>1, <1>3 DEF Transmitter, InBounds, Path, Stream
  <1>5. s = Made(s.state, s.client, s.tx, s.wire, s.accepted, s.received)
    BY DEF ObjectOK, TypedSocket, Objects, Made
  <1> QED
    BY <1>1, <1>2, <1>4, <1>5

(* An object with a client, as a handler may leave it.                     *)
LEMMA MadeIsSound ==
  ASSUME NEW st \in {"ACCEPTED", "CLOSING"}, NEW cl \in {"ESTABLISHED", "CLOSE_WAIT"},
         NEW path, InBounds(path, Order),
         NEW accepted \in 0..MaxOrders, NEW received \in 0..accepted,
         Stream(path) = Numbers(received, accepted - received)
  PROVE  /\ ObjectOK(Made(st, cl, path.tx, path.wire, accepted, received))
         /\ Made(st, cl, path.tx, path.wire, accepted, received).state = st
  <1> DEFINE t == Made(st, cl, path.tx, path.wire, accepted, received)
  <1>1. /\ path.tx \in Seq(Order) /\ path.wire \in Seq(Order)
        /\ Len(path.tx) <= MAX_TX_QUEUE_DEPTH /\ Len(path.wire) <= TCP_SND_BUF
    BY DEF InBounds, Path
  <1>2. /\ t.state = st /\ t.client = cl /\ t.tx = path.tx /\ t.wire = path.wire
        /\ t.accepted = accepted /\ t.received = received
    BY DEF Made
  <1>3. accepted \in Nat /\ received \in 0..MaxOrders /\ received <= accepted
    BY CapacityAssumption
  <1>4. t \in Objects(MaxOrders)
    BY <1>1, <1>3 DEF Made, Objects, Order
  <1> HIDE DEF t
  <1>5. TypedSocket(t, MaxOrders)
    BY <1>1, <1>2, <1>3, <1>4 DEF TypedSocket
  <1>6. InStep(t)
    BY <1>2 DEF InStep, Numbered, Stream
  <1>7. ObjectOK(t) /\ t.state = st
    BY <1>2, <1>5, <1>6 DEF ObjectOK
  <1> QED
    BY <1>7 DEF t

(* The object after the transmit path has done this to it.                 *)
LEMMA SentIsMade ==
  ASSUME NEW s, ObjectOK(s), s.client # "none", NEW path, InBounds(path, Order)
  PROVE  /\ \E st \in {"ACCEPTED", "CLOSING"} :
              Sent(s, path) = Made(st, s.client, path.tx, path.wire, s.accepted, s.received)
         /\ s.client \in {"ESTABLISHED", "CLOSE_WAIT"}
  <1>1. s \in Objects(MaxOrders) /\ s.state \in {"ACCEPTED", "CLOSING"}
    BY DEF ObjectOK, TypedSocket
  <1>2. PICK st \in {"ACCEPTED", "CLOSING"} :
          st = IF CanSend(s) /\ ~path.open THEN "CLOSING" ELSE s.state
    BY <1>1
  <1>3. Sent(s, path) = [s EXCEPT !.tx = path.tx, !.wire = path.wire, !.state = st]
    BY <1>1, <1>2 DEF Sent, Objects
  <1>4. Sent(s, path) = Made(st, s.client, path.tx, path.wire, s.accepted, s.received)
    BY <1>1, <1>3 DEF Made, Objects
  <1> QED
    BY <1>1, <1>4 DEF Objects
-----------------------------------------------------------------------------
(* Each handler of an object leaves a sound one, that is not deleted.      *)
Sound(t) == ObjectOK(t) /\ t.state # "deleted"

LEMMA AcceptIsSound ==
  ASSUME NEW s, ObjectOK(s), IsListening(s)
  PROVE  Sound(Accepted(s))
  <1> DEFINE p == [open |-> TRUE, tx |-> <<>>, wire |-> <<>>]
  <1>1. s = Blank("LISTENING")
    BY DEF ObjectOK, IsListening
  <1>2. Accepted(s) = Made("ACCEPTED", "ESTABLISHED", p.tx, p.wire, 0, 0)
    <2>1. p.tx = <<>> /\ p.wire = <<>>
      OBVIOUS
    <2>2. Accepted(s) = Made("ACCEPTED", "ESTABLISHED", <<>>, <<>>, 0, 0)
      <3>1. [s EXCEPT !.state = "ACCEPTED"] = Made("ACCEPTED", "none", <<>>, <<>>, 0, 0)
        BY <1>1 DEF Blank, Made
      <3>2. [Made("ACCEPTED", "none", <<>>, <<>>, 0, 0) EXCEPT !.client = "ESTABLISHED"]
              = Made("ACCEPTED", "ESTABLISHED", <<>>, <<>>, 0, 0)
        BY DEF Made
      <3> QED
        BY <3>1, <3>2 DEF Accepted
    <2> HIDE DEF p
    <2> QED
      BY <2>1, <2>2
  <1>3. <<>> \in Seq(Order) /\ Len(<<>>) = 0
    OBVIOUS
  <1>4. InBounds(p, Order)
    BY <1>3, QueueAssumption DEF InBounds, Path
  <1>5. Stream(p) = Numbers(0, 0 - 0)
    BY NoOrders DEF Stream, Numbered
  <1>6. 0 \in 0..MaxOrders /\ 0 \in 0..0
    BY CapacityAssumption
  <1> HIDE DEF p
  <1>7. /\ ObjectOK(Made("ACCEPTED", "ESTABLISHED", p.tx, p.wire, 0, 0))
        /\ Made("ACCEPTED", "ESTABLISHED", p.tx, p.wire, 0, 0).state = "ACCEPTED"
    BY <1>4, <1>5, <1>6, MadeIsSound
  <1> QED
    BY <1>2, <1>7 DEF Sound

LEMMA BlankIsSoundToo ==
  ASSUME NEW s
  PROVE  Sound(Closed(s)) /\ Sound(Lost(s)) /\ \A t \in NewServerSocket : Sound(t)
  BY BlankIsSound DEF Sound, Closed, Lost, NewServerSocket

(* An object keeps its stream when only its state and its client change.   *)
LEMMA FinishIsSound ==
  ASSUME NEW s, ObjectOK(s), s.client = "ESTABLISHED"
  PROVE  Sound(Finished(s))
  <1> DEFINE p == Transmitter(s)
  <1>1. p.tx = s.tx /\ p.wire = s.wire
    BY DEF Transmitter
  <1>2. s \in Objects(MaxOrders)
    BY DEF ObjectOK, TypedSocket
  <1>3. Finished(s) = Made("CLOSING", "CLOSE_WAIT", p.tx, p.wire, s.accepted, s.received)
    <2>1. Finished(s) = Made("CLOSING", "CLOSE_WAIT", s.tx, s.wire, s.accepted, s.received)
      <3>1. [s EXCEPT !.state = "CLOSING"]
              = Made("CLOSING", s.client, s.tx, s.wire, s.accepted, s.received)
        BY <1>2 DEF Made, Objects
      <3>2. [Made("CLOSING", s.client, s.tx, s.wire, s.accepted, s.received) EXCEPT !.client = "CLOSE_WAIT"]
              = Made("CLOSING", "CLOSE_WAIT", s.tx, s.wire, s.accepted, s.received)
        BY DEF Made
      <3> QED
        BY <3>1, <3>2 DEF Finished
    <2> HIDE DEF p
    <2> QED
      BY <1>1, <2>1
  <1>4. /\ InBounds(p, Order) /\ s.accepted \in 0..MaxOrders /\ s.received \in 0..s.accepted
        /\ Stream(p) = s.wire \o s.tx
    BY ObjectParts
  <1>5. Stream(p) = Numbers(s.received, s.accepted - s.received)
    BY <1>4 DEF ObjectOK, InStep, Numbered
  <1> HIDE DEF p
  <1>6. /\ ObjectOK(Made("CLOSING", "CLOSE_WAIT", p.tx, p.wire, s.accepted, s.received))
        /\ Made("CLOSING", "CLOSE_WAIT", p.tx, p.wire, s.accepted, s.received).state = "CLOSING"
    BY <1>4, <1>5, MadeIsSound
  <1> QED
    BY <1>3, <1>6 DEF Sound

(* send(), wherever it stops.                                              *)
LEMMA SentIsSound ==
  ASSUME NEW s, ObjectOK(s), s.client # "none", NEW path \in Send(Transmitter(s))
  PROVE  Sound(Sent(s, path))
  <1>1. /\ InBounds(Transmitter(s), Order) /\ s.accepted \in 0..MaxOrders /\ s.received \in 0..s.accepted
        /\ Stream(Transmitter(s)) = s.wire \o s.tx
    BY ObjectParts
  <1>2. KeepsStream(Transmitter(s), path, Order)
    BY <1>1, SendKeeps
  <1>3. InBounds(path, Order) /\ Stream(path) = Numbers(s.received, s.accepted - s.received)
    BY <1>1, <1>2 DEF KeepsStream, ObjectOK, InStep, Numbered
  <1>4. PICK st \in {"ACCEPTED", "CLOSING"} :
          Sent(s, path) = Made(st, s.client, path.tx, path.wire, s.accepted, s.received)
    BY <1>3, SentIsMade
  <1>5. s.client \in {"ESTABLISHED", "CLOSE_WAIT"}
    BY <1>3, SentIsMade
  <1>6. /\ ObjectOK(Made(st, s.client, path.tx, path.wire, s.accepted, s.received))
        /\ Made(st, s.client, path.tx, path.wire, s.accepted, s.received).state = st
    BY <1>1, <1>3, <1>5, MadeIsSound
  <1> QED
    BY <1>4, <1>6 DEF Sound

LEMMA PollIsSound ==
  ASSUME NEW s, ObjectOK(s), s.client # "none", NEW t \in Polled(s)
  PROVE  Sound(t)
  BY SentIsSound, BlankIsSoundToo DEF Polled

(* The client's acknowledgement takes orders from the front of the stream. *)
LEMMA AcknowledgementIsSound ==
  ASSUME NEW s, ObjectOK(s), s.client # "none", NEW n \in 1..Len(s.wire), NEW t \in Acknowledged(s, n)
  PROVE  Sound(t)
  <1> DEFINE rest == Rest(s.wire, n)
             count == s.accepted - s.received
             p == [open |-> TRUE, tx |-> s.tx, wire |-> rest]
             u == Made(s.state, s.client, s.tx, rest, s.accepted, s.received + n)
  <1>1. /\ s.tx \in Seq(Order) /\ s.wire \in Seq(Order)
        /\ s.accepted \in 0..MaxOrders /\ s.received \in Nat /\ s.accepted \in Nat /\ count \in Nat
        /\ InBounds(Transmitter(s), Order)
    BY ObjectParts
  <1>2. Numbered(s.wire, s.tx, s.received, count)
    BY DEF ObjectOK, InStep
  <1>3. /\ n <= count /\ rest \in Seq(Order) /\ Len(rest) <= Len(s.wire)
        /\ Numbered(rest, s.tx, s.received + n, count - n)
    <2> HIDE DEF count
    <2> QED
      BY <1>1, <1>2, NumbersDrop
  <1>4. n \in Nat /\ s.received + n \in 0..s.accepted /\ s.accepted - (s.received + n) = count - n
    BY <1>1, <1>3
  <1>5. InBounds(p, Order)
    <2>1. Len(s.wire) <= TCP_SND_BUF /\ Len(s.tx) <= MAX_TX_QUEUE_DEPTH
      BY DEF ObjectOK, TypedSocket
    <2>2. Len(s.wire) \in Nat /\ Len(rest) \in Nat
      BY <1>1, <1>3, LenProperties
    <2> HIDE DEF rest
    <2>3. p \in Path(Order) /\ p.tx = s.tx /\ p.wire = rest
      BY <1>1, <1>3 DEF Path
    <2> HIDE DEF p
    <2> QED
      BY <1>3, <2>1, <2>2, <2>3, QueueAssumption DEF InBounds
  <1>6. Stream(p) = Numbers(s.received + n, s.accepted - (s.received + n))
    BY <1>3, <1>4 DEF Stream, Numbered
  <1>7. s.state \in {"ACCEPTED", "CLOSING"} /\ s.client \in {"ESTABLISHED", "CLOSE_WAIT"}
        /\ s \in Objects(MaxOrders)
    BY DEF ObjectOK, TypedSocket, Objects
  <1>8. u = [s EXCEPT !.wire = SubSeq(@, n + 1, Len(@)), !.received = @ + n]
    <2>1. SubSeq(s.wire, n + 1, Len(s.wire)) = rest
      BY DEF Rest
    <2> HIDE DEF rest
    <2>2. [s EXCEPT !.wire = rest, !.received = s.received + n] = u
      <3>1. PICK x : x = s.received + n
        OBVIOUS
      <3>2. [s EXCEPT !.wire = rest, !.received = x] = Made(s.state, s.client, s.tx, rest, s.accepted, x)
        <4>1. [s EXCEPT !.wire = rest] = Made(s.state, s.client, s.tx, rest, s.accepted, s.received)
          BY <1>7 DEF Made, Objects
        <4>2. [Made(s.state, s.client, s.tx, rest, s.accepted, s.received) EXCEPT !.received = x]
                = Made(s.state, s.client, s.tx, rest, s.accepted, x)
          BY DEF Made
        <4> QED
          BY <4>1, <4>2
      <3> QED
        BY <3>1, <3>2
    <2> HIDE DEF u
    <2> QED
      BY <1>7, <2>1, <2>2 DEF Objects
  <1>9. Sound(u) /\ u.tx = s.tx /\ u.state = s.state /\ u.client = s.client
    <2>1. p.tx = s.tx /\ p.wire = rest
      OBVIOUS
    <2> HIDE DEF rest, count, p
    <2>2. /\ ObjectOK(Made(s.state, s.client, p.tx, p.wire, s.accepted, s.received + n))
          /\ Made(s.state, s.client, p.tx, p.wire, s.accepted, s.received + n).state = s.state
      BY <1>1, <1>4, <1>5, <1>6, <1>7, MadeIsSound
    <2> QED
      BY <1>7, <2>1, <2>2 DEF Sound, Made
  <1> HIDE DEF u
  <1>10. t \in (IF u.tx = <<>> THEN {IF u.state = "CLOSING" THEN Closed(u) ELSE u}
                ELSE {Sent(u, path) : path \in Send(Transmitter(u))})
    BY <1>8 DEF Acknowledged
  <1>11. CASE u.tx = <<>>
    BY <1>9, <1>10, <1>11, BlankIsSoundToo
  <1>12. CASE u.tx # <<>>
    BY <1>9, <1>10, <1>12, SentIsSound DEF Sound
  <1> QED
    BY <1>11, <1>12

(* send_order() puts the order behind all that were taken, or nowhere.     *)
LEMMA OrderIsSound ==
  ASSUME NEW s, ObjectOK(s), s.state # "deleted", s.accepted < MaxOrders, NEW r \in OrderSent(s)
  PROVE  Sound(r.socket)
  <1>1. /\ s.accepted \in 0..MaxOrders /\ s.received \in 0..s.accepted
        /\ s.accepted - s.received \in Nat /\ s.accepted \in Nat /\ s.received \in Nat
        /\ InBounds(Transmitter(s), Order) /\ Stream(Transmitter(s)) = s.wire \o s.tx
    BY ObjectParts
  <1>2. s \in Objects(MaxOrders)
    BY DEF ObjectOK, TypedSocket
  <1>3. CASE CanSend(s)
    <2>1. PICK a \in SendOrder(Transmitter(s), s.accepted + 1) :
            r.socket = [Sent(s, a.path) EXCEPT !.accepted = IF a.sent THEN @ + 1 ELSE @]
      <3>1. PICK a \in SendOrder(Transmitter(s), s.accepted + 1) :
              r = [sent |-> a.sent,
                   socket |-> [Sent(s, a.path) EXCEPT !.accepted = IF a.sent THEN @ + 1 ELSE @]]
        BY <1>3 DEF OrderSent
      <3> QED
        BY <3>1
    <2>2. s.accepted + 1 \in Order /\ s.accepted + 1 \in 0..MaxOrders
      BY <1>1, CapacityAssumption DEF Order
    <2>3. Answers(Transmitter(s), a, s.accepted + 1, Order)
      BY <1>1, <2>1, <2>2, SendOrderAnswers
    <2>4. InBounds(a.path, Order) /\ a.sent \in BOOLEAN
      BY <2>3 DEF Answers, Extends, KeepsStream
    <2>5. s.client # "none" /\ s.client \in {"ESTABLISHED", "CLOSE_WAIT"}
      BY <1>2, <1>3 DEF CanSend, Objects
    <2>6. PICK st \in {"ACCEPTED", "CLOSING"} :
            Sent(s, a.path) = Made(st, s.client, a.path.tx, a.path.wire, s.accepted, s.received)
      BY <2>4, <2>5, SentIsMade
    <2>7. Stream(Transmitter(s)) = Numbers(s.received, s.accepted - s.received)
      BY <1>1, <2>5 DEF ObjectOK, InStep, Numbered
    <2>8. CASE a.sent
      <3>1. r.socket = Made(st, s.client, a.path.tx, a.path.wire, s.accepted + 1, s.received)
        BY <2>1, <2>6, <2>8 DEF Made
      <3>2. Stream(a.path) = Append(Numbers(s.received, s.accepted - s.received), s.accepted + 1)
        BY <2>3, <2>7, <2>8 DEF Answers, Extends
      <3>3. /\ s.received + (s.accepted - s.received) + 1 = s.accepted + 1
            /\ (s.accepted - s.received) + 1 = (s.accepted + 1) - s.received
            /\ s.received \in 0..(s.accepted + 1)
        BY <1>1
      <3>4. Append(Numbers(s.received, s.accepted - s.received), s.received + (s.accepted - s.received) + 1)
              = Numbers(s.received, (s.accepted - s.received) + 1)
        BY <1>1, NumbersAppend
      <3>5. Stream(a.path) = Numbers(s.received, (s.accepted + 1) - s.received)
        BY <3>2, <3>3, <3>4
      <3>6. /\ ObjectOK(Made(st, s.client, a.path.tx, a.path.wire, s.accepted + 1, s.received))
            /\ Made(st, s.client, a.path.tx, a.path.wire, s.accepted + 1, s.received).state = st
        BY <2>2, <2>4, <2>5, <3>3, <3>5, MadeIsSound
      <3> QED
        BY <3>1, <3>6 DEF Sound
    <2>9. CASE ~a.sent
      <3>1. r.socket = Made(st, s.client, a.path.tx, a.path.wire, s.accepted, s.received)
        BY <2>1, <2>6, <2>9 DEF Made
      <3>2. Stream(a.path) = Numbers(s.received, s.accepted - s.received)
        BY <2>3, <2>7, <2>9 DEF Answers, KeepsStream
      <3>3. /\ ObjectOK(Made(st, s.client, a.path.tx, a.path.wire, s.accepted, s.received))
            /\ Made(st, s.client, a.path.tx, a.path.wire, s.accepted, s.received).state = st
        BY <1>1, <2>4, <2>5, <3>2, MadeIsSound
      <3> QED
        BY <3>1, <3>3 DEF Sound
    <2> QED
      BY <2>4, <2>8, <2>9
  <1>4. CASE ~CanSend(s)
    <2>1. r.socket = [Sent(s, Transmitter(s)) EXCEPT !.accepted = s.accepted]
      <3>1. r.socket = [Sent(s, Transmitter(s)) EXCEPT !.accepted = @]
        BY <1>4 DEF OrderSent
      <3>2. Sent(s, Transmitter(s)).accepted = s.accepted
        BY <1>2, <1>4 DEF Sent, Objects
      <3> QED
        BY <3>1, <3>2
    <2>2. Sent(s, Transmitter(s)) = s
      BY <1>2, <1>4 DEF Sent, Transmitter, Objects
    <2>3. r.socket = s
      BY <1>2, <2>1, <2>2 DEF Objects
    <2> QED
      BY <2>3 DEF Sound
  <1> QED
    BY <1>3, <1>4
-----------------------------------------------------------------------------
(* The objects together.                                                   *)

LEMMA InitIsSound == Init => ServerInv
  <1> SUFFICES ASSUME Init PROVE ServerInv
    OBVIOUS
  <1>1. PICK s \in NewServerSocket : sockets = [a \in Addresses |-> IF a = 1 THEN s ELSE Deleted]
    BY DEF Init
  <1>2. Sound(s)
    BY BlankIsSoundToo
  <1>3. ObjectOK(Deleted) /\ Deleted.state = "deleted"
    BY BlankIsSound DEF Deleted
  <1>4. \A a \in Addresses : ObjectOK(sockets[a])
    BY <1>1, <1>2, <1>3 DEF Sound
  <1>5. 1 \in Addresses
    BY CapacityAssumption DEF Addresses
  <1>6. Allocated = {1}
    BY <1>1, <1>2, <1>3, <1>5 DEF Allocated, Sound
  <1>7. Running = {} /\ Len(running_connections) = 0 /\ DOMAIN running_connections = {}
        /\ running_connections \in Seq(Addresses)
    BY DEF Init, Running, Range
  <1>8. TypeOK
    BY <1>1, <1>4, <1>5, <1>7, CapacityAssumption DEF Init, TypeOK, ObjectOK
  <1>9. SocketsAreOwned
    BY <1>6, <1>7 DEF Init, SocketsAreOwned
  <1> QED
    BY <1>4, <1>8, <1>9 DEF ServerInv

(* What only changes objects in use keeps who owns them.                   *)
LEMMA SameOwners ==
  ASSUME ServerInv, DOMAIN sockets' = Addresses, \A a \in Addresses : ObjectOK(sockets'[a]),
         Allocated' = Allocated, UNCHANGED <<open_connection, running_connections>>,
         status' = status \/ status' = "CLOSING"
  PROVE  ServerInv'
  <1>1. TypeOK'
    BY DEF ServerInv, TypeOK, ObjectOK, Addresses
  <1>2. Running' = Running
    BY DEF Running, Range
  <1>3. SocketsAreOwned'
    BY <1>2 DEF ServerInv, SocketsAreOwned
  <1>4. (\A a \in Addresses : ObjectOK(sockets[a]))'
    BY DEF Addresses
  <1> QED
    BY <1>1, <1>3, <1>4 DEF ServerInv

LEMMA BecomesKeeps ==
  ASSUME ServerInv, NEW a \in Addresses, sockets[a].state # "deleted", NEW t, Sound(t), Becomes(a, t)
  PROVE  ServerInv'
  <1>1. DOMAIN sockets = Addresses /\ \A b \in Addresses : ObjectOK(sockets[b])
    BY DEF ServerInv, TypeOK
  <1>2. DOMAIN sockets' = Addresses /\ sockets'[a] = t
        /\ \A b \in Addresses : b # a => sockets'[b] = sockets[b]
    BY <1>1 DEF Becomes
  <1>3. \A b \in Addresses : ObjectOK(sockets'[b])
    BY <1>1, <1>2 DEF Sound
  <1>4. Allocated' = Allocated
    BY <1>2 DEF Allocated, Sound, Addresses
  <1> QED
    BY <1>2, <1>3, <1>4, SameOwners DEF Becomes

(* An object with a client is not deleted.                                 *)
LEMMA ClientsAreAllocated ==
  ASSUME ServerInv, NEW a \in Addresses, HasPcb(a)
  PROVE  ObjectOK(sockets[a]) /\ sockets[a].client # "none" /\ sockets[a].state # "deleted"
  BY DEF ServerInv, HasPcb, ObjectOK

LEMMA CallbacksKeep ==
  ASSUME ServerInv, NEW a \in Addresses,
         \/ accept_callback(a)
         \/ receive_callback(a)
         \/ error_callback(a)
         \/ poll_callback(a)
         \/ send_callback(a)
  PROVE  ServerInv'
  <1>1. ObjectOK(sockets[a])
    BY DEF ServerInv
  <1>2. CASE accept_callback(a)
    <2>1. IsListening(sockets[a]) /\ Becomes(a, Accepted(sockets[a])) /\ sockets[a].state # "deleted"
      BY <1>2 DEF accept_callback, IsListening
    <2> QED
      BY <1>1, <2>1, AcceptIsSound, BecomesKeeps
  <1>3. CASE receive_callback(a)
    <2>1. sockets[a].client = "ESTABLISHED" /\ Becomes(a, Finished(sockets[a])) /\ HasPcb(a)
      BY <1>3 DEF receive_callback, HasPcb
    <2> QED
      BY <1>1, <2>1, FinishIsSound, ClientsAreAllocated, BecomesKeeps
  <1>4. CASE error_callback(a)
    <2>1. HasPcb(a) /\ Becomes(a, Lost(sockets[a]))
      BY <1>4 DEF error_callback
    <2> QED
      BY <2>1, BlankIsSoundToo, ClientsAreAllocated, BecomesKeeps
  <1>5. CASE poll_callback(a)
    <2>1. PICK s \in Polled(sockets[a]) : HasPcb(a) /\ Becomes(a, s)
      BY <1>5 DEF poll_callback
    <2> QED
      BY <1>1, <2>1, PollIsSound, ClientsAreAllocated, BecomesKeeps
  <1>6. CASE send_callback(a)
    <2>1. HasPcb(a)
      BY <1>6 DEF send_callback
    <2>2. PICK n \in 1..Len(sockets[a].wire) : \E s \in Acknowledged(sockets[a], n) : Becomes(a, s)
      BY <1>6 DEF send_callback
    <2>3. PICK s \in Acknowledged(sockets[a], n) : Becomes(a, s)
      BY <2>2
    <2> QED
      BY <1>1, <2>1, <2>3, AcknowledgementIsSound, ClientsAreAllocated, BecomesKeeps
  <1> QED
    BY <1>2, <1>3, <1>4, <1>5, <1>6

LEMMA AskedKeeps ==
  ASSUME ServerInv, NEW asked \in SUBSET Allocated, HasRoom(asked), Asked(asked),
         UNCHANGED <<status, open_connection, running_connections>>
  PROVE  ServerInv'
  <1>1. PICK after \in [asked -> UNION {AfterOrder(a) : a \in asked}] :
          /\ \A a \in asked : after[a] \in AfterOrder(a)
          /\ sockets' = [a \in Addresses |-> IF a \in asked THEN after[a] ELSE sockets[a]]
    BY DEF Asked
  <1>2. \A a \in Addresses : ObjectOK(sockets[a])
    BY DEF ServerInv
  <1>3. ASSUME NEW a \in asked PROVE Sound(after[a]) /\ sockets[a].state # "deleted"
    <2>1. a \in Addresses /\ sockets[a].state # "deleted" /\ sockets[a].accepted < MaxOrders
      BY <1>3 DEF Allocated, HasRoom
    <2>2. PICK r \in OrderSent(sockets[a]) : after[a] = r.socket
      BY <1>1, <1>3 DEF AfterOrder
    <2> QED
      BY <1>2, <2>1, <2>2, OrderIsSound
  <1>4. DOMAIN sockets' = Addresses /\ \A a \in Addresses : ObjectOK(sockets'[a])
    BY <1>1, <1>2, <1>3 DEF Sound
  <1>5. Allocated' = Allocated
    BY <1>1, <1>3 DEF Allocated, Sound, Addresses
  <1> QED
    BY <1>4, <1>5, SameOwners

LEMMA OrdersKeep ==
  ASSUME ServerInv, broadcast_order \/ \E a \in Addresses : send_order(a)
  PROVE  ServerInv'
  <1>1. CASE broadcast_order
    <2>1. Running \subseteq Allocated
      BY DEF ServerInv, SocketsAreOwned
    <2> QED
      BY <1>1, <2>1, AskedKeeps DEF broadcast_order
  <1>2. CASE \E a \in Addresses : send_order(a)
    <2>1. PICK a \in Addresses : send_order(a)
      BY <1>2
    <2>2. {a} \in SUBSET Allocated /\ HasRoom({a}) /\ Asked({a})
          /\ UNCHANGED <<status, open_connection, running_connections>>
      BY <2>1 DEF send_order
    <2> QED
      BY <2>2, AskedKeeps
  <1> QED
    BY <1>1, <1>2

LEMMA ClosingKeeps ==
  ASSUME ServerInv, RequestClosing
  PROVE  ServerInv'
  <1>1. Allocated' = Allocated
    BY DEF RequestClosing, Allocated, Addresses
  <1> QED
    BY <1>1, SameOwners DEF RequestClosing, ServerInv, TypeOK

(* A deleted object is sound, wherever it lies.                            *)
LEMMA DeletesKeeps ==
  ASSUME ServerInv, NEW gone
  PROVE  /\ DOMAIN Deletes(gone) = Addresses
         /\ \A a \in Addresses : ObjectOK(Deletes(gone)[a])
         /\ \A a \in Addresses :
              Deletes(gone)[a].state # "deleted" <=> a \in Allocated \ gone
  <1>1. ObjectOK(Deleted) /\ Deleted.state = "deleted"
    BY BlankIsSound DEF Deleted
  <1> QED
    BY <1>1 DEF ServerInv, Deletes, Allocated

LEMMA CloseAllKeeps ==
  ASSUME ServerInv, CloseAll
  PROVE  ServerInv'
  <1>1. /\ DOMAIN sockets' = Addresses
        /\ \A a \in Addresses : ObjectOK(sockets'[a])
        /\ \A a \in Addresses : sockets'[a].state # "deleted" <=>
             a \in Allocated \ (Running \union {open_connection})
    BY DeletesKeeps DEF CloseAll
  <1>2. Allocated' = {}
    BY <1>1 DEF ServerInv, SocketsAreOwned, Allocated, Addresses
  <1>3. Running' = {} /\ Len(running_connections') = 0 /\ DOMAIN running_connections' = {}
        /\ running_connections' \in Seq(Addresses) /\ open_connection' = 0 /\ status' = "CLOSED"
    BY DEF CloseAll, Running, Range
  <1>4. TypeOK'
    BY <1>1, <1>3, CapacityAssumption DEF TypeOK, ObjectOK, Addresses
  <1>5. SocketsAreOwned'
    BY <1>2, <1>3 DEF SocketsAreOwned
  <1>6. (\A a \in Addresses : ObjectOK(sockets[a]))'
    BY <1>1 DEF Addresses
  <1> QED
    BY <1>4, <1>5, <1>6 DEF ServerInv
-----------------------------------------------------------------------------
(* There is always room for the new listener.                              *)

LEMMA LeastAddress ==
  ASSUME NEW S, S \subseteq Nat, S # {}
  PROVE  \E m \in S : \A j \in S : m <= j
  <1>1. PICK m \in S : \A j \in S : <<j, m>> \notin OpToRel(<, Nat)
    BY NatLessThanWellFounded, WFMin
  <1>2. ASSUME NEW j \in S, j < m PROVE FALSE
    <2>1. <<j, m>> \in Nat \X Nat
      OBVIOUS
    <2>2. <<j, m>> \in OpToRel(<, Nat)
      BY <1>2, <2>1 DEF OpToRel
    <2> QED
      BY <1>1, <2>2
  <1>3. \A j \in S : m <= j
    BY <1>2
  <1> QED
    BY <1>3

LEMMA FirstFreeIsFree ==
  ASSUME NEW table, NEW free \in Addresses, table[free].state = "deleted"
  PROVE  FirstFree(table) \in Addresses /\ table[FirstFree(table)].state = "deleted"
  <1> DEFINE S == {a \in Addresses : table[a].state = "deleted"}
  <1>1. S \subseteq Nat /\ S # {} /\ S \subseteq Addresses /\ \A a \in S : table[a].state = "deleted"
    BY DEF Addresses
  <1>2. \E m \in S : \A j \in S : m <= j
    <2> HIDE DEF S
    <2> QED
      BY <1>1, LeastAddress
  <1>3. PICK m \in S : \A j \in S : m <= j
    BY <1>2
  <1>4. \A b \in 1..(m - 1) : table[b].state # "deleted"
    <2> SUFFICES ASSUME NEW b \in 1..(m - 1), table[b].state = "deleted" PROVE FALSE
      OBVIOUS
    <2>1. b \in Nat /\ m \in Nat /\ b < m /\ 1 <= b /\ m <= MAX_CONNECTIONS_TCP_SERVER + 2
      BY CapacityAssumption DEF Addresses
    <2>2. b \in S
      BY <2>1, CapacityAssumption DEF Addresses
    <2> HIDE DEF S
    <2> QED
      BY <1>1, <1>3, <2>1, <2>2
  <1> QED
    BY <1>1, <1>3, <1>4 DEF FirstFree

(* The open connection and a full array leave one address free.            *)
LEMMA OneIsSpare ==
  ASSUME ServerInv
  PROVE  \E a \in Addresses : a \notin Running \union {open_connection}
  <1> DEFINE n == Len(running_connections)
  <1>1. /\ running_connections \in Seq(Addresses) /\ n \in Nat /\ n <= MAX_CONNECTIONS_TCP_SERVER
        /\ DOMAIN running_connections = 1..n /\ running_connections \in [1..n -> Addresses]
    BY DEF ServerInv, TypeOK
  <1>2. IsFiniteSet(1..n) /\ Cardinality(1..n) = n
    BY <1>1, FS_Interval
  <1>3. running_connections \in Surjection(1..n, Running)
    BY <1>1 DEF Surjection, Running, Range
  <1>4. IsFiniteSet(Running) /\ Cardinality(Running) <= n
    BY <1>2, <1>3, FS_Surjection
  <1>5. /\ IsFiniteSet(Running \union {open_connection})
        /\ Cardinality(Running \union {open_connection}) <= n + 1
        /\ Cardinality(Running \union {open_connection}) \in Nat
    <2>1. Cardinality(Running) \in Nat
      BY <1>4, FS_CardinalityType
    <2> HIDE DEF n
    <2>2. /\ IsFiniteSet(Running \union {open_connection})
          /\ \/ Cardinality(Running \union {open_connection}) = Cardinality(Running)
             \/ Cardinality(Running \union {open_connection}) = Cardinality(Running) + 1
      BY <1>4, FS_AddElement
    <2> QED
      BY <1>1, <1>4, <2>1, <2>2
  <1>6. IsFiniteSet(Addresses) /\ Cardinality(Addresses) = MAX_CONNECTIONS_TCP_SERVER + 2
    <2>1. MAX_CONNECTIONS_TCP_SERVER + 2 \in Int /\ 1 \in Int /\ ~(1 > MAX_CONNECTIONS_TCP_SERVER + 2)
          /\ (MAX_CONNECTIONS_TCP_SERVER + 2) - 1 + 1 = MAX_CONNECTIONS_TCP_SERVER + 2
      BY CapacityAssumption
    <2> QED
      BY <2>1, FS_Interval DEF Addresses
  <1>7. SUFFICES ASSUME Addresses \subseteq Running \union {open_connection} PROVE FALSE
    OBVIOUS
  <1>8. Cardinality(Addresses) <= Cardinality(Running \union {open_connection})
    BY <1>5, <1>7, FS_Subset
  <1> HIDE DEF n
  <1> QED
    BY <1>1, <1>5, <1>6, <1>8, CapacityAssumption
-----------------------------------------------------------------------------
(* update(): the array before it is compacted, and after.                  *)

LEMMA AdoptedIsFit ==
  ASSUME ServerInv
  PROVE  /\ Adopted \in Seq(Addresses)
         /\ Len(Adopted) <= MAX_CONNECTIONS_TCP_SERVER
         /\ Range(Adopted) = Running \union (IF Adopts THEN {open_connection} ELSE {})
         /\ \A i, j \in DOMAIN Adopted : Adopted[i] = Adopted[j] => i = j
         /\ DOMAIN running_connections \subseteq DOMAIN Adopted
         /\ \A i \in DOMAIN running_connections : Adopted[i] = running_connections[i]
  <1>1. /\ running_connections \in Seq(Addresses)
        /\ Len(running_connections) <= MAX_CONNECTIONS_TCP_SERVER
        /\ Len(running_connections) \in Nat
        /\ DOMAIN running_connections = 1..Len(running_connections)
        /\ open_connection \in {0} \union Addresses /\ open_connection \notin Running
        /\ \A i, j \in DOMAIN running_connections :
             running_connections[i] = running_connections[j] => i = j
    BY DEF ServerInv, TypeOK, SocketsAreOwned
  <1>2. CASE Adopts
    <2> DEFINE n == Len(running_connections)
    <2>1. open_connection \in Addresses /\ n < MAX_CONNECTIONS_TCP_SERVER
      BY <1>1, <1>2 DEF Adopts, HasClient
    <2>2. Adopted = Append(running_connections, open_connection)
      BY <1>2 DEF Adopted
    <2>3. /\ Adopted \in Seq(Addresses) /\ Len(Adopted) = n + 1 /\ DOMAIN Adopted = 1..(n + 1)
          /\ \A i \in 1..n : Adopted[i] = running_connections[i]
          /\ Adopted[n + 1] = open_connection
      BY <1>1, <2>1, <2>2
    <2> HIDE DEF n
    <2>4. n \in Nat /\ DOMAIN running_connections = 1..n /\ DOMAIN Adopted = 1..n \union {n + 1}
      BY <1>1, <2>3 DEF n
    <2>5. Range(Adopted) = Running \union {open_connection}
      BY <2>3, <2>4 DEF Range, Running
    <2>6. \A i \in 1..n : Adopted[i] # open_connection
      BY <1>1, <2>3, <2>4 DEF Range, Running
    <2>7. \A i, j \in DOMAIN Adopted : Adopted[i] = Adopted[j] => i = j
      BY <1>1, <2>3, <2>4, <2>6
    <2>8. Len(Adopted) <= MAX_CONNECTIONS_TCP_SERVER
      BY <2>1, <2>3, <2>4, CapacityAssumption DEF n
    <2> QED
      BY <1>2, <2>3, <2>4, <2>5, <2>7, <2>8
  <1>3. CASE ~Adopts
    BY <1>1, <1>3 DEF Adopted, Running
  <1> QED
    BY <1>2, <1>3

LEMMA CompactedIsFit ==
  ASSUME ServerInv, NEW s \in Compacted
  PROVE  /\ s \in Seq(Addresses)
         /\ Len(s) <= MAX_CONNECTIONS_TCP_SERVER
         /\ Range(s) = {a \in Range(Adopted) : IsRunning(a)}
         /\ \A i, j \in DOMAIN s : s[i] = s[j] => i = j
         /\ \A i, j \in StillRunning : i <= j =>
              \E k, l \in DOMAIN s : k <= l /\ s[k] = Adopted[i] /\ s[l] = Adopted[j]
  <1> DEFINE n == Cardinality(StillRunning)
  <1>1. /\ Adopted \in Seq(Addresses) /\ Len(Adopted) <= MAX_CONNECTIONS_TCP_SERVER
        /\ Len(Adopted) \in Nat /\ DOMAIN Adopted = 1..Len(Adopted)
        /\ \A i \in DOMAIN Adopted : Adopted[i] \in Addresses
        /\ \A i, j \in DOMAIN Adopted : Adopted[i] = Adopted[j] => i = j
    BY AdoptedIsFit
  <1>2. StillRunning \subseteq DOMAIN Adopted
    BY DEF StillRunning
  <1>3. n \in Nat /\ n <= Len(Adopted)
    <2>1. IsFiniteSet(1..Len(Adopted)) /\ Cardinality(1..Len(Adopted)) = Len(Adopted)
      <3>1. PICK m \in Nat : m = Len(Adopted)
        BY <1>1
      <3>2. IsFiniteSet(1..m) /\ Cardinality(1..m) = m
        BY FS_Interval
      <3> QED
        BY <3>1, <3>2
    <2>2. StillRunning \in SUBSET (1..Len(Adopted))
      BY <1>1, <1>2
    <2>3. IsFiniteSet(StillRunning) /\ Cardinality(StillRunning) <= Len(Adopted)
      BY <2>1, <2>2, FS_Subset
    <2> QED
      BY <2>3, FS_CardinalityType
  <1>4. PICK from \in [1..n -> StillRunning] :
          /\ Range(from) = StillRunning
          /\ \A i, j \in DOMAIN from : i < j => from[i] < from[j]
          /\ s = [i \in DOMAIN from |-> Adopted[from[i]]]
    BY DEF Compacted
  <1> HIDE DEF n
  <1>5. /\ DOMAIN from = 1..n /\ DOMAIN s = 1..n /\ \A i \in 1..n : s[i] = Adopted[from[i]]
        /\ \A i \in 1..n : from[i] \in DOMAIN Adopted /\ from[i] \in Int
    BY <1>1, <1>2, <1>4
  <1>6. s \in [1..n -> Addresses]
    BY <1>1, <1>4, <1>5
  <1>7. s \in Seq(Addresses) /\ Len(s) = n
    BY <1>3, <1>6
  <1>8. Len(s) <= MAX_CONNECTIONS_TCP_SERVER
    BY <1>1, <1>3, <1>7, CapacityAssumption
  <1>9. \A i \in StillRunning : \E k \in 1..n : from[k] = i
    BY <1>4, <1>5 DEF Range
  <1>10. Range(s) = {a \in Range(Adopted) : IsRunning(a)}
    <2>1. ASSUME NEW a \in Range(s) PROVE a \in Range(Adopted) /\ IsRunning(a)
      <3>1. PICK k \in 1..n : a = Adopted[from[k]]
        BY <1>5, <2>1 DEF Range
      <3>2. from[k] \in StillRunning
        BY <1>4
      <3> QED
        BY <3>1, <3>2 DEF StillRunning, Range
    <2>2. ASSUME NEW a \in Range(Adopted), IsRunning(a) PROVE a \in Range(s)
      <3>1. PICK i \in DOMAIN Adopted : a = Adopted[i]
        BY DEF Range
      <3>2. i \in StillRunning
        BY <2>2, <3>1 DEF StillRunning
      <3>3. PICK k \in 1..n : from[k] = i
        BY <1>9, <3>2
      <3> QED
        BY <1>5, <3>1, <3>3 DEF Range
    <2> QED
      BY <2>1, <2>2
  <1>11. ASSUME NEW i \in 1..n, NEW j \in 1..n, s[i] = s[j] PROVE i = j
    <2>1. from[i] = from[j]
      BY <1>1, <1>5, <1>11
    <2>2. i \in Int /\ j \in Int
      OBVIOUS
    <2> QED
      BY <1>4, <1>5, <2>1, <2>2
  <1>12. ASSUME NEW i \in StillRunning, NEW j \in StillRunning, i <= j
         PROVE  \E k, l \in DOMAIN s : k <= l /\ s[k] = Adopted[i] /\ s[l] = Adopted[j]
    <2>1. PICK k \in 1..n : from[k] = i
      BY <1>9
    <2>2. PICK l \in 1..n : from[l] = j
      BY <1>9
    <2>3. ~(l < k)
      BY <1>4, <1>5, <1>12, <2>1, <2>2
    <2> QED
      BY <1>5, <2>1, <2>2, <2>3
  <1> QED
    BY <1>5, <1>7, <1>8, <1>10, <1>11, <1>12
-----------------------------------------------------------------------------
(* update() while the server runs: what it deletes is what nobody owns any *)
(* more, whether it listens on or makes a new listener.                    *)

LEMMA WaitingKeepsTheArray ==
  ASSUME Waits
  PROVE  ~Adopts /\ Rejected = {}
  BY DEF Waits, Adopts, HasClient, Rejected, IsListening, IsConnected

(* Without a listener, what is in use and not rejected is in the array.    *)
LEMMA NothingIsForgotten ==
  ASSUME ServerInv, ~Waits
  PROVE  Allocated \ Rejected = Range(Adopted)
  <1>1. Range(Adopted) = Running \union (IF Adopts THEN {open_connection} ELSE {})
    BY AdoptedIsFit
  <1>2. Allocated = Running \union ({open_connection} \ {0}) /\ open_connection \notin Running
    BY DEF ServerInv, SocketsAreOwned
  <1>3. CASE Adopts
    BY <1>1, <1>2, <1>3 DEF Rejected, Adopts, HasClient
  <1>4. CASE ~Adopts
    BY <1>1, <1>2, <1>4 DEF Rejected
  <1> QED
    BY <1>3, <1>4

LEMMA UpdateKeeps ==
  ASSUME ServerInv, update
  PROVE  ServerInv'
  <1>1. CASE CloseAll
    BY <1>1, CloseAllKeeps
  <1>2. CASE ~CloseAll
    <2> DEFINE left == Deletes(Rejected \union Ended)
               address == FirstFree(Deletes(Rejected))
    <2>1. /\ status = "RUNNING" /\ status' = status /\ running_connections' \in Compacted
          /\ IF Waits THEN open_connection' = open_connection /\ sockets' = left
             ELSE /\ open_connection' = address
                  /\ \E s \in NewServerSocket : sockets' = [left EXCEPT ![address] = s]
      BY <1>2 DEF update, Keeps
    <2>2. /\ running_connections' \in Seq(Addresses)
          /\ Len(running_connections') <= MAX_CONNECTIONS_TCP_SERVER
          /\ Range(running_connections') = {a \in Range(Adopted) : IsRunning(a)}
          /\ \A i, j \in DOMAIN running_connections' :
               running_connections'[i] = running_connections'[j] => i = j
      BY <2>1, CompactedIsFit
    <2>3. Running' = {a \in Range(Adopted) : IsRunning(a)}
      BY <2>2 DEF Running, Range
    <2>4. Running' = Range(Adopted) \ Ended
      BY <2>3 DEF Ended
    <2>5. /\ DOMAIN left = Addresses
          /\ \A a \in Addresses : ObjectOK(left[a])
          /\ \A a \in Addresses : left[a].state # "deleted" <=> a \in Allocated \ (Rejected \union Ended)
      BY DeletesKeeps
    <2>6. Allocated \subseteq Addresses /\ open_connection \in {0} \union Addresses
          /\ open_connection \notin Running /\ Allocated = Running \union ({open_connection} \ {0})
      BY DEF Allocated, ServerInv, TypeOK, SocketsAreOwned
    <2>7. SUFFICES /\ DOMAIN sockets' = Addresses /\ \A a \in Addresses : ObjectOK(sockets'[a])
                   /\ Allocated' = Running' \union ({open_connection'} \ {0})
                   /\ open_connection' \notin Running' /\ open_connection' \in {0} \union Addresses
      <3>1. ASSUME DOMAIN sockets' = Addresses, \A a \in Addresses : ObjectOK(sockets'[a]),
                   Allocated' = Running' \union ({open_connection'} \ {0}),
                   open_connection' \notin Running', open_connection' \in {0} \union Addresses
            PROVE  ServerInv'
        <4>1. TypeOK'
          BY <2>1, <2>2, <3>1 DEF TypeOK, ObjectOK, Addresses
        <4>2. SocketsAreOwned'
          BY <2>1, <2>2, <3>1 DEF SocketsAreOwned
        <4>3. (\A a \in Addresses : ObjectOK(sockets[a]))'
          BY <3>1 DEF Addresses
        <4> QED
          BY <4>1, <4>2, <4>3 DEF ServerInv
      <3> QED
        BY <3>1
    <2>8. CASE Waits
      <3>1. open_connection' = open_connection /\ sockets' = left /\ Rejected = {} /\ ~Adopts
        BY <2>1, <2>8, WaitingKeepsTheArray
      <3>2. Range(Adopted) = Running /\ open_connection \in Addresses
        BY <2>6, <2>8, <3>1, AdoptedIsFit DEF Waits
      <3>3. Allocated' = Allocated \ Ended
        BY <2>5, <2>6, <3>1 DEF Allocated, Addresses
      <3>4. Ended \subseteq Running
        BY <3>2 DEF Ended
      <3>5. 0 \notin Addresses
        BY CapacityAssumption DEF Addresses
      <3> HIDE DEF left
      <3> QED
        BY <2>4, <2>5, <2>6, <3>1, <3>2, <3>3, <3>4, <3>5
    <2>9. CASE ~Waits
      <3>1. PICK s \in NewServerSocket :
              open_connection' = address /\ sockets' = [left EXCEPT ![address] = s]
        BY <2>1, <2>9
      <3>2. Sound(s)
        BY BlankIsSoundToo
      <3>3. Allocated \ Rejected = Range(Adopted)
        BY <2>9, NothingIsForgotten
      <3>4. address \in Addresses /\ address \notin Range(Adopted)
        <4>1. PICK a \in Addresses : a \notin Running \union {open_connection}
          BY OneIsSpare
        <4>2. /\ Deletes(Rejected)[a].state = "deleted"
              /\ \A b \in Addresses : Deletes(Rejected)[b].state # "deleted" <=> b \in Allocated \ Rejected
          BY <2>6, <4>1, DeletesKeeps
        <4>3. address \in Addresses /\ Deletes(Rejected)[address].state = "deleted"
          BY <4>1, <4>2, FirstFreeIsFree
        <4> HIDE DEF address
        <4> QED
          BY <3>3, <4>2, <4>3
      <3> HIDE DEF left, address
      <3>5. /\ DOMAIN sockets' = Addresses /\ sockets'[address] = s
            /\ \A a \in Addresses : a # address => sockets'[a] = left[a]
        BY <2>5, <3>1, <3>4
      <3>6. \A a \in Addresses : ObjectOK(sockets'[a])
        BY <2>5, <3>2, <3>5 DEF Sound
      <3>7. Allocated' = (Range(Adopted) \ Ended) \union {address}
        <4>1. Allocated' = {a \in Addresses : sockets'[a].state # "deleted"}
          BY DEF Allocated, Addresses
        <4>2. \A a \in Addresses : a # address => (sockets'[a].state # "deleted" <=> a \in Range(Adopted) \ Ended)
          BY <2>5, <3>3, <3>5
        <4>3. sockets'[address].state # "deleted" /\ Range(Adopted) \subseteq Addresses
          BY <2>6, <3>2, <3>3, <3>5 DEF Sound
        <4> QED
          BY <3>4, <4>1, <4>2, <4>3
      <3>8. address # 0
        BY <3>4, CapacityAssumption DEF Addresses
      <3> QED
        BY <2>4, <3>1, <3>4, <3>5, <3>6, <3>7, <3>8
    <2> QED
      BY <2>8, <2>9
  <1> QED
    BY <1>1, <1>2

LEMMA NextKeeps ==
  ASSUME ServerInv, [Next]_vars
  PROVE  ServerInv'
  <1>1. CASE update
    BY <1>1, UpdateKeeps
  <1>2. CASE broadcast_order \/ \E a \in Addresses : send_order(a)
    BY <1>2, OrdersKeep
  <1>3. CASE close_all
    BY <1>3, CloseAllKeeps DEF close_all
  <1>4. CASE RequestClosing
    BY <1>4, ClosingKeeps
  <1>5. ASSUME NEW a \in Addresses,
               \/ accept_callback(a)
               \/ receive_callback(a)
               \/ error_callback(a)
               \/ poll_callback(a)
               \/ send_callback(a)
        PROVE  ServerInv'
    BY <1>5, CallbacksKeep
  <1>6. CASE UNCHANGED vars
    <2>1. Allocated' = Allocated
      BY <1>6 DEF vars, Allocated, Addresses
    <2> QED
      BY <1>6, <2>1, SameOwners DEF vars, ServerInv, TypeOK
  <1> QED
    BY <1>1, <1>2, <1>3, <1>4, <1>5, <1>6 DEF Next

LEMMA ServerIsSound == Spec => []ServerInv
  <1>1. Init => ServerInv
    BY InitIsSound
  <1>2. ServerInv /\ [Next]_vars => ServerInv'
    BY NextKeeps
  <1> QED
    BY <1>1, <1>2, PTL DEF Spec

(* update() (Server.cpp:45) gives every object exactly one owner: it never *)
(* leaks one, never deletes one twice, and never keeps a deleted one.      *)
THEOREM ServerOwnsItsSockets == Spec => []ServerIsConsistent
  <1>1. ServerInv => ServerIsConsistent
    BY DEF ServerInv, ServerIsConsistent
  <1> QED
    BY <1>1, ServerIsSound, PTL

(* The orders taken by broadcast_order() and send_order() for one client   *)
(* (ServerSocket.cpp:181) reach it in the order of the calls, with none    *)
(* missing between two and none of another client's.                       *)
THEOREM EveryClientKeepsItsOrder == Spec => []OrdersKeepTheirOrder
  <1>1. ServerInv => OrdersKeepTheirOrder
    BY DEF ServerInv, ObjectOK, InStep, Numbered, Numbers, OrdersKeepTheirOrder
  <1> QED
    BY <1>1, ServerIsSound, PTL

(* Of two sessions that both go on, the one stays before the other.        *)
LEMMA UpdateLeavesSessions ==
  ASSUME ServerInv, [Next]_vars, status' # "CLOSED",
         NEW i \in DOMAIN running_connections, NEW j \in DOMAIN running_connections,
         i <= j, IsRunning(running_connections[i]), IsRunning(running_connections[j])
  PROVE  \E k, l \in DOMAIN running_connections' :
           /\ k <= l
           /\ running_connections'[k] = running_connections[i]
           /\ running_connections'[l] = running_connections[j]
  <1>1. CASE running_connections' \in Compacted
    <2>1. /\ i \in DOMAIN Adopted /\ j \in DOMAIN Adopted
          /\ Adopted[i] = running_connections[i] /\ Adopted[j] = running_connections[j]
      BY AdoptedIsFit
    <2>2. i \in StillRunning /\ j \in StillRunning
      BY <2>1 DEF StillRunning
    <2>3. \E k, l \in DOMAIN running_connections' :
            k <= l /\ running_connections'[k] = Adopted[i] /\ running_connections'[l] = Adopted[j]
      BY <1>1, <2>2, CompactedIsFit
    <2> QED
      BY <2>1, <2>3
  <1>2. CASE running_connections' = running_connections
    BY <1>2
  <1>3. running_connections' \in Compacted \/ running_connections' = running_connections
    BY DEF Next, vars, update, CloseAll, close_all, broadcast_order, send_order, RequestClosing, Becomes,
           accept_callback, receive_callback, error_callback, poll_callback, send_callback
  <1> QED
    BY <1>1, <1>2, <1>3

(* "close the new connection and keep current sessions untouched"          *)
(* (Server.cpp:58), for every capacity: only the end of its client takes a *)
(* session out of the array of a server that does not close.               *)
THEOREM SessionsStay == Spec => SessionsAreUntouched
  <1>1. ServerInv /\ [Next]_vars =>
          (status' # "CLOSED" =>
             \A i, j \in DOMAIN running_connections :
               i <= j /\ IsRunning(running_connections[i]) /\ IsRunning(running_connections[j]) =>
                 \E k, l \in DOMAIN running_connections' :
                   /\ k <= l
                   /\ running_connections'[k] = running_connections[i]
                   /\ running_connections'[l] = running_connections[j])
    BY UpdateLeavesSessions
  <1> QED
    BY <1>1, ServerIsSound, PTL DEF Spec, SessionsAreUntouched
=============================================================================
