-------------------------------- MODULE Server --------------------------------
(***************************************************************************)
(* Server.cpp: one ServerSocket waits for the next client, those that have *)
(* one are kept in running_connections, and update(), called from the main *)
(* loop, moves them from the one place to the other, replaces and deletes. *)
(* Between two updates lwIP's callbacks change the objects.                *)
(***************************************************************************)
EXTENDS ServerSocket, FiniteSets, Functions

CONSTANTS
  MAX_CONNECTIONS_TCP_SERVER, \* 10
  MaxOrders                   \* bound: orders taken for one client

ASSUME CapacityAssumption == MAX_CONNECTIONS_TCP_SERVER \in Nat /\ MaxOrders \in Nat

VARIABLES
  status,              \* Server::ServerState
  open_connection,     \* 0 for nullptr
  running_connections, \* the first running_connections_count entries
  sockets              \* the ServerSocket objects, by their address

vars == <<status, open_connection, running_connections, sockets>>

(* The open connection, a full array and one to spare.                     *)
Addresses == 1..(MAX_CONNECTIONS_TCP_SERVER + 2)
Allocated == {a \in Addresses : sockets[a].state # "deleted"}
Running == Range(running_connections)

FirstFree(table) == CHOOSE a \in Addresses :
  /\ table[a].state = "deleted"
  /\ \A b \in 1..(a - 1) : table[b].state # "deleted"

Deletes(gone) == [a \in Addresses |-> IF a \in gone THEN Deleted ELSE sockets[a]]

Init ==
  /\ status = "RUNNING"
  /\ running_connections = <<>>
  /\ open_connection = 1
  /\ \E s \in NewServerSocket : sockets = [a \in Addresses |-> IF a = 1 THEN s ELSE Deleted]
-----------------------------------------------------------------------------
(* update(): what becomes of the open connection.                          *)
HasClient == open_connection # 0 /\ IsConnected(sockets[open_connection])
Waits == open_connection # 0 /\ IsListening(sockets[open_connection])

Adopts == HasClient /\ Len(running_connections) < MAX_CONNECTIONS_TCP_SERVER

(* Defect: a client too many is forgotten, not deleted.                    *)
RejectedIfBroken == IF open_connection # 0 /\ ~Waits /\ ~HasClient THEN {open_connection} ELSE {}

(* Defect: an object that lost its client is kept as if it were listening. *)
NotInUse == open_connection # 0 /\ ~HasClient
Keeps == Waits

(* Neither waiting nor adopted: broken, or one client too many.            *)
Rejected == IF open_connection # 0 /\ ~Waits /\ ~Adopts THEN {open_connection} ELSE {}

(* Defect: with a full array the newest client takes the oldest one's place. *)
Replaced ==
  IF ~HasClient THEN running_connections
  ELSE IF Adopts THEN Append(running_connections, open_connection)
  ELSE Append(Tail(running_connections), open_connection)

Adopted == IF Adopts THEN Append(running_connections, open_connection) ELSE running_connections

IsRunning(a) == IsConnected(sockets[a])
Ended == {a \in Range(Adopted) : ~IsRunning(a)}

(* What is left of the array: the entries that are connected, moved up.    *)
StillRunning == {i \in DOMAIN Adopted : IsRunning(Adopted[i])}
Compacted ==
  { [i \in DOMAIN from |-> Adopted[from[i]]] :
      from \in {f \in [1..Cardinality(StillRunning) -> StillRunning] :
                 /\ Range(f) = StillRunning
                 /\ \A i, j \in DOMAIN f : i < j => f[i] < f[j]} }

CloseAll ==
  /\ sockets' = Deletes(Running \union {open_connection})
  /\ running_connections' = <<>>
  /\ open_connection' = 0
  /\ status' = "CLOSED"

(* In CLOSING, what has just been rearranged is closed, so the end is the  *)
(* same.                                                                   *)
update ==
  \/ status = "CLOSING" /\ CloseAll
  \/ /\ status = "RUNNING"
     /\ LET left == Deletes(Rejected \union Ended)
            address == FirstFree(Deletes(Rejected))
        IN IF Keeps THEN open_connection' = open_connection /\ sockets' = left
           ELSE /\ open_connection' = address
                /\ \E s \in NewServerSocket : sockets' = [left EXCEPT ![address] = s]
     /\ running_connections' \in Compacted
     /\ UNCHANGED status

(* The objects after send_order() has been called for those in asked.      *)
AfterOrder(a) == {r.socket : r \in OrderSent(sockets[a])}

Asked(asked) ==
  \E after \in [asked -> UNION {AfterOrder(a) : a \in asked}] :
    /\ \A a \in asked : after[a] \in AfterOrder(a)
    /\ sockets' = [a \in Addresses |-> IF a \in asked THEN after[a] ELSE sockets[a]]

HasRoom(asked) == \A a \in asked : sockets[a].accepted < MaxOrders

(* The loop asks every connection, whatever the others have answered.      *)
broadcast_order ==
  /\ Running # {} /\ HasRoom(Running)
  /\ Asked(Running)
  /\ UNCHANGED <<status, open_connection, running_connections>>

(* Every ServerSocket is also reachable through OrderProtocol::sockets.    *)
send_order(a) ==
  /\ a \in Allocated /\ HasRoom({a})
  /\ Asked({a})
  /\ UNCHANGED <<status, open_connection, running_connections>>

close_all == CloseAll

(* status is a public member; CLOSING asks the next update to close.       *)
RequestClosing ==
  /\ status = "RUNNING"
  /\ status' = "CLOSING"
  /\ UNCHANGED <<open_connection, running_connections, sockets>>
-----------------------------------------------------------------------------
(* lwIP's callbacks for the object at address a.                           *)
Becomes(a, s) ==
  /\ sockets' = [sockets EXCEPT ![a] = s]
  /\ UNCHANGED <<status, open_connection, running_connections>>

HasPcb(a) == sockets[a].client # "none"

accept_callback(a) == IsListening(sockets[a]) /\ Becomes(a, Accepted(sockets[a]))
receive_callback(a) == sockets[a].client = "ESTABLISHED" /\ Becomes(a, Finished(sockets[a]))
error_callback(a) == HasPcb(a) /\ Becomes(a, Lost(sockets[a]))
poll_callback(a) == HasPcb(a) /\ \E s \in Polled(sockets[a]) : Becomes(a, s)

send_callback(a) ==
  /\ HasPcb(a)
  /\ \E n \in 1..Len(sockets[a].wire) : \E s \in Acknowledged(sockets[a], n) : Becomes(a, s)

Next ==
  \/ update
  \/ broadcast_order
  \/ close_all
  \/ RequestClosing
  \/ \E a \in Addresses :
       \/ send_order(a)
       \/ accept_callback(a)
       \/ receive_callback(a)
       \/ error_callback(a)
       \/ poll_callback(a)
       \/ send_callback(a)

Spec == Init /\ [][Next]_vars

(* The main loop updates the servers, now and then a new listener finds a  *)
(* control block, and lwIP polls the connected ones.                       *)
Fairness ==
  /\ WF_vars(update)
  /\ SF_vars(update /\ ~Waits /\ Waits')
  /\ \A a \in Addresses : WF_vars(poll_callback(a))

FairSpec == Spec /\ Fairness
-----------------------------------------------------------------------------
TypeOK ==
  /\ status \in {"RUNNING", "CLOSING", "CLOSED"}
  /\ open_connection \in {0} \union Addresses
  /\ running_connections \in Seq(Addresses)
  /\ Len(running_connections) <= MAX_CONNECTIONS_TCP_SERVER
  /\ DOMAIN sockets = Addresses
  /\ \A a \in Addresses : TypedSocket(sockets[a], MaxOrders)

(* Every object is owned once, by open_connection or by one entry of       *)
(* running_connections, which hold no deleted one: update() neither leaks  *)
(* nor deletes twice, and a closed server has nothing left.                *)
SocketsAreOwned ==
  /\ Allocated = Running \union ({open_connection} \ {0})
  /\ open_connection \notin Running
  /\ \A i, j \in DOMAIN running_connections :
       running_connections[i] = running_connections[j] => i = j
  /\ status = "CLOSED" => Allocated = {}

(* The server's state is in range and it owns what it allocated.           *)
ServerIsConsistent == TypeOK /\ SocketsAreOwned

(* What send_order took for a client has arrived, is in its send buffer or *)
(* waits, in the order of the calls, for broadcasts and single orders      *)
(* alike; a new client gets nothing that was meant for another.            *)
OrdersKeepTheirOrder ==
  \A a \in Addresses :
    LET s == sockets[a] IN
    s.client # "none" =>
      s.wire \o s.tx = [i \in 1..(s.accepted - s.received) |-> s.received + i]

(* "close the new connection and keep current sessions untouched"          *)
(* (Server.cpp:58): unless the server closes, a session stays in the array *)
(* for as long as its client is connected, and sessions keep their order.  *)
SessionsAreUntouched ==
  [][status' # "CLOSED" =>
       \A i, j \in DOMAIN running_connections :
         i <= j /\ IsRunning(running_connections[i]) /\ IsRunning(running_connections[j]) =>
           \E k, l \in DOMAIN running_connections' :
             /\ k <= l
             /\ running_connections'[k] = running_connections[i]
             /\ running_connections'[l] = running_connections[j]]_vars

(* A running server listens again, whatever became of the object that did. *)
ListensAgain == status = "RUNNING" ~> Waits \/ status # "RUNNING"
=============================================================================
