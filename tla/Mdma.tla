--------------------------------- MODULE Mdma ---------------------------------
(* Memory-to-memory transfers (src/Src/HALAL/Models/MDMA/MDMA.cpp, MDMA.hpp)   *)
(* and the packets made of them (src/Inc/HALAL/Models/Packets/MdmaPacket.hpp). *)
(* The main loop hands lists of nodes to channels, each ends in an interrupt;  *)
(* the word of free channels is read and written by both, so the main loop's   *)
(* "take a channel" is two steps.  An address is a number, 0 is null.         *)
EXTENDS Naturals, Sequences, FiniteSetsExt, SequencesExt

CONSTANTS
    MdmaChannels,              \* how many, from 0 on (8 in the code)
    TRANSFER_QUEUE_MAX_SIZE,   \* what the stack holds (50)
    Values,                    \* packet |-> its values: <<address, bytes>>
    Buffer,                    \* packet |-> where its own buffer is
    Sent, Received,            \* the packets a board builds, and those it parses
    External,                  \* buffers a caller may name
    Raw                        \* a caller's own copy: [src, dst, size]

VARIABLES
    channel,      \* id |-> state, done, node, whether it moves data
    freeMap,      \* instance_free_map, as a set
    stack,        \* transfer_queue: [first, done]
    nodes,        \* node |-> its addresses, size, successor and settings
    loop,         \* where the main loop is in update or transfer_data
    blocked,      \* the caller that waits inside build or parse
    done,         \* caller |-> its flag
    caller,       \* caller |-> what it asked and what the last one moved
    failed,       \* history: callers whose transfer failed or was refused
    cut           \* history: packets parsed from their own buffer

mdmaVars == <<channel, freeMap, stack, nodes, loop, blocked, done, caller, failed, cut>>

Null   == "null"     \* no caller
NoNode == <<>>
Ids  == 0 .. MdmaChannels - 1
Packets == DOMAIN Values
Callers == Packets \cup {"raw"}

(* Every packet has an id before its values, and is a caller like the others.  *)
ASSUME MdmaAssumption ==
    /\ MdmaChannels \in Nat
    /\ Values \in [Packets -> Seq(Nat \X Nat) \ {<<>>}]
    /\ Sent \cup Received \subseteq Packets
    /\ {"channel", "raw", Null} \cap Packets = {}
    /\ Raw \in [src : Nat, dst : Nat, size : Nat]

-----------------------------------------------------------------------------
(* The tightly coupled memories are behind a bus of their own.                *)
is_tcm(a) == a < 65536 \/ a \in 536870912 .. 537001983

compute_elem_size(src, dst, size) ==
    Max({e \in {1, 2, 4, 8} : /\ size % e = 0 /\ src % e = 0 /\ dst % e = 0
                              /\ is_tcm(src) \/ is_tcm(dst) => e <= 4})

buf_len(size, elem) == LET n == IF size < 128 THEN size ELSE 128
                       IN  IF n < elem THEN elem ELSE (n \div elem) * elem

(* The settings init_node and reconfigure_ctcr write.                         *)
Configured(n) ==
    LET e == compute_elem_size(n.src, n.dst, n.size)
    IN  [n EXCEPT !.elem = e, !.burst = buf_len(n.size, e),
                  !.tcm = {side \in {"src", "dst"} : is_tcm(n[side])}]

Node(src, dst, size, next) ==
    Configured([src |-> src, dst |-> dst, size |-> size, next |-> next,
                elem |-> 1, burst |-> 1, tcm |-> {}])

(* Defect: only the address changes.                                          *)
AddressOnly(n, dst) == [n EXCEPT !.dst = dst]

set_destination(n, dst) == Configured([n EXCEPT !.dst = dst])
set_source(n, src)      == Configured([n EXCEPT !.src = src])

(* MdmaPacket: a list that gathers the values into the buffer, one that        *)
(* scatters them, and a node each for a caller's buffer.                      *)
Parts(p)  == [i \in DOMAIN Values[p] |->
                [at |-> Values[p][i][1], size |-> Values[p][i][2],
                 offset |-> FoldLeft(LAMBDA sum, v : sum + v[2], 0,
                                     SubSeq(Values[p], 1, i - 1))]]
Size(p)   == FoldLeft(LAMBDA sum, v : sum + v[2], 0, Values[p])
Count(p)   == Len(Values[p])

(* The lists a board uses: what is only sent is never parsed.                   *)
NodeNames == (UNION {{<<p, "build", i>> : i \in 0 .. Count(p)} : p \in Sent})
             \cup (UNION {{<<p, "parse", i>> : i \in 0 .. Count(p)} : p \in Received})
             \cup {<<"channel", "raw", i>> : i \in Ids}

Following(n) == IF n[3] \in {0, Count(n[1])} THEN NoNode ELSE [n EXCEPT ![3] = @ + 1]

PacketNode(n) ==
    LET p == n[1]  v == Parts(p)[n[3]]
    IN  CASE n[2] = "build" /\ n[3] = 0 -> Node(Buffer[p], 0, Size(p), NoNode)
          [] n[2] = "parse" /\ n[3] = 0 -> Node(Buffer[p], Buffer[p], Size(p), NoNode)
          [] n[2] = "build" /\ n[3] > 0 -> Node(v.at, Buffer[p] + v.offset, v.size, Following(n))
          [] OTHER                      -> Node(Buffer[p] + v.offset, v.at, v.size, Following(n))

(* inscribe's internal node of a channel: single bytes, no special bus.        *)
BareNode == [src |-> 0, dst |-> 0, size |-> 1, next |-> NoNode, elem |-> 1, burst |-> 1,
             tcm |-> {}]

(* The nodes a channel goes through from one on: the unit follows the links     *)
(* until there is none.  No list has more than its packet's values and one.    *)
NextOf(n) == IF n = NoNode THEN NoNode ELSE nodes[n].next
Walk(n)   == LET At[k \in Nat \ {0}] == IF k = 1 THEN n ELSE NextOf(At[k - 1]) IN At
Reach(n)  == IF n[1] = "channel" THEN 1 ELSE Count(n[1]) + 1
List(n)   == [k \in {j \in 1 .. Reach(n) : Walk(n)[j] # NoNode} |-> Walk(n)[k]]

Moves(list) == [k \in DOMAIN list |-> [src |-> nodes[list[k]].src, dst |-> nodes[list[k]].dst,
                                       size |-> nodes[list[k]].size]]

-----------------------------------------------------------------------------
Idle == [at |-> "idle", id |-> 0, word |-> {}]

MdmaInit ==
    /\ channel = [i \in Ids |-> [state |-> "READY", done |-> Null, node |-> NoNode, moves |-> FALSE]]
    /\ freeMap = Ids
    /\ stack = <<>>
    /\ nodes = [n \in NodeNames |-> IF n[1] = "channel" THEN BareNode ELSE PacketNode(n)]
    /\ loop = Idle
    /\ blocked = Null
    /\ done = [c \in Callers |-> FALSE]
    /\ caller = [c \in Callers |-> [asks |-> <<>>, moved |-> <<>>]]
    /\ failed = {} /\ cut = {}

(* A caller uses a packet again when the last use is over, and has cleared its *)
(* flag by then: build, parse and transfer_data leave that to it.              *)
Ready(c) == loop = Idle /\ blocked = Null /\ caller[c].asks = <<>>

(* transfer_list: a full stack panics and forgets the request.                *)
transfer_list(first, c, asks) ==
    IF Len(stack) >= TRANSFER_QUEUE_MAX_SIZE
    THEN UNCHANGED <<stack, caller>>
    ELSE /\ stack' = Append(stack, [first |-> first, done |-> c])
         /\ caller' = [caller EXCEPT ![c].asks = asks, ![c].moved = <<>>]

Wait(c, blocking) == blocked' = (IF blocking THEN c ELSE Null) /\ UNCHANGED done

Gather(p)  == [i \in DOMAIN Parts(p) |-> [src |-> Parts(p)[i].at, size |-> Parts(p)[i].size,
                                          dst |-> Buffer[p] + Parts(p)[i].offset]]
Scatter(p) == [i \in DOMAIN Parts(p) |-> [dst |-> Parts(p)[i].at, size |-> Parts(p)[i].size,
                                          src |-> Buffer[p] + Parts(p)[i].offset]]
Whole(p, src, dst) == <<[src |-> src, dst |-> dst, size |-> Size(p)]>>

(* A caller's own buffer hangs a node of its own at the end of the list to       *)
(* build, or before the one to parse.  To parse without one cuts that list      *)
(* after its first value, and no later parse mends it.                        *)
set_build_destination(p, to) ==
    LET last == <<p, "build", Count(p)>>  extra == <<p, "build", 0>>
    IN  IF to = 0 THEN [nodes EXCEPT ![last].next = NoNode]
                  ELSE [nodes EXCEPT ![last].next = extra, ![extra] = set_destination(@, to)]

set_parse_source(p, from) ==
    LET first == <<p, "parse", 1>>  extra == <<p, "parse", 0>>
    IN  IF from = 0 THEN [nodes EXCEPT ![first].next = NoNode]
                    ELSE [nodes EXCEPT ![extra] = [set_source(@, from) EXCEPT !.next = first]]

(* build and parse: waiting, or with a flag.  What is asked for is the whole   *)
(* packet, whatever has become of its list.                                    *)
Build(p, to, blocking) ==
    /\ Ready(p)
    /\ nodes' = set_build_destination(p, to)
    /\ transfer_list(<<p, "build", 1>>, p,
                     Gather(p) \o (IF to = 0 THEN <<>> ELSE Whole(p, Buffer[p], to)))
    /\ Wait(p, blocking)
    /\ UNCHANGED <<channel, freeMap, loop, failed, cut>>

Parse(p, from, blocking) ==
    /\ Ready(p)
    /\ nodes' = set_parse_source(p, from)
    /\ transfer_list(IF from = 0 THEN <<p, "parse", 1>> ELSE <<p, "parse", 0>>, p,
                     (IF from = 0 THEN <<>> ELSE Whole(p, from, Buffer[p])) \o Scatter(p))
    /\ cut' = IF from = 0 THEN cut \cup {p} ELSE cut
    /\ Wait(p, blocking)
    /\ UNCHANGED <<channel, freeMap, loop, failed>>

-----------------------------------------------------------------------------
(* update: the stack's top goes to the next channel that is free.  The word of *)
(* free channels is loaded here and stored in Begin.                          *)
Pick ==
    LET free == {i \in freeMap : loop.at = "idle" \/ i > loop.id}
        id   == Min(free)
    IN  /\ loop.at \in {"idle", "next"} /\ stack # <<>> /\ free # {}
        /\ channel' = [channel EXCEPT ![id].done = stack[Len(stack)].done,
                                      ![id].node = stack[Len(stack)].first]
        /\ loop' = [at |-> "list", id |-> id, word |-> freeMap]
        /\ UNCHANGED <<freeMap, stack, nodes, blocked, done, caller, failed, cut>>

(* transfer_data: on the first free channel, or nowhere; every taken channel    *)
(* it passes by clears the caller's flag.                                      *)
transfer_data ==
    LET id   == Min(freeMap)
        node == <<"channel", "raw", id>>
    IN  /\ Ready("raw")
        /\ IF freeMap = {}
           THEN UNCHANGED <<channel, nodes, loop, caller>>
           ELSE /\ channel' = [channel EXCEPT ![id].done = "raw", ![id].node = node]
                /\ nodes' = [nodes EXCEPT ![node].src = Raw.src, ![node].dst = Raw.dst,
                                          ![node].size = Raw.size]
                /\ loop' = [at |-> "data", id |-> id, word |-> freeMap]
                /\ caller' = [caller EXCEPT !["raw"].asks = <<Raw>>, !["raw"].moved = <<>>]
        /\ done' = [done EXCEPT !["raw"] = @ /\ 0 \in freeMap]
        /\ UNCHANGED <<freeMap, stack, blocked, failed, cut>>

(* prepare_transfer: a channel that moves panics; else the word goes back, the  *)
(* registers are written and the request is made, which may be refused.        *)
Begin(ok) ==
    /\ loop.at \in {"list", "data"}
    /\ IF channel[loop.id].state = "BUSY"
       THEN UNCHANGED <<freeMap, channel, failed>>
       ELSE /\ freeMap' = loop.word \ {loop.id}
            /\ channel' = [channel EXCEPT ![loop.id].state = "BUSY", ![loop.id].moves = ok]
            /\ failed' = IF ok THEN failed ELSE failed \cup {channel[loop.id].done}
    /\ loop' = IF loop.at = "data" THEN Idle ELSE [loop EXCEPT !.at = "pop"]
    /\ UNCHANGED <<stack, nodes, blocked, done, caller, cut>>

(* The request leaves the stack, and update tries the channels after this one. *)
Pop ==
    /\ loop.at = "pop"
    /\ stack' = Front(stack)
    /\ loop' = IF stack' # <<>> /\ \E i \in freeMap : i > loop.id
               THEN [at |-> "next", id |-> loop.id, word |-> {}] ELSE Idle
    /\ UNCHANGED <<channel, freeMap, nodes, blocked, done, caller, failed, cut>>

-----------------------------------------------------------------------------
(* TransferCompleteCallback, once the channel has gone through its list.       *)
Complete(id) ==
    /\ channel[id].moves
    /\ channel' = [channel EXCEPT ![id].state = "READY", ![id].node = NoNode, ![id].moves = FALSE]
    /\ freeMap' = freeMap \cup {id}
    /\ IF channel[id].done = Null THEN UNCHANGED <<done, caller>>
       ELSE /\ done' = [done EXCEPT ![channel[id].done] = TRUE]
            /\ caller' = [caller EXCEPT ![channel[id].done].moved = Moves(List(channel[id].node))]
    /\ UNCHANGED <<stack, nodes, loop, blocked, failed, cut>>

(* TransferErrorCallback, which the HAL calls with the channel READY again: the *)
(* channel is not given back and the caller's flag stays down.                 *)
Fail(id) ==
    /\ channel[id].moves
    /\ channel' = [channel EXCEPT ![id].state = "READY", ![id].moves = FALSE]
    /\ IF channel[id].done = Null THEN UNCHANGED <<done, failed>>
       ELSE /\ done' = [done EXCEPT ![channel[id].done] = FALSE]
            /\ failed' = failed \cup {channel[id].done}
    /\ UNCHANGED <<freeMap, stack, nodes, loop, blocked, caller, cut>>

(* The caller finds its flag set, inside build and parse or later.            *)
See(c) ==
    /\ loop = Idle /\ blocked \in {Null, c} /\ done[c] /\ caller[c].asks # <<>>
    /\ blocked' = Null
    /\ done' = [done EXCEPT ![c] = FALSE]
    /\ caller' = [caller EXCEPT ![c] = [asks |-> <<>>, moved |-> <<>>]]
    /\ UNCHANGED <<channel, freeMap, stack, nodes, loop, failed, cut>>

MdmaUpdate == Pick \/ (\E ok \in BOOLEAN : Begin(ok)) \/ Pop
MdmaIrq    == \E id \in Ids : Complete(id) \/ Fail(id)
MdmaNext ==
    \/ \E address \in External \cup {0}, blocking \in BOOLEAN :
          \/ \E p \in Sent : Build(p, address, blocking)
          \/ \E p \in Received : Parse(p, address, blocking)
    \/ transfer_data
    \/ MdmaUpdate \/ MdmaIrq
    \/ \E c \in Callers : See(c)

(* update runs in every turn of the main loop and of a caller that waits; the  *)
(* unit ends what it began; a caller looks at its flag.                       *)
MdmaFairness ==
    /\ WF_mdmaVars(Pick) /\ WF_mdmaVars(\E ok \in BOOLEAN : Begin(ok)) /\ WF_mdmaVars(Pop)
    /\ \A id \in Ids : WF_mdmaVars(Complete(id) \/ Fail(id))
    /\ \A c \in Callers : WF_mdmaVars(See(c))

MdmaSpec == MdmaInit /\ [][MdmaNext]_mdmaVars /\ MdmaFairness

-----------------------------------------------------------------------------
(* A request is in one place until its caller has seen it end: on the stack, in *)
(* a channel that moves it, or reported; unless it failed, and then nowhere.   *)
(* A channel that is free moves nothing and can be given the next request,     *)
(* though update and the interrupts write the same word (prepare_transfer).    *)
Places(c) ==
    Cardinality({k \in DOMAIN stack : stack[k].done = c /\ ~(loop.at = "pop" /\ k = Len(stack))})
    + Cardinality({id \in Ids : channel[id].moves /\ channel[id].done = c})
    + (IF loop.at = "data" /\ c = "raw" THEN 1 ELSE 0)
    + (IF done[c] THEN 1 ELSE 0)

RequestsAreKept ==
    /\ \A c \in Callers :
          Places(c) = IF caller[c].asks = <<>> \/ c \in failed THEN 0 ELSE 1
    /\ \A id \in freeMap : channel[id].state = "READY" /\ ~channel[id].moves

(* When a caller's flag is set, what it asked for has been moved, value by      *)
(* value and in order, unless the packet has ever been parsed from its own     *)
(* buffer; every node is set for the addresses it has by now.                  *)
WhatWasAskedIsMoved ==
    /\ \A c \in Callers \ cut : done[c] => caller[c].moved = caller[c].asks
    /\ \A n \in NodeNames : n[1] # "channel" => nodes[n] = Configured(nodes[n])

(* MDMA and MdmaPacket keep a request until its caller has seen it end or it    *)
(* failed, and a flag that is set means that all of it was moved, except of a  *)
(* packet parsed from its own buffer.                                          *)
MdmaServesItsCallers == RequestsAreKept /\ WhatWasAskedIsMoved

(* "Parse the packet data from non-cached buffer" (MdmaPacket.hpp:215): when    *)
(* the flag is set all of the packet has been parsed.  The code does not keep    *)
(* this (MdmaPacket.hpp:284): TLC refutes it of MCDrivers.                     *)
AllIsMoved == \A c \in Callers : done[c] => caller[c].moved = caller[c].asks

(* build "@return Pointer to the built packet data" (MdmaPacket.hpp:182), and    *)
(* parse: called without a flag they return.  The code does not keep this        *)
(* (MDMA.cpp:237): TLC refutes it of MCDrivers.                                *)
BlockingCallsReturn == \A p \in Packets : blocked = p ~> blocked # p

=============================================================================
