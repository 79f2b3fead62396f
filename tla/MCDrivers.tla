------------------------------- MODULE MCDrivers -------------------------------
(* The drivers share no state: the initial state picks one, the rest stay put.  *)
EXTENDS Mdma, SpiDriver, SdCard, Sntp, StateMachine

CONSTANT Running      \* the drivers to look at
VARIABLE focus

TwoValues == [a |-> <<<<536870914, 2>>, <<603979784, 4>>>>, b |-> <<<<603979778, 2>>, <<536870920, 8>>>>]
Buffers   == [a |-> 805306368, b |-> 805306400]
Outside   == {805306500}
RawCopy   == [src |-> 603980000, dst |-> 805306600, size |-> 3]

TwoPeers  == [spi1 |-> "MASTER", spi2 |-> "SLAVE"]
Frames    == [spi1 |-> 8, spi2 |-> 16]

CardRequests == {[dir |-> "read", start |-> 0, blocks |-> 1], [dir |-> "write", start |-> 1, blocks |-> 3],
                 [dir |-> "read", start |-> 3, blocks |-> 2],
                 [dir |-> "write", start |-> 15, blocks |-> 1]}

(* A master machine with another nested in its middle state; and the runtime of  *)
(* FaultController with an application's machine that has one of its own.      *)
S(id, targets, actions) == [id |-> id, targets |-> targets, actions |-> actions]
MasterAndNested == [master |-> <<S(0, <<1, 2>>, <<"a1", "a2">>), S(2, <<0>>, <<>>), S(1, <<2>>, <<"b">>)>>,
                    nested |-> <<S(0, <<1>>, <<"n1">>), S(1, <<0>>, <<"n2", "long">>)>>]
InMaster        == [nested |-> <<"master", 1>>]
RuntimeAndApp   == [runtime |-> <<S(0, <<>>, <<>>), S(1, <<>>, <<>>)>>,
                    app     |-> <<S(0, <<1>>, <<"idle">>), S(1, <<0>>, <<"run">>)>>,
                    inner   |-> <<S(0, <<1>>, <<"pulse">>), S(1, <<0>>, <<>>)>>]
InRuntime       == [app |-> <<"runtime", 0>>, inner |-> <<"app", 1>>]

Vars == <<mdmaVars, spiVars, sdVars, sntpVars, sm, focus>>

Init ==
    /\ focus \in Running
    /\ MdmaInit /\ SpiInit /\ SdInit /\ SntpInit /\ SmInit
    /\ focus # "spi" => \A s \in DOMAIN spi : spi[s].state = "READY"

Next ==
    /\ UNCHANGED focus
    /\ \/ focus = "mdma" /\ MdmaNext /\ UNCHANGED <<spiVars, sdVars, sntpVars, sm>>
       \/ focus = "spi" /\ SpiNext /\ UNCHANGED <<mdmaVars, sdVars, sntpVars, sm>>
       \/ focus = "sd" /\ SdNext /\ UNCHANGED <<mdmaVars, spiVars, sntpVars, sm>>
       \/ focus = "sntp" /\ SntpNext /\ UNCHANGED <<mdmaVars, spiVars, sdVars, sm>>
       \/ focus = "machine" /\ SmNext /\ UNCHANGED <<mdmaVars, spiVars, sdVars, sntpVars>>

Spec == Init /\ [][Next]_Vars /\ MdmaFairness /\ SpiFairness /\ SdFairness /\ SntpFairness

-----------------------------------------------------------------------------
(* A caller that waits inside build or parse returns, unless its own transfer   *)
(* failed or was refused, or no channel is left (those that failed stay taken,  *)
(* and so do those whose bit was lost between load and store); and a master's   *)
(* SPI transfer is heard of, by its flag or by was_aborted.                    *)
TransfersEnd ==
    /\ \A c \in Packets : blocked = c ~>
          \/ blocked # c
          \/ caller[c].asks = <<>>
          \/ c \in failed
          \/ \A id \in Ids : id \notin freeMap /\ ~channel[id].moves
    /\ \A c \in SpiCallers, s \in {p \in DOMAIN SpiPeers : SpiPeers[p] = "MASTER"} :
          spi[s].by = c /\ c \notin spiCrossed
              ~> spiFlag[c] \/ spi[s].aborted \/ c \in spiCrossed

(* "will stop after REQUEST_MAX requests or RECV_MAX replies from the server"    *)
(* (SNTP.hpp:42): it does stop, whatever is lost, late or repeated, if it is   *)
(* not started anew (which resets the count) and had a slot each time.         *)
SntpStops == pcb ~> ~pcb \/ starved \/ requests = 0

(* What was started on a driver ends: the transfers of MDMA and SPI, and the    *)
(* SNTP client's requests.                                                    *)
DriversFinish == TransfersEnd /\ SntpStops

(* A task runs for a cyclic action exactly while its state is current in a       *)
(* machine that is itself current, with every other action of that state or    *)
(* with none (a lack of slots takes all); no task is left behind; and a machine *)
(* that is current answers its polls.                                         *)
RECURSIVE IsCurrent(_)
IsCurrent(m) == IF m = Root THEN sm.called_start[m]
                ELSE LET up == NestedIn[m] IN IsCurrent(up[1]) /\ sm.current[up[1]] = up[2]

Tasks == {i \in TaskIds : sm.tasks[i] \in Actions}
ActionsFollowTheStates ==
    /\ sm.on = {sm.tasks[i] : i \in Tasks} /\ \A i \in Tasks : sm.id[sm.tasks[i]] = i
    /\ \A m \in Machines, d \in UNION {Range(Declared[n]) : n \in Machines} :
          d \in Range(Declared[m]) =>
             LET own == Range(d.actions) \ sm.removed
             IN  sm.on \cap own # {} => own \subseteq sm.on /\ IsCurrent(m) /\ sm.current[m] = d.id
    /\ sm.called_start[Root] => "not started" \notin sm.panics
=============================================================================
