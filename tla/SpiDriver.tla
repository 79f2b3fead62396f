------------------------------- MODULE SpiDriver -------------------------------
(* Transfers of an SPI peripheral (SPIWrapper of                               *)
(* src/Inc/HALAL/Models/SPI/SPI2.hpp, the callbacks of SPI2.cpp).  A call that  *)
(* uses the DMA first stores where its flag is, then asks the HAL to start: an  *)
(* interrupt of the transfer before may come in between.                      *)
EXTENDS Naturals, FiniteSetsExt

CONSTANTS
    SpiPeers,       \* peripheral |-> "MASTER" or "SLAVE"
    SpiBits,        \* peripheral |-> bits of a frame
    SpiCallers,     \* those who call, each with a flag of its own
    SpiBytes,       \* sizes of the data they pass
    MaxErrors       \* bound: errors counted

VARIABLES
    spi,            \* peripheral |-> HAL state, operation_flag, was_aborted, ...
    spiCall,        \* the call between its flag and its start, or Nothing
    spiFlag,        \* caller |-> its flag
    spiOp,          \* caller |-> its last call: "started", "done", or "none" of it is left
    spiCrossed      \* callers whose call met, or was met by, another's transfer

spiVars == <<spi, spiCall, spiFlag, spiOp, spiCrossed>>

NoOne   == "no one"
NoCall  == [spi |-> NoOne, caller |-> NoOne]

ASSUME CallersAssumption == NoOne \notin SpiCallers

frame_size(s) == IF SpiBits[s] <= 8 THEN 1 ELSE IF SpiBits[s] <= 16 THEN 2 ELSE 4

(* start-up may have given up and left the peripherals in reset.               *)
SpiInit ==
    /\ \E st \in {"READY", "RESET"} :
          spi = [s \in DOMAIN SpiPeers |-> [state |-> st, flag |-> NoOne, by |-> NoOne,
                                          aborted |-> FALSE, errors |-> 0, selected |-> TRUE]]
    /\ spiCall = NoCall
    /\ spiFlag = [c \in SpiCallers |-> FALSE]
    /\ spiOp = [c \in SpiCallers |-> "none"]
    /\ spiCrossed = {}

-----------------------------------------------------------------------------
(* check_error_code: OK is TRUE; BUSY is FALSE and the rest panics, and then the *)
(* caller has no transfer.                                                    *)
Answer(status, ok) == IF status = "OK" THEN ok ELSE "none"

(* The HAL refuses a peripheral that is not ready.                            *)
HalAnswers(s) == IF spi[s].state = "READY" THEN {"OK", "ERROR", "TIMEOUT"} ELSE {"BUSY"}

(* Who can no longer rely on a flag: the pointer of a transfer was replaced.    *)
Crossing(s, c) ==
    IF spi[s].by # NoOne THEN spiCrossed \cup {c, spi[s].by}
    ELSE IF \E other \in DOMAIN spi : spi[other].by # NoOne /\ spi[other].flag = c
    THEN spiCrossed ELSE spiCrossed \ {c}

(* Defect: the flag is stored once the transfer runs, as the SD card does.     *)
StartCallEarly(s, c, bytes) ==
    /\ spiCall = NoCall /\ spiOp[c] # "started"
    /\ spiFlag' = [spiFlag EXCEPT ![c] = FALSE]
    /\ spiCrossed' = Crossing(s, c)
    /\ spiCall' = [spi |-> s, caller |-> c]
    /\ spiOp' = [spiOp EXCEPT ![c] = "none"]
    /\ UNCHANGED spi

(* Every call that uses the DMA, up to the HAL: the flag is stored before        *)
(* anything is looked at, also over that of a transfer under way, and a size   *)
(* that does not fit panics and leaves it there.                             *)
StartCall(s, c, bytes) ==
    /\ spiCall = NoCall /\ spiOp[c] # "started"
    /\ spi' = [spi EXCEPT ![s].flag = c]
    /\ spiFlag' = [spiFlag EXCEPT ![c] = FALSE]
    /\ spiCrossed' = Crossing(s, c)
    /\ spiOp' = [spiOp EXCEPT ![c] = "none"]
    /\ spiCall' = IF bytes % frame_size(s) = 0 THEN [spi |-> s, caller |-> c] ELSE NoCall

(* send_DMA, receive_DMA and transceive_DMA of a master, listen and arm of a     *)
(* slave; both ways, the shorter buffer decides.                              *)
MasterStart(s, c, bytes) == SpiPeers[s] = "MASTER" /\ StartCall(s, c, bytes)
SlaveStart(s, c, bytes)  == SpiPeers[s] = "SLAVE" /\ StartCall(s, c, bytes)
SlaveTransceive(s, c, tx, rx) == SpiPeers[s] = "SLAVE" /\ StartCall(s, c, Min({tx, rx}))

(* Its second half: the HAL starts the transfer, or does not.                 *)
HalStart ==
    /\ spiCall # NoCall
    /\ LET s == spiCall.spi  c == spiCall.caller
       IN  \E status \in HalAnswers(s) :
              /\ spiOp' = [spiOp EXCEPT ![c] = Answer(status, "started")]
              /\ spi' = IF status = "OK" THEN [spi EXCEPT ![s].state = "BUSY", ![s].by = c] ELSE spi
    /\ spiCall' = NoCall
    /\ UNCHANGED <<spiFlag, spiCrossed>>

(* send, receive and transceive of a master: done or refused on the spot, with *)
(* no flag; also while another's transfer runs, which they leave alone.        *)
Blocking(s, c, bytes) ==
    /\ spiCall = NoCall /\ SpiPeers[s] = "MASTER" /\ spiOp[c] # "started"
    /\ IF bytes % frame_size(s) = 0
       THEN \E status \in HalAnswers(s) :
               spiOp' = [spiOp EXCEPT ![c] = Answer(status, "done")]
       ELSE spiOp' = [spiOp EXCEPT ![c] = "none"]
    /\ spiFlag' = [spiFlag EXCEPT ![c] = FALSE]
    /\ UNCHANGED <<spi, spiCall, spiCrossed>>

-----------------------------------------------------------------------------
(* Instance::recover: the transfer is aborted, its flag forgotten, and the      *)
(* peripheral reset and set up again, where each step may fail.               *)
Recovered(s, ok) ==
    [spi EXCEPT ![s].state = IF ok THEN "READY" ELSE "RESET", ![s].flag = NoOne, ![s].by = NoOne,
                ![s].aborted = TRUE, ![s].errors = @ + 1]

Over(s, what) == IF spi[s].by = NoOne THEN spiOp ELSE [spiOp EXCEPT ![spi[s].by] = what]

(* abort_and_recover of the main loop, which does not look at the result, and  *)
(* HAL_SPI_ErrorCallback, which panics when it is FALSE.                     *)
AbortAndRecover(s) ==
    /\ spiCall = NoCall /\ spi[s].errors < MaxErrors
    /\ \E ok \in BOOLEAN : spi' = Recovered(s, ok)
    /\ spiOp' = Over(s, "none")
    /\ UNCHANGED <<spiCall, spiFlag, spiCrossed>>

ErrorCallback(s) ==
    /\ spi[s].state = "BUSY" /\ spi[s].errors < MaxErrors
    /\ \E ok \in BOOLEAN : spi' = Recovered(s, ok)
    /\ spiOp' = Over(s, "none")
    /\ UNCHANGED <<spiCall, spiFlag, spiCrossed>>

(* HAL_SPI_TxCpltCallback, Rx and TxRx: the flag is set once.  A slave that is  *)
(* not selected moves nothing.                                              *)
TxCpltCallback(s) ==
    /\ spi[s].state = "BUSY" /\ spi[s].selected
    /\ spi' = [spi EXCEPT ![s].state = "READY", ![s].flag = NoOne, ![s].by = NoOne]
    /\ spiFlag' = IF spi[s].flag = NoOne THEN spiFlag ELSE [spiFlag EXCEPT ![spi[s].flag] = TRUE]
    /\ spiOp' = Over(s, "done")
    /\ UNCHANGED <<spiCall, spiCrossed>>

clear_abort_flag(s) ==
    /\ spiCall = NoCall /\ spi[s].aborted
    /\ spi' = [spi EXCEPT ![s].aborted = FALSE]
    /\ UNCHANGED <<spiCall, spiFlag, spiOp, spiCrossed>>

set_software_nss(s, selected) ==
    /\ spiCall = NoCall /\ SpiPeers[s] = "SLAVE" /\ spi[s].selected # selected
    /\ spi' = [spi EXCEPT ![s].selected = selected]
    /\ UNCHANGED <<spiCall, spiFlag, spiOp, spiCrossed>>

SpiNext ==
    \/ \E s \in DOMAIN SpiPeers, c \in SpiCallers, bytes \in SpiBytes :
          \/ MasterStart(s, c, bytes) \/ Blocking(s, c, bytes)
          \/ SlaveStart(s, c, bytes) \/ \E rx \in SpiBytes : SlaveTransceive(s, c, bytes, rx)
    \/ HalStart
    \/ \E s \in DOMAIN SpiPeers :
          \/ AbortAndRecover(s) \/ ErrorCallback(s) \/ TxCpltCallback(s) \/ clear_abort_flag(s)
          \/ \E selected \in BOOLEAN : set_software_nss(s, selected)

(* A call returns; a transfer on a master, which drives the clock, ends.       *)
SpiFairness ==
    /\ WF_spiVars(HalStart)
    /\ \A s \in DOMAIN SpiPeers :
          SpiPeers[s] = "MASTER" => WF_spiVars(TxCpltCallback(s) \/ ErrorCallback(s))

SpiSpec == SpiInit /\ [][SpiNext]_spiVars /\ SpiFairness

-----------------------------------------------------------------------------
(* "uses an optional operation flag to signal completion" (SPI2.hpp:798): a flag *)
(* that is set speaks of a transfer that was done (send_DMA and its like).  The  *)
(* code does not keep this (SPI2.hpp:803): TLC refutes it of MCDrivers.        *)
FlagSignalsCompletion == \A c \in SpiCallers : spiFlag[c] => spiOp[c] = "done"

(* A flag that is set speaks of a transfer that ended, and a transfer under way  *)
(* has its own caller's pointer, as long as no call crossed another's.         *)
SpiFlagTellsTheTruth ==
    /\ \A c \in SpiCallers \ spiCrossed : spiFlag[c] => spiOp[c] = "done"
    /\ \A s \in DOMAIN spi : spi[s].by \notin spiCrossed \cup {NoOne} => spi[s].flag = spi[s].by
    /\ \A c \in SpiCallers : spiOp[c] = "started" <=> \E s \in DOMAIN spi : spi[s].by = c
=============================================================================
