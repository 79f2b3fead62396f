-------------------------------- MODULE SdCard --------------------------------
(* The card, its two buffers and the flag of a transfer                        *)
(* (SdDomain::Instance and SdCardWrapper of src/Inc/ST-LIB_LOW/Sd/Sd.hpp,       *)
(* src/Src/ST-LIB_LOW/Sd/Sd.cpp).  PANIC is a call that returns: what follows   *)
(* it is done all the same.                                                  *)
EXTENDS Naturals

CONSTANTS
    SdBlocks,       \* blocks of a buffer
    SdLast,         \* LogBlockNbr: blocks of the card
    SdWrap,         \* 2^32: block numbers are uint32_t
    SdRequests,     \* what callers ask: [dir, start, blocks]
    SdHasCd, SdHasWp

VARIABLES
    sd,             \* hsd, the instance's fields and the controller
    sdCall,         \* a call that has started its transfer, not yet stored its flag
    sdDone,         \* the caller's flag
    sdLast,         \* what became of the last transfer: "none", "waits", "done", ...
    sdPanics        \* why the last call or callback panicked

sdVars == <<sd, sdCall, sdDone, sdLast, sdPanics>>

NoRequest == [dir |-> "none", start |-> 0, blocks |-> 0]
Other(b)  == 1 - b

ASSUME RequestsAssumption ==
    /\ SdBlocks \in Nat
    /\ \A r \in SdRequests : r.dir \in {"read", "write"} /\ r.blocks \in Nat

(* The controller knows no buffers before initialize_card; no card reads as one *)
(* that is not ready.                                                        *)
SdInit ==
    /\ sd = [state |-> "RESET", initialized |-> FALSE, current |-> 0, idma |-> 0, bases |-> FALSE,
             blocks |-> 0, filled |-> 0,
             flag |-> FALSE, card |-> "TRANSFER", present |-> TRUE, protected |-> FALSE]
    /\ sdCall = NoRequest /\ sdDone = FALSE /\ sdLast = "none" /\ sdPanics = {}

(* check_cd_wp only panics, at construction and before every operation.        *)
check_cd_wp == (IF SdHasCd /\ ~sd.present THEN {"absent"} ELSE {})
               \cup (IF SdHasWp /\ sd.protected THEN {"protected"} ELSE {})

AtRest == sdCall = NoRequest

-----------------------------------------------------------------------------
(* initialize_card: four steps of the HAL, each of which may fail and leaves    *)
(* what those before it did.  HAL_SD_MspInit resets a controller that is off.  *)
CutShort == sdLast' = IF sd.state = "BUSY" /\ sd'.state # "BUSY" THEN "cut" ELSE sdLast
Steps == {"init", "info", "idma", "speed"}
init_card(failed) ==
    /\ AtRest
    /\ \/ sd.initialized /\ failed = "none" /\ UNCHANGED sd
       \/ ~sd.initialized /\ sd' = [sd EXCEPT !.state = IF failed = "init" THEN "PROGRAMMING" ELSE "READY",
                                              !.bases = \/ failed \in {"speed", "none"}
                                                        \/ @ /\ sd.state # "RESET",
                                              !.initialized = (failed = "none")]
    /\ sdPanics' = check_cd_wp \cup (IF failed = "none" THEN {} ELSE {"init"})
    /\ CutShort /\ UNCHANGED <<sdCall, sdDone>>

deinit_card(ok) ==
    /\ AtRest
    /\ \/ ~sd.initialized /\ ok /\ UNCHANGED sd
       \/ sd.initialized /\ ok /\ sd' = [sd EXCEPT !.state = "RESET", !.initialized = FALSE]
       \/ sd.initialized /\ ~ok /\ UNCHANGED sd
    /\ sdPanics' = check_cd_wp \cup (IF ok THEN {} ELSE {"deinit"})
    /\ CutShort /\ UNCHANGED <<sdCall, sdDone>>

(* Not_HAL_SDEx_ReadBlocksDMAMultiBuffer and its twin: the controller is given   *)
(* the buffer of the CPU, and the CPU the other, before the command is sent; if *)
(* the card does not take it, they stay so.                                   *)
Status(r) ==
    IF sd.state # "READY" THEN "BUSY"
    ELSE IF (r.start + r.blocks) % SdWrap > SdLast \/ ~sd.bases THEN "ERROR" ELSE "OK"

(* Defect: the CPU keeps the buffer the controller was given.                  *)
NotSwitched == [sd EXCEPT !.idma = sd.current]

Switched == [sd EXCEPT !.idma = sd.current, !.current = Other(sd.current)]

Multi(r, taken) == IF Status(r) # "OK" THEN sd
                   ELSE [Switched EXCEPT !.state = IF taken THEN "BUSY" ELSE "READY",
                                         !.blocks = r.blocks, !.filled = 0]

(* read_blocks and write_blocks: FALSE only when the card is not ready, as it is  *)
(* while data move; a request that fails panics, and the rest is done as if it  *)
(* had not.                                                                  *)
CardReady == sd.card = "TRANSFER" /\ sd.state # "BUSY"

StartBlocks(r, taken) ==
    /\ AtRest
    /\ sdPanics' = check_cd_wp
                   \cup (IF sd.initialized THEN {} ELSE {"uninitialized"})
                   \cup (IF r.blocks > SdBlocks THEN {"blocks"} ELSE {})
                   \cup (IF CardReady /\ (Status(r) # "OK" \/ ~taken) THEN {"failed"} ELSE {})
    /\ IF CardReady
       THEN /\ sd' = Multi(r, taken) /\ sdCall' = r
            /\ sdLast' = IF Status(r) # "OK" \/ ~taken THEN "failed"
                         ELSE IF sd.initialized THEN "waits" ELSE "unsure"
       ELSE UNCHANGED <<sd, sdCall, sdLast>>
    /\ UNCHANGED sdDone

(* The end of the call: only now is the flag installed and reset.              *)
SetFlag ==
    /\ ~AtRest
    /\ sd' = [sd EXCEPT !.flag = TRUE]
    /\ sdDone' = FALSE /\ sdCall' = NoRequest
    /\ UNCHANGED <<sdLast, sdPanics>>

-----------------------------------------------------------------------------
(* The controller is in double-buffer mode (IDMACTRL): a full, or empty, buffer   *)
(* makes it go on with the other, if the request has more blocks.              *)
Remains == sd.blocks > SdBlocks * (sd.filled + 1)

IdmaTurns ==
    /\ sd.state = "BUSY" /\ Remains
    /\ sd' = [sd EXCEPT !.idma = Other(@), !.filled = @ + 1]
    /\ UNCHANGED <<sdCall, sdDone, sdLast, sdPanics>>

(* on_dma_read_complete, on_dma_write_complete.                                *)
DmaComplete ==
    /\ sd.state = "BUSY" /\ ~Remains
    /\ sd' = [sd EXCEPT !.state = "READY", !.flag = FALSE]
    /\ sdDone' = (sdDone \/ sd.flag)
    /\ sdLast' = "done"
    /\ UNCHANGED <<sdCall, sdPanics>>

(* on_error and on_abort: the HAL has set the card ready, the flag stays.       *)
DmaError(what) ==
    /\ sd.state = "BUSY"
    /\ sd' = [sd EXCEPT !.state = "READY"]
    /\ sdLast' = what
    /\ sdPanics' = {what}
    /\ UNCHANGED <<sdCall, sdDone>>

(* The card comes and goes, is locked, and is busy writing for a while.         *)
CardChanges ==
    /\ \/ sd' = [sd EXCEPT !.card = IF @ = "TRANSFER" THEN "PROGRAMMING" ELSE "TRANSFER"]
       \/ sd' = [sd EXCEPT !.present = ~@]
       \/ sd' = [sd EXCEPT !.protected = ~@]
    /\ UNCHANGED <<sdCall, sdDone, sdLast, sdPanics>>

get_current_buffer == sd.current
is_busy == sd.initialized /\ sd.state = "BUSY"

SdNext ==
    \/ \E failed \in Steps \cup {"none"} : init_card(failed)
    \/ \E ok \in BOOLEAN : deinit_card(ok)
    \/ \E r \in SdRequests, taken \in BOOLEAN : StartBlocks(r, taken)
    \/ SetFlag \/ IdmaTurns \/ DmaComplete
    \/ \E what \in {"error", "aborted"} : DmaError(what)
    \/ CardChanges

SdFairness ==
    /\ WF_sdVars(SetFlag)
    /\ WF_sdVars(IdmaTurns \/ DmaComplete \/ \E w \in {"error", "aborted"} : DmaError(w))

SdSpec == SdInit /\ [][SdNext]_sdVars /\ SdFairness

-----------------------------------------------------------------------------
(* While a request moves that fits a buffer the CPU is shown the one that the   *)
(* controller does not use, also after requests that failed half-way or did not *)
(* fit; is_busy says that data move, on a card that was initialized; and no     *)
(* flag is set that belongs to a transfer under way.                          *)
SdBuffersAreApart ==
    /\ sd.state = "BUSY" /\ sd.blocks <= SdBlocks => sd.idma # get_current_buffer
    /\ sdLast = "waits" => is_busy
    /\ sdLast = "waits" /\ sdCall = NoRequest => ~sdDone

(* The current buffer is "available for CPU access and not being used by IDMA"   *)
(* (Sd.hpp:314), whatever was requested.  The code does not keep this             *)
(* (Sd.hpp:363): TLC refutes it of MCDrivers.                                 *)
CurrentIsTheCpus == sd.state = "BUSY" => sd.idma # get_current_buffer
=============================================================================
