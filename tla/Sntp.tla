--------------------------------- MODULE Sntp ---------------------------------
(* The SNTP client over the scheduler's timeouts                               *)
(* (src/Src/HALAL/Services/Communication/SNTP/SNTP.cpp, SNTP.hpp) and the clock  *)
(* it sets (src/Src/HALAL/Services/Time/RTC.cpp).  Datagrams may be lost, late   *)
(* or repeated; the main loop runs timeouts and receptions, one at a time.      *)
EXTENDS Naturals, FiniteSets, FiniteSetsExt

CONSTANTS
    REQUEST_MAX,      \* 512
    RECV_MAX,         \* 8
    Stamps,           \* times a server may answer
    TimerIds          \* ids of set_timeout that can be alive at once

VARIABLES
    pcb,              \* the client is started
    timers,           \* timeouts alive: [id, calls]
    requestId,        \* request_task_id
    nextId,           \* try_next_server_task_id
    requests,         \* request_count, one past its bound at most
    recvs,            \* recv_count
    kissed,           \* a kiss of death came since the client was last quiet
    starved,          \* set_timeout had no slot
    rtc               \* the clock: [started, valid, time, date, shown]

sntpVars == <<pcb, timers, requestId, nextId, requests, recvs, kissed, starved, rtc>>

INVALID == 0
FACTORY == 0          \* the calendar start_rtc sets

ASSUME IdsAssumption == TimerIds \subseteq Nat \ {INVALID}

SntpInit ==
    /\ pcb = FALSE /\ timers = {} /\ requestId = INVALID /\ nextId = INVALID
    /\ requests = 0 /\ recvs = 0 /\ kissed = FALSE /\ starved = FALSE
    /\ rtc = [started |-> FALSE, valid |-> FALSE, time |-> FACTORY, date |-> FACTORY,
              shown |-> FACTORY]

(* Scheduler::set_timeout: an id no timeout has, nor the client remembers        *)
(* (TimeoutIdsApart of Scheduler), or INVALID when the slots are taken.         *)
Free      == TimerIds \ ({t.id : t \in timers} \cup {requestId, nextId})
SetTimeout(ts, calls, ok) == IF ok /\ Free # {} THEN ts \cup {[id |-> Min(Free), calls |-> calls]}
                                                ELSE ts
IdOf(ok)  == IF ok /\ Free # {} THEN Min(Free) ELSE INVALID
Cancel(ts, ids) == {t \in ts : t.id \notin ids}

(* Defect: a receive timeout is left to run.                                  *)
StoppedHalf(ts, req, next) == IF pcb THEN Cancel(ts, {req}) ELSE ts

(* stop: only with a block are the timeouts cancelled that the client knows.    *)
Stopped(ts, req, next) == IF pcb THEN Cancel(ts, {req, next}) ELSE ts

(* What a call leaves: everything stopped, or the timeouts and their ids; a     *)
(* call that asked for a timeout may have got none.                           *)
Leave(over, ts, req, next, none) ==
    /\ pcb' = (pcb /\ ~over)
    /\ timers' = IF over THEN Stopped(ts, req, next) ELSE ts
    /\ requestId' = IF over THEN INVALID ELSE req
    /\ nextId' = IF over THEN INVALID ELSE next
    /\ starved' = (pcb' /\ (starved \/ none))
    /\ kissed' = (kissed /\ timers' # {})

-----------------------------------------------------------------------------
(* request, with the server's address set or not, and memory for the datagram   *)
(* or not: it waits for an answer, or tries again in a while.                  *)
Asks(address, memory) == IF ~address \/ memory THEN "retry" ELSE "request"

(* Defect: only requests that could be sent are counted.                       *)
RequestUncounted(ts, address, memory, ok) ==
    LET calls == Asks(address, memory)
        count == IF address /\ memory THEN requests + 1 ELSE requests
    IN  /\ Leave(count > REQUEST_MAX, SetTimeout(ts, calls, ok),
                 IF calls = "request" THEN IdOf(ok) ELSE requestId,
                 IF calls = "retry" THEN IdOf(ok) ELSE nextId, IdOf(ok) = INVALID)
        /\ requests' = IF count > REQUEST_MAX THEN REQUEST_MAX ELSE count
        /\ UNCHANGED <<recvs, rtc>>

Request(ts, address, memory, ok) ==
    LET calls == Asks(address, memory)  count == requests + 1
    IN  /\ Leave(count > REQUEST_MAX, SetTimeout(ts, calls, ok),
                 IF calls = "request" THEN IdOf(ok) ELSE requestId,
                 IF calls = "retry" THEN IdOf(ok) ELSE nextId, IdOf(ok) = INVALID)
        /\ requests' = IF count > REQUEST_MAX THEN REQUEST_MAX ELSE count
        /\ UNCHANGED <<recvs, rtc>>

(* start: counts are reset; a client that is running only takes the address.    *)
SntpStart(address, memory, ok) ==
    LET calls == Asks(address, memory)
    IN  /\ IF pcb THEN UNCHANGED <<timers, requestId, nextId, starved, kissed>>
           ELSE /\ timers' = SetTimeout(timers, calls, ok)
                /\ requestId' = IF calls = "request" THEN IdOf(ok) ELSE requestId
                /\ nextId' = IF calls = "retry" THEN IdOf(ok) ELSE nextId
                /\ starved' = (IdOf(ok) = INVALID)
                /\ kissed' = (timers # {})
        /\ pcb' = TRUE
        /\ requests' = IF pcb THEN 0 ELSE 1
        /\ recvs' = 0 /\ UNCHANGED rtc

SntpStop == /\ pcb
        /\ Leave(TRUE, timers, requestId, nextId, FALSE)
        /\ UNCHANGED <<requests, recvs, rtc>>

(* A timeout fires: request, or retry, which is try_next_server.               *)
Fire(t, address, memory, ok) ==
    /\ t \in timers
    /\ IF t.calls = "request"
       THEN Request(timers \ {t}, address, memory, ok)
       ELSE /\ Leave(FALSE, SetTimeout(timers \ {t}, "request", ok), IdOf(ok), nextId,
                     IdOf(ok) = INVALID)
            /\ UNCHANGED <<requests, recvs, rtc>>

-----------------------------------------------------------------------------
(* start_rtc: the calendar is set to a date of its own, and is not valid.       *)
Ensured(ok) == IF rtc.started THEN rtc
               ELSE [rtc EXCEPT !.started = ok, !.valid = @ /\ ~ok,
                                !.time = IF ok THEN FACTORY ELSE @,
                                !.date = IF ok THEN FACTORY ELSE @]

(* set_rtc_data: time and date are written one after the other, either may fail, *)
(* and the time is valid when neither did.                                    *)
SetRtc(stamp, ok, timeOk, dateOk) ==
    LET r == Ensured(ok)
        w == [r EXCEPT !.time = IF timeOk THEN stamp ELSE @, !.date = IF dateOk THEN stamp ELSE @,
                       !.valid = timeOk /\ dateOk]
    IN  IF ~r.started THEN r
        ELSE [w EXCEPT !.shown = IF w.valid THEN stamp ELSE @]

(* recv counts every datagram and stops past RECV_MAX.                         *)
Counted == recvs' = IF recvs = RECV_MAX THEN RECV_MAX ELSE recvs + 1
TooMany == recvs + 1 > RECV_MAX

(* An answer sets the clock, and the next request comes after UPDATE_DELAY.     *)
RecvTime(stamp, started, timeOk, dateOk, ok) ==
    /\ pcb
    /\ rtc' = SetRtc(stamp, started, timeOk, dateOk)
    /\ Leave(TooMany, SetTimeout(Cancel(timers, {requestId, nextId}), "request", ok), IdOf(ok),
             nextId, IdOf(ok) = INVALID)
    /\ Counted /\ UNCHANGED requests

(* A kiss of death retries at once, and the receive timeout goes on as well.    *)
RecvKiss(ok) ==
    /\ pcb
    /\ LET ts == SetTimeout(timers, "request", ok)
           left == IF TooMany THEN Stopped(ts, IdOf(ok), nextId) ELSE ts
       IN  /\ pcb' = ~TooMany
           /\ timers' = left /\ kissed' = (left # {})
           /\ requestId' = IF TooMany THEN INVALID ELSE IdOf(ok)
           /\ nextId' = IF TooMany THEN INVALID ELSE nextId
           /\ starved' = (~TooMany /\ (starved \/ IdOf(ok) = INVALID))
    /\ Counted /\ UNCHANGED <<requests, rtc>>

(* Anything else is ignored.                                                  *)
RecvOther ==
    /\ pcb
    /\ Leave(TooMany, timers, requestId, nextId, FALSE)
    /\ Counted /\ UNCHANGED <<requests, rtc>>

(* update_rtc_data: what is shown is the calendar, or zero while it is invalid. *)
UpdateRtc(ok) ==
    /\ LET r == Ensured(ok)
       IN  rtc' = IF ~r.started THEN r
                  ELSE [r EXCEPT !.shown = IF r.valid THEN r.time ELSE FACTORY]
    /\ UNCHANGED <<pcb, timers, requestId, nextId, requests, recvs, kissed, starved>>

SntpNext ==
    \/ \E ok \in BOOLEAN :
          \/ \E address, memory \in BOOLEAN :
                \/ SntpStart(address, memory, ok)
                \/ \E t \in timers : Fire(t, address, memory, ok)
          \/ \E stamp \in Stamps, started, timeOk, dateOk \in BOOLEAN :
                RecvTime(stamp, started, timeOk, dateOk, ok)
          \/ RecvKiss(ok)
          \/ UpdateRtc(ok)
    \/ SntpStop \/ RecvOther

(* A timeout fires (QueuedTaskFires of Scheduler).                             *)
SntpFairness ==
    WF_sntpVars(\E t \in timers, address, memory, ok \in BOOLEAN : Fire(t, address, memory, ok))

SntpSpec == SntpInit /\ [][SntpNext]_sntpVars /\ SntpFairness

-----------------------------------------------------------------------------
(* One timeout drives the client while it runs, known by its id, and none when   *)
(* it has stopped; unless a kiss of death started a second, or no slot was left *)
(* for the first.  A valid time is one answer's, time and date.                *)
SntpHasOneChain ==
    /\ ~kissed => /\ ~pcb => timers = {}
                  /\ pcb /\ ~starved => \E t \in timers : timers = {t} /\ t.id \in {requestId, nextId}
    /\ rtc.valid => rtc.time = rtc.date /\ rtc.time \in Stamps
=============================================================================
