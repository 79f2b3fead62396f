--------------------------- MODULE DiagnosticsHub ---------------------------
(***************************************************************************)
(* Diagnostics::Hub of a board with Ethernet: what PANIC, FAULT, WARNING,  *)
(* INFO and the protections publish is kept in a history ring and, once a  *)
(* sink is installed, in a bounded pending queue from which flush and      *)
(* flush_urgent hand it to the sinks, one record per level every 100 ms.   *)
(*                                                                         *)
(* A record is its number and its priority.  A flush is taken apart at the *)
(* calls it makes to the sinks, which transmit and take time, publish      *)
(* between the ring and the queue, and emplace_sink before its replay: at  *)
(* all these points an interrupt handler may publish and flush (the "isr"  *)
(* context, which runs to its end before the main context goes on).  The   *)
(* assignments to the ring, or to the queue, are one step: a handler that  *)
(* cuts into these is not modelled.                                        *)
(***************************************************************************)
EXTENDS Integers, Sequences

CONSTANTS
  max_sinks,
  history_capacity,
  pending_capacity,
  RecordNumbers        \* the records SinksAreServed speaks of

ASSUME HubAssumption ==
  /\ max_sinks \in Nat
  /\ history_capacity \in Nat \ {0} /\ pending_capacity \in Nat \ {0}
  /\ history_capacity <= pending_capacity

DiagnosticPriority == {"NORMAL", "URGENT"}
Contexts == {"main", "isr"}
AllSinks == 0..max_sinks - 1

VARIABLES
  published,          \* number of records published so far
  history, history_count, history_next_index,
  pending_records,    \* the array, of which pending_count places are in use
  pending_count,
  sink_count,
  accepting,          \* the sinks whose publish returns true now
  due,                \* per level of flush: 100 ms have passed since the last one
  ticking,            \* the global tick has left 0
  running,            \* the scheduler's timer counts: it has a task
  pass,               \* the flush a context is making
  got,                \* the records each sink has taken, in order
  evicted,            \* records a full queue dropped, or a full ring before any sink
  interrupted         \* a handler has published in the middle of a call of main context

ring == <<history, history_count, history_next_index>>
queue == <<pending_records, pending_count>>
environment == <<accepting, due, ticking, running>>
vars == <<published, ring, queue, sink_count, environment, pass, got, evicted, interrupted>>

Record(n, p) == [number |-> n, priority |-> p]
NoRecord == Record(0, "NORMAL")
EmptyPlace == [record |-> NoRecord, delivered |-> {}]

Idle ==
  [at |-> "idle", record |-> NoRecord, urgent_only |-> FALSE, normal_next |-> FALSE,
   at_zero |-> FALSE, open |-> FALSE, target |-> {}, record_index |-> 0, sink_index |-> 0,
   accepted |-> FALSE]

Init ==
  /\ published = 0
  /\ history = [i \in 0..history_capacity - 1 |-> NoRecord]
  /\ history_count = 0 /\ history_next_index = 0
  /\ pending_records = [i \in 0..pending_capacity - 1 |-> EmptyPlace]
  /\ pending_count = 0
  /\ sink_count = 0
  /\ accepting = {}
  /\ due = [level \in DiagnosticPriority |-> TRUE]
  /\ ticking = FALSE /\ running = FALSE
  /\ pass = [c \in Contexts |-> Idle]
  /\ got = [s \in AllSinks |-> <<>>]
  /\ evicted = {}
  /\ interrupted = FALSE

(* The interrupt handler runs to its end; the main context waits.          *)
CanStep(c) == c = "main" => pass["isr"].at = "idle"
-----------------------------------------------------------------------------
(* The ring and the queue. *)

NextIndex(index) == (index + 1) % history_capacity

PushHistory(r) ==
  /\ history' = [history EXCEPT ![history_next_index] = r]
  /\ history_next_index' = NextIndex(history_next_index)
  /\ history_count' = IF history_count < history_capacity THEN history_count + 1 ELSE history_count

(* remove_pending: the places behind move up, and the last one keeps a     *)
(* copy of what it held.                                                   *)
RemovePending(places, n, index) ==
  [i \in DOMAIN places |-> IF index <= i /\ i + 1 < n THEN places[i + 1] ELSE places[i]]

(* Which record a full queue drops for one of this priority.               *)
Victim(places, priority) ==
  LET normal == {i \in DOMAIN places : places[i].record.priority = "NORMAL"} IN
  IF priority = "URGENT" /\ normal # {}
    THEN CHOOSE i \in normal : \A j \in normal : i <= j
    ELSE 0

(* push_pending, once there is a sink to send to. *)
PushPending(r) ==
  LET full == pending_count = pending_capacity
      victim == Victim(pending_records, r.priority)
      places == IF full THEN RemovePending(pending_records, pending_count, victim)
                ELSE pending_records
      n == IF full THEN pending_count - 1 ELSE pending_count
  IN
  /\ pending_records' = [places EXCEPT ![n] = [record |-> r, delivered |-> {}]]
  /\ pending_count' = n + 1
  /\ evicted' = IF full THEN evicted \union {pending_records[victim].record.number} ELSE evicted

(* replay_history_to_pending: the ring fits in the queue, which is empty.  *)
FromStart == 0                                  \* Defect: the ring may have wrapped
Oldest == IF history_count = history_capacity THEN history_next_index ELSE 0

Replay ==
  /\ pending_records' = [i \in 0..pending_capacity - 1 |->
       IF i < history_count
         THEN [record |-> history[(Oldest + i) % history_capacity], delivered |-> {}]
         ELSE pending_records[i]]
  /\ pending_count' = history_count
-----------------------------------------------------------------------------
(* A flush: flush_urgent() alone, or as the first half of flush().         *)
Level(urgent_only) == IF urgent_only THEN "URGENT" ELSE "NORMAL"

Flushing(urgent_only, normal_next) ==
  [Idle EXCEPT !.at = "record", !.urgent_only = urgent_only, !.normal_next = normal_next,
               !.at_zero = ~ticking, !.open = due[Level(urgent_only)],
               !.target = 0..sink_count - 1]

(* publish(), first half: the ring.  Both contexts publish; a handler does *)
(* so also while a call of the main context is under way.                  *)
Publish(c, priority) ==
  /\ CanStep(c) /\ pass[c].at = "idle"
  /\ published' = published + 1
  /\ PushHistory(Record(published + 1, priority))
  /\ evicted' = IF sink_count > 0 THEN evicted
                ELSE evicted \union ({history[history_next_index].number} \ {0})
  /\ pass' = [pass EXCEPT ![c] = [Idle EXCEPT !.at = "queueing",
                                             !.record = Record(published + 1, priority)]]
  /\ interrupted' = (interrupted \/ (c = "isr" /\ pass["main"].at # "idle"))
  /\ UNCHANGED <<queue, sink_count, environment, got>>

(* Second half: the queue.  A fault is URGENT and the function that reports*)
(* it calls flush_urgent() next.                                           *)
Enqueue(c) ==
  LET r == pass[c].record IN
  /\ CanStep(c) /\ pass[c].at = "queueing"
  /\ IF sink_count > 0 THEN PushPending(r) ELSE UNCHANGED <<queue, evicted>>
  /\ pass' = [pass EXCEPT ![c] =
                IF r.priority = "URGENT" THEN Flushing(TRUE, FALSE) ELSE Idle]
  /\ UNCHANGED <<published, ring, sink_count, environment, got, interrupted>>

(* emplace_sink(): the first sink is given the history, if nothing waits.  *)
AnySink == TRUE                                 \* Defect: every sink replays
HadNoSinks == sink_count = 0

EmplaceSink ==
  /\ CanStep("main") /\ pass["main"].at = "idle"
  /\ sink_count < max_sinks
  /\ sink_count' = sink_count + 1
  /\ pass' = IF HadNoSinks THEN [pass EXCEPT !["main"] = [Idle EXCEPT !.at = "replaying"]] ELSE pass
  /\ UNCHANGED <<published, ring, queue, environment, got, evicted, interrupted>>

ReplayHistory ==
  /\ CanStep("main") /\ pass["main"].at = "replaying"
  /\ IF pending_count = 0 THEN Replay ELSE UNCHANGED queue
  /\ pass' = [pass EXCEPT !["main"] = Idle]
  /\ UNCHANGED <<published, ring, sink_count, environment, got, evicted, interrupted>>

(* flush(), which the main loop calls.                                     *)
Flush ==
  /\ CanStep("main") /\ pass["main"].at = "idle"
  /\ pass' = [pass EXCEPT !["main"] = Flushing(TRUE, TRUE)]
  /\ UNCHANGED <<published, ring, queue, sink_count, environment, got, evicted,
                 interrupted>>

(* The head of the loop over the records: the pass ends, skips the record, *)
(* or offers it to the sinks.                                              *)
Stay(index) == index                            \* Defect: the loop does not go on
Behind(index) == index + 1

Offered(p) ==
  (p.urgent_only => pending_records[p.record_index].record.priority = "URGENT") /\ p.open

NextRecord(c) ==
  LET p == pass[c] IN
  /\ CanStep(c) /\ p.at = "record"
  /\ pass' = [pass EXCEPT ![c] =
       IF p.record_index >= pending_count
         THEN IF p.normal_next THEN Flushing(FALSE, FALSE) ELSE Idle
         ELSE IF Offered(p) THEN [p EXCEPT !.at = "sink", !.sink_index = 0]
              ELSE [p EXCEPT !.record_index = Behind(@)]]
  /\ UNCHANGED <<published, ring, queue, sink_count, environment, got, evicted,
                 interrupted>>

(* The loop over the sinks calls publish of one that has not yet taken the *)
(* record, or ends: a record that all have is removed.                     *)
Begun(place, target) == place.delivered # {}    \* Defect: one sink is enough
Complete(place, target) == place.delivered = target

NextSink(c) ==
  LET p == pass[c]
      place == pending_records[p.record_index]
  IN
  /\ CanStep(c) /\ p.at = "sink"
  /\ \/ /\ p.sink_index < sink_count /\ p.sink_index \in place.delivered
        /\ pass' = [pass EXCEPT ![c].sink_index = @ + 1]
        /\ UNCHANGED <<queue, got>>
     \/ /\ p.sink_index < sink_count /\ p.sink_index \notin place.delivered
        /\ pass' = [pass EXCEPT ![c].at = "published",
                                ![c].accepted = p.sink_index \in accepting]
        /\ got' = IF p.sink_index \in accepting
                    THEN [got EXCEPT ![p.sink_index] = Append(@, place.record.number)] ELSE got
        /\ UNCHANGED queue
     \/ /\ p.sink_index >= sink_count /\ Complete(place, p.target)
        /\ pass' = [pass EXCEPT ![c].at = "record"]
        /\ IF p.record_index < pending_count
             THEN /\ pending_records' = RemovePending(pending_records, pending_count, p.record_index)
                  /\ pending_count' = pending_count - 1
             ELSE UNCHANGED queue
        /\ UNCHANGED got
     \/ /\ p.sink_index >= sink_count /\ ~Complete(place, p.target)
        /\ pass' = [pass EXCEPT ![c].at = "record", ![c].record_index = Behind(@)]
        /\ UNCHANGED <<queue, got>>
  /\ UNCHANGED <<published, ring, sink_count, environment, evicted, interrupted>>

(* The sink's publish returns: what it took is noted at the place the      *)
(* record had, and the level has had its record.  A handler's flush leaves *)
(* an urgent pass it interrupted with a time of the last flush that is     *)
(* later than the pass's own now (the difference wraps, "again") or equal. *)
Succeeded(p) == p.accepted

SinkReturns(c) ==
  LET p == pass[c]
      level == Level(p.urgent_only)
      other == pass["main"]
      returned == [p EXCEPT !.at = "sink", !.sink_index = @ + 1]
  IN
  /\ CanStep(c) /\ p.at = "published"
  /\ IF ~Succeeded(p)
       THEN /\ pass' = [pass EXCEPT ![c] = returned]
            /\ UNCHANGED <<queue, due>>
       ELSE /\ pending_records' =
                 [pending_records EXCEPT ![p.record_index].delivered = @ \union {p.sink_index}]
            /\ due' = [due EXCEPT ![level] = p.at_zero]
            /\ IF c = "isr" /\ other.at # "idle" /\ other.urgent_only
                 THEN \E again \in BOOLEAN :
                        pass' = [pass EXCEPT ![c] = [returned EXCEPT !.open = p.at_zero],
                                             !["main"].open = again \/ other.at_zero]
                 ELSE pass' = [pass EXCEPT ![c] = [returned EXCEPT !.open = p.at_zero]]
            /\ UNCHANGED pending_count
  /\ UNCHANGED <<published, ring, sink_count, accepting, ticking, running, got, evicted,
                 interrupted>>
-----------------------------------------------------------------------------
(* 100 ms pass since last_urgent_flush_us or last_normal_flush_us, and the *)
(* tick leaves 0, both while the scheduler's timer counts; it starts with  *)
(* the first task and stops with the last one (Scheduler.cpp:211).  A sink *)
(* starts or stops taking records.                                         *)
Elapse(level) ==
  /\ running /\ ~due[level]
  /\ due' = [due EXCEPT ![level] = TRUE]
  /\ UNCHANGED <<published, ring, queue, sink_count, accepting, ticking, running, pass,
                 got, evicted, interrupted>>

StartTicking ==
  /\ running /\ ~ticking /\ ticking' = TRUE
  /\ UNCHANGED <<published, ring, queue, sink_count, accepting, due, running, pass, got,
                 evicted, interrupted>>

TimerToggles ==
  /\ running' = ~running
  /\ UNCHANGED <<published, ring, queue, sink_count, accepting, due, ticking, pass, got,
                 evicted, interrupted>>

Toggle(s) ==
  /\ accepting' = IF s \in accepting THEN accepting \ {s} ELSE accepting \union {s}
  /\ UNCHANGED <<published, ring, queue, sink_count, due, ticking, running, pass, got,
                 evicted, interrupted>>

Run(c) == Enqueue(c) \/ NextRecord(c) \/ NextSink(c) \/ SinkReturns(c)
Environment == StartTicking \/ TimerToggles \/ (\E level \in DiagnosticPriority : Elapse(level))
               \/ (\E s \in AllSinks : Toggle(s))

Next ==
  \/ \E c \in Contexts : Run(c) \/ \E priority \in DiagnosticPriority : Publish(c, priority)
  \/ EmplaceSink \/ ReplayHistory \/ Flush
  \/ Environment

Spec == Init /\ [][Next]_vars

(* The main loop calls flush() for ever, calls return, and time passes     *)
(* while the scheduler's timer counts.                                     *)
Fairness ==
  /\ SF_vars(Flush)
  /\ WF_vars(ReplayHistory)
  /\ \A c \in Contexts : WF_vars(Run(c))
  /\ \A level \in DiagnosticPriority : WF_vars(Elapse(level))

FairSpec == Spec /\ Fairness
-----------------------------------------------------------------------------
Records == [number : Nat, priority : DiagnosticPriority]
PassType ==
  [at : {"idle", "queueing", "replaying", "record", "sink", "published"}, record : Records,
   urgent_only : BOOLEAN, normal_next : BOOLEAN, at_zero : BOOLEAN, open : BOOLEAN,
   target : SUBSET AllSinks, record_index : Nat, sink_index : Nat, accepted : BOOLEAN]

TypeOK ==
  /\ published \in Nat
  /\ history \in [0..history_capacity - 1 -> Records]
  /\ history_count \in 0..history_capacity
  /\ history_next_index \in 0..history_capacity - 1
  /\ pending_records \in
       [0..pending_capacity - 1 -> [record : Records, delivered : SUBSET AllSinks]]
  /\ pending_count \in 0..pending_capacity
  /\ sink_count \in 0..max_sinks
  /\ accepting \subseteq AllSinks
  /\ due \in [DiagnosticPriority -> BOOLEAN] /\ ticking \in BOOLEAN /\ running \in BOOLEAN
  /\ pass \in [Contexts -> PassType]
  /\ got \in [AllSinks -> Seq(Nat)]
  /\ evicted \subseteq Nat
  /\ interrupted \in BOOLEAN

Waiting == {pending_records[i].record.number : i \in 0..pending_count - 1}
Taken(s) == {got[s][i] : i \in DOMAIN got[s]}

(* The queue holds records in the order they were published, so that no    *)
(* record overtakes an older one of its priority, also after a replay of a *)
(* ring that has wrapped and after evictions from the middle.              *)
QueueInOrder ==
  \A i, j \in 0..pending_count - 1 :
    i < j => pending_records[i].record.number < pending_records[j].record.number

(* What publish has brought to the queue, or to the ring before any sink.  *)
Entered == IF \E c \in Contexts : pass[c].at = "queueing" THEN published - 1 ELSE published

(* What a place says a sink has taken it has taken: otherwise the record   *)
(* is never given to it ("keeps the reporting path reentrant",             *)
(* docs/protections-and-diagnostics.md).                                   *)
MarksAreTrue ==
  \A i \in 0..pending_count - 1 : \A s \in pending_records[i].delivered :
    pending_records[i].record.number \in Taken(s)

(* The hub's calls are not reentrant: the rest is claimed until a handler  *)
(* publishes in the middle of one of them, and run diagnostics_isr shows   *)
(* what then becomes of MarksAreTrue.  Handlers that publish between two   *)
(* calls of the main context do no harm.                                   *)

(* The queue is sound: in range, in order, and marked with what was sent.  *)
QueueIsSound == TypeOK /\ (~interrupted => QueueInOrder /\ MarksAreTrue)

(* A sink takes a record at most once, whatever the other sinks refuse     *)
(* ("RetriesOnlyTheSinkThatFailed", Tests/diagnostics_test.cpp).           *)
NeverTwice == \A s \in AllSinks : \A i, j \in DOMAIN got[s] : got[s][i] = got[s][j] => i = j
TakenOnce == ~interrupted => NeverTwice

(* No record disappears: once the first sink has had its replay, every     *)
(* record published waits, has been taken by the first sink, or was        *)
(* dropped from a full ring or queue.                                      *)
AllAccounted ==
  sink_count > 0 /\ pass["main"].at # "replaying" =>
    1..Entered \subseteq Waiting \union Taken(0) \union evicted
NothingLost == ~interrupted => AllAccounted

(* While the tick moves, a waiting record is taken by every sink that keeps*)
(* accepting, in spite of the throttle and of the other sinks, or is       *)
(* dropped from a full queue.                                              *)
SinksAreServed ==
  \A s \in AllSinks : \A n \in RecordNumbers :
    [](~interrupted) /\ <>[](s \in accepting) /\ <>[]running =>
      (s < sink_count /\ n \in Waiting ~> n \in Taken(s) \union evicted)
=============================================================================
