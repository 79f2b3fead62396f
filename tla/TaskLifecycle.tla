--------------------------- MODULE TaskLifecycle ---------------------------
(***************************************************************************)
(* What the scheduler promises its clients, one slot at a time and without *)
(* timers, interrupts or queues: a started task waits, becomes due, is run *)
(* and, if it is periodic, goes on waiting all the while.  A task that was *)
(* started and not stopped is never forgotten, and one that was stopped is *)
(* neither waiting nor due.  The promise lasts until a client breaks it    *)
(* (`void`).  Module Scheduler implements this.                            *)
(***************************************************************************)
CONSTANT Slots

VARIABLES
  kind,       \* what the slot is used for: "free", "periodic" or "oneshot"
  waiting,    \* the slots whose time has to come (again)
  due,        \* the slots whose time has come and whose callback has not returned
  void        \* a client has made a call after which nothing is promised

lifecycle == <<kind, waiting, due, void>>

Init ==
  /\ kind = [s \in Slots |-> "free"]
  /\ waiting = {}
  /\ due = {}
  /\ void = FALSE

(* A client gets a slot; its time starts to run in a step of its own.      *)
Start(s) ==
  /\ kind[s] = "free"
  /\ \E k \in {"periodic", "oneshot"} : kind' = [kind EXCEPT ![s] = k]
  /\ UNCHANGED <<waiting, due>>

Arm(s) ==
  /\ kind[s] # "free" /\ s \notin waiting /\ s \notin due
  /\ waiting' = waiting \union {s}
  /\ UNCHANGED <<kind, due>>

(* The time of s comes: a periodic task starts to wait again at once.      *)
Fire(s) ==
  /\ s \in waiting
  /\ due' = due \union {s}
  /\ waiting' = IF kind[s] = "oneshot" THEN waiting \ {s} ELSE waiting
  /\ UNCHANGED kind

(* The callback of s has returned; a one-shot is over.                     *)
Finish(s) ==
  /\ s \in due
  /\ due' = due \ {s}
  /\ kind' = IF kind[s] = "oneshot" THEN [kind EXCEPT ![s] = "free"] ELSE kind
  /\ UNCHANGED waiting

(* A client ends s, waiting or due.                                        *)
Stop(s) ==
  /\ s \in waiting \union due
  /\ kind' = [kind EXCEPT ![s] = "free"]
  /\ waiting' = waiting \ {s}
  /\ due' = due \ {s}

Step == \E s \in Slots : Start(s) \/ Arm(s) \/ Fire(s) \/ Finish(s) \/ Stop(s)

(* Anything may happen once the promise is void, and it stays so.          *)
Next == (void => void') /\ (void' \/ Step)

Spec == Init /\ [][Next]_lifecycle
=============================================================================
