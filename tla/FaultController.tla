--------------------------- MODULE FaultController ---------------------------
(***************************************************************************)
(* The fault runtime of every board and the FAULT orders between boards.   *)
(*                                                                         *)
(* FaultController owns a state machine of two states, OPERATIONAL and     *)
(* FAULT, with the application's machine nested in OPERATIONAL.  Any code  *)
(* may raise a fault at any point: before the runtime is installed or      *)
(* started, from the main loop, or from the application machine's own      *)
(* predicates and actions, in the middle of its state change.  That change *)
(* is therefore split at its user callbacks (field "at").  request_fault   *)
(* itself runs in one step: a fault raised inside it finds faulted set and *)
(* is only published.                                                      *)
(*                                                                         *)
(* Every board runs the same code; a board registers each connection its   *)
(* FAULT order goes to once, and Board::init, which calls install_runtime, *)
(* runs once per boot.  A connection accepts an order or is down; what it  *)
(* accepted arrives, unless the connection breaks first (module Socket has *)
(* the queue this stands for).  Diagnostics are left to DiagnosticsHub.    *)
(*                                                                         *)
(* The clock of the retries is Scheduler::get_global_tick, which stands    *)
(* still while the scheduler has no task (Scheduler.cpp:211).  Tasks are   *)
(* the cyclic actions that are registered, and those the application keeps *)
(* beside its machine (variable "busy").                                   *)
(***************************************************************************)
EXTENDS Integers, FiniteSets

CONSTANTS
  Boards,
  Links,           \* the connections, as sets of two boards
  OpStates,        \* the states of the application's machine
  InitialState,
  Timed,           \* those of them that have cyclic actions
  Causes,          \* what local code requests faults for
  max_propagation_targets

FaultCauseKind == {"PANIC", "RUNTIME_FAULT", "PROTECTION"}

ASSUME BoardAssumption ==
  /\ Links \subseteq SUBSET Boards
  /\ InitialState \in OpStates /\ Timed \subseteq OpStates
  /\ max_propagation_targets \in Nat
  /\ Causes \subseteq FaultCauseKind

VARIABLES
  board,           \* what FaultController and the machines hold, per board
  up,              \* the connections that are established
  wire,            \* <<from, to>>: FAULT orders accepted and not yet arrived
  sent,            \* <<from, to>>: FAULT orders ever accepted, in all
  busy             \* boards whose application has a scheduler task of its own

vars == <<board, up, wire, sent, busy>>

Peers(b) == {p \in Boards \ {b} : {b, p} \in Links}

NewBoard ==
  [installed       |-> FALSE,          \* runtime_storage.machine is set
   runtime_started |-> FALSE,
   faulted         |-> FALSE,
   cause           |-> "none",         \* latched_cause
   outer           |-> "OPERATIONAL",
   state           |-> InitialState,   \* of the application's machine
   on              |-> {},             \* states whose cyclic actions are registered
   at              |-> "idle",         \* progress of a state change
   to              |-> InitialState,   \* its target
   within          |-> "start",        \* the call that makes it
   entered         |-> 0,              \* runs of on_fault_enter
   targets         |-> {},             \* propagation_targets
   pending         |-> {},             \* those still owed the order
   retry_due       |-> FALSE,          \* 100 ms have passed since last_retry_us
   crossed         |-> FALSE]          \* history: FAULT was entered in the middle of
                                       \* a state change of the application's machine

Init ==
  /\ board = [b \in Boards |-> NewBoard]
  /\ up = {}
  /\ wire = {}
  /\ sent = [link \in Boards \X Boards |-> 0]
  /\ busy = {}

Becomes(b, r) == board' = [board EXCEPT ![b] = r]
-----------------------------------------------------------------------------
(* install_runtime: a fault raised earlier survives, the rest starts over. *)
KeepCause(r) == IF r.faulted THEN r.cause ELSE "none"

Install(b) ==
  LET r == board[b] IN
  /\ ~r.installed
  /\ Becomes(b, [r EXCEPT !.installed = TRUE,
                          !.cause = KeepCause(r),
                          !.outer = IF r.faulted THEN "FAULT" ELSE "OPERATIONAL",
                          !.targets = {}, !.pending = {}])
  /\ UNCHANGED <<up, wire, sent, busy>>

(* register_fault_propagation: a full table ignores the call.              *)
RegisterTarget(b, p) ==
  LET r == board[b] IN
  /\ p \in Peers(b) \ r.targets
  /\ Cardinality(r.targets) < max_propagation_targets
  /\ Becomes(b, [r EXCEPT !.targets = @ \union {p}])
  /\ UNCHANGED <<up, wire, sent, busy>>

(* start(): the machine enters the state it was built in.  In FAULT that   *)
(* is on_fault_enter; in OPERATIONAL the nested machine is entered.        *)
Start(b) ==
  LET r == board[b] IN
  /\ r.installed /\ ~r.runtime_started
  /\ Becomes(b, IF r.outer = "FAULT"
                  THEN [r EXCEPT !.runtime_started = TRUE, !.entered = @ + 1]
                  ELSE [r EXCEPT !.runtime_started = TRUE, !.at = "enter", !.within = "start"])
  /\ UNCHANGED <<up, wire, sent, busy>>
-----------------------------------------------------------------------------
(* State::exit starts by unregistering the cyclic actions that are on.     *)
StayOn(r) == r.on                             \* Defect: they are left running
SwitchedOff(r) == r.on \ {r.state}

(* perform_state_change of the outer machine, to FAULT: the nested machine *)
(* is left with whatever state it is in, then on_fault_enter runs.  A      *)
(* state change of the nested machine that is under way goes on afterwards.*)
EnterFault(r) ==
  IF r.outer = "FAULT" THEN r
  ELSE [r EXCEPT !.on = SwitchedOff(r), !.outer = "FAULT", !.entered = @ + 1,
                 !.crossed = r.at \in {"predicate", "exit", "enter"}]

(* Defect: a runtime that is not started is left as it was built.          *)
KeepBuilt(r) == r
RebuildAsFault(r) == [r EXCEPT !.outer = "FAULT"]

(* Defect: the controller does not know that it faulted before.            *)
NeverFaulted(r) == FALSE
AlreadyFaulted(r) == r.faulted

(* Defect: a target stays pending although its order was accepted.         *)
OwedAnyway(targets, taken) == targets
Owed(targets, taken) == targets \ taken

(* send_order to each of these connections, w being what was in flight:    *)
(* one that is down refuses.                                               *)
Accepting(b, tried) == {p \in tried : {b, p} \in up}
SendOrders(b, tried, w) ==
  LET taken == {b} \X Accepting(b, tried) IN
  /\ wire' = w \union taken
  /\ sent' = [link \in DOMAIN sent |-> sent[link] + IF link \in taken THEN 1 ELSE 0]

(* request_fault, whoever calls it: only the first one has an effect, and  *)
(* propagate_fault tries every target once.                                *)
request_fault(b, r, cause, w) ==
  LET moved == IF ~r.installed THEN r
               ELSE IF r.runtime_started THEN EnterFault(r) ELSE RebuildAsFault(r)
  IN
  \/ /\ AlreadyFaulted(r)
     /\ Becomes(b, r)
     /\ wire' = w /\ UNCHANGED sent
  \/ /\ ~AlreadyFaulted(r)
     /\ Becomes(b, [moved EXCEPT !.faulted = TRUE, !.cause = cause,
                                 !.pending = Owed(r.targets, Accepting(b, r.targets))])
     /\ SendOrders(b, r.targets, w)

(* FAULT(...), PANIC(...) or a protection, in the main loop, in a callback,*)
(* or in the machine's predicates, exit and enter actions.                 *)
Fault(b, cause) ==
  /\ request_fault(b, board[b], cause, wire)
  /\ UNCHANGED <<up, busy>>
-----------------------------------------------------------------------------
(* FaultController::check_transitions: outside OPERATIONAL the nested      *)
(* machine is not asked.                                                   *)
CheckTransitions(b) ==
  LET r == board[b] IN
  /\ r.at = "idle" /\ r.installed /\ r.runtime_started
  /\ Becomes(b, [r EXCEPT !.at = IF r.outer = "OPERATIONAL" THEN "predicate" ELSE "retry",
                          !.within = "check"])
  /\ UNCHANGED <<up, wire, sent, busy>>

(* No predicate holds, or one does and the machine leaves its state.       *)
Predicates(b) ==
  LET r == board[b] IN
  /\ r.at = "predicate"
  /\ \/ Becomes(b, [r EXCEPT !.at = "retry"])
     \/ \E to \in OpStates \ {r.state} :
          Becomes(b, [r EXCEPT !.at = "exit", !.to = to, !.on = SwitchedOff(r)])
  /\ UNCHANGED <<up, wire, sent, busy>>

(* The exit actions have run.                                              *)
ExitActions(b) ==
  LET r == board[b] IN
  /\ r.at = "exit"
  /\ Becomes(b, [r EXCEPT !.at = "enter", !.state = r.to])
  /\ UNCHANGED <<up, wire, sent, busy>>

(* The enter actions have run and the cyclic actions are registered: all,  *)
(* or none and a PANIC when the scheduler has no slot for one of them.     *)
EnterActions(b) ==
  LET r == board[b]
      left == [r EXCEPT !.at = IF r.within = "check" THEN "retry" ELSE "idle"]
  IN
  /\ r.at = "enter"
  /\ \/ /\ Becomes(b, [left EXCEPT !.on = IF r.state \in Timed THEN @ \union {r.state} ELSE @])
        /\ UNCHANGED <<wire, sent>>
     \/ /\ r.state \in Timed
        /\ request_fault(b, left, "PANIC", wire)
  /\ UNCHANGED <<up, busy>>

(* Defect: the retry is made by the OPERATIONAL state only.                *)
DueInOperational(r) == IF r.outer = "OPERATIONAL" /\ r.retry_due THEN r.pending ELSE {}
DueNow(r) == IF r.faulted /\ r.retry_due THEN r.pending ELSE {}

(* The end of check_transitions: retry_pending_fault_propagation.          *)
Retry(b) ==
  LET r == board[b]
      tried == DueNow(r)
  IN
  /\ r.at = "retry"
  /\ Becomes(b, [r EXCEPT !.at = "idle", !.retry_due = @ /\ ~r.faulted,
                          !.pending = Owed(@, Accepting(b, tried))])
  /\ SendOrders(b, tried, wire)
  /\ UNCHANGED <<up, busy>>

(* The tick moves while the scheduler has a task.                          *)
TickRuns(b) == board[b].on # {} \/ b \in busy

(* The tick reaches last_retry_us + propagation_retry_period_us.           *)
PeriodElapses(b) ==
  /\ ~board[b].retry_due /\ TickRuns(b)
  /\ Becomes(b, [board[b] EXCEPT !.retry_due = TRUE])
  /\ UNCHANGED <<up, wire, sent, busy>>
-----------------------------------------------------------------------------
(* on_fault_order_received: the order has a callback once the board has    *)
(* registered a target; without one it is parsed and ignored.              *)
Arrive(from, to) ==
  /\ <<from, to>> \in wire /\ board[to].at = "idle"
  /\ \/ /\ board[to].targets = {}
        /\ wire' = wire \ {<<from, to>>}
        /\ UNCHANGED <<board, sent>>
     \/ /\ board[to].targets # {}
        /\ request_fault(to, board[to], "RUNTIME_FAULT", wire \ {<<from, to>>})
  /\ UNCHANGED <<up, busy>>

(* A connection is established, or breaks with what it had not delivered.  *)
Connect(link) ==
  /\ link \notin up
  /\ up' = up \union {link}
  /\ UNCHANGED <<board, wire, sent, busy>>

Break(link) ==
  /\ link \in up
  /\ up' = up \ {link}
  /\ wire' = {order \in wire : {order[1], order[2]} # link}
  /\ UNCHANGED <<board, sent, busy>>

(* The application registers a task of its own, or ends its last one.      *)
ApplicationTasks(b) ==
  /\ busy' = IF b \in busy THEN busy \ {b} ELSE busy \union {b}
  /\ UNCHANGED <<board, up, wire, sent>>
-----------------------------------------------------------------------------
Runtime(b) == Install(b) \/ Start(b) \/ (\E p \in Boards : RegisterTarget(b, p))
              \/ (\E cause \in Causes : Fault(b, cause))
Loop(b) == CheckTransitions(b) \/ Predicates(b) \/ ExitActions(b) \/ EnterActions(b) \/ Retry(b)

Next ==
  \/ \E b \in Boards : Runtime(b) \/ Loop(b) \/ PeriodElapses(b) \/ ApplicationTasks(b)
  \/ \E from, to \in Boards : Arrive(from, to)
  \/ \E link \in Links : Connect(link) \/ Break(link)

Spec == Init /\ [][Next]_vars

(* The main loop of a running board polls check_transitions, whose         *)
(* callbacks return; a tick that runs reaches the next retry.  Between two *)
(* polls the loop also handles what the network brought: an order whose    *)
(* connection lasts arrives, although it cannot while the machine is       *)
(* changing state.  Nothing makes the application keep a task.             *)
Fairness ==
  /\ \A b \in Boards : WF_vars(Loop(b)) /\ WF_vars(PeriodElapses(b))
  /\ \A from, to \in Boards : SF_vars(Arrive(from, to))

FairSpec == Spec /\ Fairness
-----------------------------------------------------------------------------
BoardState ==
  [installed : BOOLEAN, runtime_started : BOOLEAN, faulted : BOOLEAN,
   cause : FaultCauseKind \union {"none"},
   outer : {"OPERATIONAL", "FAULT"}, state : OpStates, on : SUBSET OpStates,
   at : {"idle", "predicate", "exit", "enter", "retry"}, to : OpStates,
   within : {"start", "check"}, entered : Nat,
   targets : SUBSET Boards, pending : SUBSET Boards, retry_due : BOOLEAN,
   crossed : BOOLEAN]

TypeOK ==
  /\ board \in [Boards -> BoardState]
  /\ \A b \in Boards : board[b].faulted <=> board[b].cause # "none"
  /\ \A b \in Boards : board[b].pending \subseteq board[b].targets
  /\ up \subseteq Links
  /\ wire \subseteq Boards \X Boards
  /\ sent \in [Boards \X Boards -> Nat]
  /\ busy \subseteq Boards

(* A started board is in FAULT exactly when it has faulted, and has run    *)
(* on_fault_enter exactly once, whether the fault came before              *)
(* install_runtime, before start(), inside start() or later                *)
(* (FaultController.cpp:153: faults caused by start must not rebuild it).  *)
FaultEnteredOnce ==
  \A b \in Boards :
    LET r == board[b] IN
    /\ r.installed => (r.outer = "FAULT" <=> r.faulted)
    /\ r.entered = IF r.runtime_started /\ r.faulted THEN 1 ELSE 0

(* The state of every board and of the network is consistent, and FAULT    *)
(* is one state with one way in.                                           *)
FaultIsEntered == TypeOK /\ FaultEnteredOnce

(* The first cause of a fault is latched for good, across install_runtime  *)
(* and every later fault.                                                  *)
FirstCauseKept ==
  [][\A b \in Boards : board[b].faulted =>
       board'[b].faulted /\ board'[b].cause = board[b].cause]_vars

(* No cyclic action of the application's machine is left registered in     *)
(* FAULT, and in OPERATIONAL none but the current state's.  A fault raised *)
(* in the middle of a state change leaves at most those of the state that  *)
(* the change leads to: StateMachine.hpp:353 registers them afterwards.    *)
OnlyCurrentActionsRun ==
  \A b \in Boards :
    LET r == board[b] IN
    r.on \subseteq IF r.outer = "FAULT" /\ ~r.crossed THEN {} ELSE {r.state}

(* What docs/protections-and-diagnostics.md:201-204 says: the user's       *)
(* machine models operational behaviour only, and PANIC and FAULT in user  *)
(* code take the board out of it.  Its actions do not run in FAULT.        *)
NoActionsInFault ==
  \A b \in Boards : board[b].outer = "FAULT" => board[b].on = {}

(* FAULT orders do not bounce between boards: however often connections    *)
(* break and come back, a board hands its order to each peer at most once, *)
(* and never to a peer it still counts as pending.                         *)
OneOrderPerPeer ==
  \A b, p \in Boards :
    /\ sent[<<b, p>>] <= 1
    /\ p \in board[b].pending => board[b].faulted /\ sent[<<b, p>>] = 0

(* A peer that refused the order gets it accepted once its connection      *)
(* stays up, retry by retry, on a board whose tick does not stop: one that *)
(* keeps a scheduler task.                                                 *)
PendingIsRetried ==
  \A b \in Boards : \A p \in Peers(b) :
    <>[]({b, p} \in up) /\ <>[]TickRuns(b) =>
      (board[b].runtime_started /\ p \in board[b].pending ~> sent[<<b, p>>] = 1)

(* The same of any board, as changeset v6.3.1/fault-propagation-retry has  *)
(* it: retries go on "until the send succeeds".  The code does not keep    *)
(* this (FaultController.cpp:170): TLC refutes it of MCFaults.             *)
RetriesGoOn ==
  \A b \in Boards : \A p \in Peers(b) :
    <>[]({b, p} \in up) =>
      (board[b].runtime_started /\ p \in board[b].pending ~> sent[<<b, p>>] = 1)
=============================================================================
