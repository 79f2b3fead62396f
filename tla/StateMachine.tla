----------------------------- MODULE StateMachine -----------------------------
(* Machines of states with cyclic actions, nested in states of one another      *)
(* (src/Inc/ST-LIB_LOW/StateMachine/StateMachine.hpp), over the task slots of   *)
(* the scheduler, which others use as well.  Only the main loop calls them; what *)
(* user code raises in the middle of a change is modelled in FaultController.   *)
EXTENDS Naturals, FiniteSets, FiniteSetsExt, SequencesExt

CONSTANTS
    Declared,        \* machine |-> its states as written: [id, targets, actions]
    Root,            \* the machine the program starts and polls
    NestedIn,        \* every other machine |-> <<the machine, the state>> it is bound to
    kMaxTasks,       \* slots of the scheduler (16)
    TooLong,         \* actions of a period register_task refuses
    MaxRemoved       \* bound: actions removed at run time

VARIABLES
    sm               \* machines, timed actions and the scheduler's slots

Machines == DOMAIN Declared
Actions  == UNION {UNION {Range(d.actions) : d \in Range(Declared[m])} : m \in Machines}
NoTask   == "free"
Others   == "other"
INVALID_ID == 2 * kMaxTasks
TaskIds  == 0 .. kMaxTasks - 1

-----------------------------------------------------------------------------
(* The constructors, at compile time: no state is a target of its own, states   *)
(* are numbered from 0 without a gap, and a state has one nested machine.       *)
Compiles ==
    /\ \A m \in Machines :
          /\ \A d \in Range(Declared[m]) : d.id \notin Range(d.targets)
          /\ {d.id : d \in Range(Declared[m])} = 0 .. Len(Declared[m]) - 1
    /\ \A m, n \in DOMAIN NestedIn : NestedIn[m] = NestedIn[n] => m = n

(* The states in order, the transitions in one array, and each state's part.    *)
states(m)      == [i \in 0 .. Len(Declared[m]) - 1 |-> CHOOSE d \in Range(Declared[m]) : d.id = i]
transitions(m) == FlattenSeq([i \in 1 .. Len(Declared[m]) |-> states(m)[i - 1].targets])
transitions_assoc(m, s) ==
    <<Len(FlattenSeq([i \in 1 .. s |-> states(m)[i - 1].targets])), Len(states(m)[s].targets)>>

Nested(m, s) == {n \in DOMAIN NestedIn : NestedIn[n] = <<m, s>>}

SmInit ==
    /\ Compiles
    /\ sm = [current      |-> [m \in Machines |-> 0],
             called_start |-> [m \in Machines |-> FALSE],
             on           |-> {},                                \* actions whose is_on is set
             id           |-> [a \in Actions |-> INVALID_ID],
             removed      |-> {},                                \* slots of an empty TimedAction
             tasks        |-> [i \in TaskIds |-> NoTask],
             panics       |-> {}]

-----------------------------------------------------------------------------
(* Scheduler::register_task and unregister_task, as far as slots go.  The id of   *)
(* an action that is off is never read; here it is INVALID_ID.                *)
register_task(x, a) ==
    LET free == {i \in TaskIds : x.tasks[i] = NoTask}
        id   == IF a \in TooLong \/ free = {} THEN INVALID_ID ELSE Min(free)
    IN  [x EXCEPT !.id[a] = id, !.tasks = IF id = INVALID_ID THEN @ ELSE [@ EXCEPT ![id] = a]]

unregister_task(x, a) ==
    [x EXCEPT !.on = @ \ {a}, !.id[a] = INVALID_ID,
              !.tasks = IF x.id[a] \in TaskIds THEN [@ EXCEPT ![x.id[a]] = NoTask] ELSE @]

unregister_all_timed_actions(x, d) ==
    FoldLeft(LAMBDA y, a : IF a \in y.on \ y.removed THEN unregister_task(y, a) ELSE y,
             x, d.actions)

(* Defect: those before it stay.                                              *)
register_what_fits(x, d) ==
    FoldLeft(LAMBDA y, a : LET z == register_task(y, a)
                           IN  IF a \in y.removed THEN y
                               ELSE IF z.id[a] = INVALID_ID THEN [z EXCEPT !.panics = {"no slot"}]
                               ELSE [z EXCEPT !.on = @ \cup {a}], x, d.actions)

(* The first action that gets no slot takes those before it with it.           *)
register_all_timed_actions(x, d) ==
    LET Register(r, i) ==
          LET a == d.actions[i]
              y == register_task(r.x, a)
              before == [d EXCEPT !.actions = SubSeq(@, 1, i - 1)]
          IN  IF r.failed \/ a \in r.x.removed THEN r
              ELSE IF y.id[a] = INVALID_ID
              THEN [failed |-> TRUE,
                    x |-> [unregister_all_timed_actions(y, before) EXCEPT !.panics = {"no slot"}]]
              ELSE [failed |-> FALSE, x |-> [y EXCEPT !.on = @ \cup {a}]]
    IN  FoldLeftDomain(Register, [failed |-> FALSE, x |-> x], d.actions).x

StateOf(x, m) == states(m)[x.current[m]]
enter(x, m)   == register_all_timed_actions(x, StateOf(x, m))
exit(x, m)    == unregister_all_timed_actions(x, StateOf(x, m))

(* A machine's own state and the machine bound to it, but not what is bound to  *)
(* that one's state in turn.                                                  *)
WithNested(Op(_, _), x, m) ==
    FoldSet(LAMBDA n, y : Op(y, n), Op(x, m), Nested(m, x.current[m]))

perform_state_change(x, m, new) ==
    IF x.current[m] = new THEN x
    ELSE WithNested(enter, [WithNested(exit, x, m) EXCEPT !.current[m] = new], m)

(* start: nested machines that are bound to the current states are started, and *)
(* every other machine bound to one of them may be polled from now on.         *)
RECURSIVE start(_, _)
start(x, m) ==
    LET y == FoldSet(LAMBDA n, z : start(z, n),
                     enter([x EXCEPT !.called_start[m] = TRUE], m), Nested(m, x.current[m]))
    IN  [y EXCEPT !.called_start = [n \in Machines |-> @[n] \/ \E s \in 0 .. Len(Declared[m]) - 1 :
                                                                 n \in Nested(m, s)]]

(* check_transitions: the first transition of the current state that holds,     *)
(* counted within the state's part, then the nested machine of what is current. *)
RECURSIVE check_transitions(_, _, _)
check_transitions(x, m, holds) ==
    IF ~x.called_start[m] THEN [x EXCEPT !.panics = {"not started"}]
    ELSE LET part == transitions_assoc(m, x.current[m])
             y == IF holds[m] = 0 THEN x
                  ELSE perform_state_change(x, m, transitions(m)[part[1] + holds[m]])
         IN  FoldSet(LAMBDA n, z : check_transitions(z, n, holds), y, Nested(m, y.current[m]))

-----------------------------------------------------------------------------
Quiet == [sm EXCEPT !.panics = {}]

Start == ~sm.called_start[Root] /\ sm' = start(Quiet, Root)

(* The predicates answer anything: 0 is none.                                  *)
CheckTransitions ==
    \E holds \in [Machines -> 0 .. 2] :
        /\ \A m \in Machines : holds[m] <= Len(StateOf(sm, m).targets)
        /\ sm' = check_transitions(Quiet, Root, holds)

(* force_change_state, which FaultController calls once the machine runs.         *)
ForceChangeState == sm.called_start[Root] /\ \E s \in 0 .. Len(Declared[Root]) - 1 :
                        sm' = perform_state_change(Quiet, Root, s)

remove_cyclic_action ==
    /\ Cardinality(sm.removed) < MaxRemoved
    /\ \E a \in Actions \ sm.removed :
        sm' = [(IF a \in sm.on THEN unregister_task(Quiet, a) ELSE Quiet) EXCEPT !.removed = @ \cup {a}]

(* Another part of the program registers a task or unregisters its own.         *)
OtherTask ==
    \E i \in TaskIds :
        \/ sm.tasks[i] = NoTask /\ sm' = [Quiet EXCEPT !.tasks[i] = Others]
        \/ sm.tasks[i] = Others /\ sm' = [Quiet EXCEPT !.tasks[i] = NoTask]

SmNext == Start \/ CheckTransitions \/ ForceChangeState \/ remove_cyclic_action \/ OtherTask
=============================================================================
