------------------------------ MODULE MCFaults ------------------------------
(***************************************************************************)
(* Instances of FaultController and of Protections, which share no state:  *)
(* the initial state picks one, the other stays put.                       *)
(*                                                                         *)
(* The fault runtime: two or three boards in a star.  Every connection     *)
(* breaks at most MaxBreaks times in a behaviour.  The boards run the same *)
(* code, so what one of them may do shows what all may: on the boards of   *)
(* Erratic the machine's predicates and actions raise faults and the       *)
(* application registers and ends tasks of its own, on the others faults   *)
(* come between state changes and the machine's tasks are the only ones.   *)
(*                                                                         *)
(* The protections end at MaxTime: one by limits and by accumulated time,  *)
(* and one by value and by a single limit.                                 *)
(***************************************************************************)
EXTENDS FaultController, Protections

CONSTANTS MaxBreaks, Erratic, MaxTime, MaxElapse, Running

ASSUME Running \subseteq {"runtime", "protections"}

VARIABLES
  focus,           \* the part this behaviour is about
  breaks           \* connections broken so far

RangeAndTime == <<range(0, 3, 1, 2), time_accumulation(2, 1, 2)>>
LimitAndValue == <<below(1, 2), equals(2)>>

AllSamples == {-2, 0, 2, 3, NaN}
TwoProtections == <<RangeAndTime, LimitAndValue>>

MCInit == Init /\ ProtInit /\ breaks = 0 /\ focus \in Running

LocalFault(b) == \E cause \in Causes : Fault(b, cause)

RuntimeNext ==
  \/ /\ \/ \E b \in Boards : \/ Install(b) \/ Start(b) \/ (\E p \in Boards : RegisterTarget(b, p))
                             \/ (b \in Erratic \/ board[b].at = "idle") /\ LocalFault(b)
                             \/ b \in Erratic /\ ApplicationTasks(b)
                             \/ Loop(b) \/ PeriodElapses(b)
        \/ \E from, to \in Boards : Arrive(from, to)
        \/ \E link \in Links : Connect(link)
     /\ UNCHANGED breaks
  \/ /\ breaks < MaxBreaks /\ breaks' = breaks + 1
     /\ \E link \in Links : Break(link)

ProtectionsNext ==
  \/ \E p \in Prots, sample \in Samples : EvaluateOne(p, sample)
  \/ Reset
  \/ \E time \in 1..MaxElapse : now + time <= MaxTime /\ Elapse(time)

MCNext ==
  /\ UNCHANGED focus
  /\ \/ focus = "runtime" /\ RuntimeNext /\ UNCHANGED protVars
     \/ focus = "protections" /\ ProtectionsNext /\ UNCHANGED <<vars, breaks>>

MCSpec == MCInit /\ [][MCNext]_<<vars, protVars, breaks, focus>> /\ Fairness
=============================================================================
