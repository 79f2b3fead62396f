---------------------------- MODULE MCScheduler ----------------------------
(***************************************************************************)
(* Model-checking instances of Scheduler.  Clients make at most MaxCalls   *)
(* API calls in a behaviour; update(), the interrupt and the counter go on *)
(* for ever.  A queue that a client has broken is followed further only if *)
(* FollowBroken.  The counter asks for the interrupt at most MaxLost times *)
(* while main context holds a tick it has loaded and not stored: more would*)
(* wrap the small tick here.                                               *)
(***************************************************************************)
EXTENDS Scheduler

CONSTANTS MaxCalls, MaxLost, FollowBroken

VARIABLES
  calls,         \* API calls made so far
  lost           \* interrupts asked for while a loaded tick was held

MCInit == Init /\ calls = 0 /\ lost = 0

Followed == FollowBroken \/ ~broken

AsksInHold == step = "store" /\ Tick /\ tim'.UIF /\ ~tim.UIF

MCNext ==
  \/ /\ Followed /\ calls < MaxCalls /\ calls' = calls + 1 /\ Client
     /\ UNCHANGED lost
  \/ /\ Followed /\ (Call \/ Update \/ Isr \/ Tick)
     /\ lost' = IF AsksInHold THEN lost + 1 ELSE lost
     /\ AsksInHold => lost < MaxLost
     /\ UNCHANGED calls
  \/ ~Followed /\ UNCHANGED <<vars, calls, lost>>

MCSpec == MCInit /\ [][MCNext]_<<vars, calls, lost>>

MCFairSpec == MCSpec /\ Fairness
=============================================================================
