-------------------------- MODULE MCDiagnosticsHub --------------------------
(***************************************************************************)
(* Instances of DiagnosticsHub with at most MaxRecords records, at most    *)
(* MaxToggles changes of what the sinks accept and MaxStops stops of the   *)
(* scheduler's timer.  A hub that was interrupted is followed further only *)
(* where the run is about it.                                              *)
(***************************************************************************)
EXTENDS DiagnosticsHub

CONSTANTS MaxRecords, MaxToggles, MaxStops, FollowInterrupted

VARIABLES toggles, stops

MCInit == Init /\ toggles = 0 /\ stops = 0

Followed == FollowInterrupted \/ ~interrupted

MCNext ==
  \/ /\ Followed
     /\ \/ \E c \in Contexts : Run(c)
        \/ \E c \in Contexts, priority \in DiagnosticPriority :
             published < MaxRecords /\ Publish(c, priority)
        \/ EmplaceSink \/ ReplayHistory \/ Flush
        \/ StartTicking \/ \E level \in DiagnosticPriority : Elapse(level)
     /\ UNCHANGED <<toggles, stops>>
  \/ /\ Followed /\ (running => stops < MaxStops) /\ stops' = IF running THEN stops + 1 ELSE stops
     /\ TimerToggles /\ UNCHANGED toggles
  \/ /\ Followed /\ toggles < MaxToggles /\ toggles' = toggles + 1
     /\ \E s \in AllSinks : Toggle(s)
     /\ UNCHANGED stops
  \/ ~Followed /\ UNCHANGED <<vars, toggles, stops>>

MCSpec == MCInit /\ [][MCNext]_<<vars, toggles, stops>> /\ Fairness
=============================================================================
