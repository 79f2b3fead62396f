---------------------------- MODULE Protections ----------------------------
(***************************************************************************)
(* Protections::ProtectionEngine: each call of evaluate reads the source   *)
(* of every protection, judges the sample by the protection's rules,       *)
(* publishes the changes between NORMAL and WARNING to the diagnostics hub *)
(* and, while a rule is in FAULT, asks the FaultController for the global  *)
(* fault, again every notify_delay_in_microseconds.                        *)
(*                                                                         *)
(* A step is one protection's turn in evaluate, short against the tick: its*)
(* rules and its throttle read the same one.  The scheduler's global tick, *)
(* which times the accumulation rules and the repetition of requests,      *)
(* stands still while the scheduler has no task (Scheduler.cpp:211).       *)
(***************************************************************************)
EXTENDS Integers, Sequences, FiniteSets

CONSTANTS
  Declared,            \* the rules of each protection, in declaration order
  Samples,             \* what a source may read
  NaN,                 \* the sample that compares with nothing
  None,                \* an optional threshold that is absent
  notify_delay,
  events_capacity      \* Config::max_rules_per_protection

ASSUME ProtectionsAssumption ==
  /\ NaN \notin Int /\ None \notin Int
  /\ Samples \subseteq Int \union {NaN}
  /\ notify_delay \in Nat \ {0} /\ events_capacity \in Nat

(* The rules, as the factories of Rules make them: a threshold that a kind *)
(* does not have is None.                                                  *)
Rule(kind) ==
  [kind |-> kind, low_fault |-> None, high_fault |-> None, low_warning |-> None,
   high_warning |-> None, expected |-> None, window |-> 1]

below(fault, warning) == [Rule("BELOW") EXCEPT !.low_fault = fault, !.low_warning = warning]
above(fault, warning) == [Rule("ABOVE") EXCEPT !.high_fault = fault, !.high_warning = warning]
range(low_fault, high_fault, low_warning, high_warning) ==
  [Rule("RANGE") EXCEPT !.low_fault = low_fault, !.high_fault = high_fault,
                        !.low_warning = low_warning, !.high_warning = high_warning]
equals(value) == [Rule("EQUALS") EXCEPT !.expected = value]
not_equals(value) == [Rule("NOT_EQUALS") EXCEPT !.expected = value]
time_accumulation(fault, warning, window) ==
  [Rule("TIME_ACCUMULATION") EXCEPT !.high_fault = fault, !.high_warning = warning,
                                    !.window = window]

(* The factories refuse a warning threshold behind the fault threshold.    *)
InOrder(low, high) == low # None /\ high # None => low <= high
Valid(rule) ==
  /\ InOrder(rule.low_fault, rule.low_warning) /\ InOrder(rule.high_warning, rule.high_fault)
  /\ InOrder(rule.low_warning, rule.high_warning) /\ InOrder(rule.low_fault, rule.high_fault)
  /\ rule.window \in Nat \ {0}

Threshold == Int \union {None}
RuleKind == {"BELOW", "ABOVE", "RANGE", "EQUALS", "NOT_EQUALS", "TIME_ACCUMULATION"}
RuleDefinition ==
  [kind : RuleKind, low_fault : Threshold, high_fault : Threshold, low_warning : Threshold,
   high_warning : Threshold, expected : Threshold, window : Nat]

ASSUME RulesAssumption ==
  /\ Declared \in Seq(Seq(RuleDefinition)) /\ Declared # <<>>
  /\ \A p \in DOMAIN Declared : \A i \in DOMAIN Declared[p] : Valid(Declared[p][i])

RuleState == {"NORMAL", "WARNING", "FAULT"}
RuleEdge == {"NONE", "WARNING_RAISED", "FAULT_RAISED", "RECOVERED"}
Never == -1
Prots == DOMAIN Declared
RulesOf(p) == DOMAIN Declared[p]

VARIABLES
  now,                \* time, in microseconds
  tick,               \* what Scheduler::get_global_tick returns
  turn,               \* the protection evaluate comes to next
  rules,              \* per protection and rule, what the rule remembers
  last_fault_publish_tick,
  faulted,            \* the FaultController has been asked for the fault
  told,               \* the state of each rule as the hub was last told
  forgotten,          \* the rule started over when the hub held another state of it
  requested,          \* the tick of each protection's last request, or Never
  read_at,            \* the time and the tick of each protection's last reading
  since,              \* the time of the first of the samples above, or Never
  since_tick,         \* its tick
  cleared             \* the tick of the last sample not above, or of the first sample

clock == <<now, tick>>
histories == <<told, forgotten, requested, read_at, since, since_tick, cleared>>
protVars == <<clock, turn, rules, last_fault_publish_tick, faulted, histories>>

NewRule ==
  [last_state |-> "NORMAL", has_last_tick |-> FALSE, last_tick_us |-> 0,
   warning_active_time_us |-> 0, fault_active_time_us |-> 0]

ForEachRule(value) == [p \in Prots |-> [i \in RulesOf(p) |-> value]]

ProtInit ==
  /\ now = 0 /\ tick = 0
  /\ turn = 1
  /\ rules = ForEachRule(NewRule)
  /\ last_fault_publish_tick = [p \in Prots |-> 0]
  /\ faulted = FALSE
  /\ told = ForEachRule("NORMAL") /\ forgotten = ForEachRule(FALSE)
  /\ requested = [p \in Prots |-> Never]
  /\ read_at = [p \in Prots |-> [now |-> 0, tick |-> 0]]
  /\ since = ForEachRule(Never) /\ since_tick = ForEachRule(Never)
  /\ cleared = ForEachRule(Never)
-----------------------------------------------------------------------------
(* Judging a sample. *)

Below(sample, threshold) == sample # NaN /\ threshold # None /\ sample < threshold
Above(sample, threshold) == sample # NaN /\ threshold # None /\ sample > threshold
Equal(sample, value) == sample # NaN /\ sample = value

Magnitude(sample) == IF sample # NaN /\ sample < 0 THEN -sample ELSE sample

(* The state of a rule that looks at the sample alone.                     *)
Compare(rule, sample) ==
  IF \/ Below(sample, rule.low_fault) \/ Above(sample, rule.high_fault)
     \/ rule.kind = "EQUALS" /\ Equal(sample, rule.expected)
     \/ rule.kind = "NOT_EQUALS" /\ ~Equal(sample, rule.expected)
    THEN "FAULT"
  ELSE IF /\ rule.kind = "RANGE" => rule.low_warning # None /\ rule.high_warning # None
          /\ Below(sample, rule.low_warning) \/ Above(sample, rule.high_warning)
    THEN "WARNING"
  ELSE "NORMAL"

(* Time accumulation: the time since the last evaluation counts in full    *)
(* when the sample is above the threshold now.                             *)
Accumulated(time, active, elapsed) == IF active THEN time + elapsed ELSE 0

Accumulate(rule, r, sample) ==
  LET elapsed == IF r.has_last_tick THEN tick - r.last_tick_us ELSE 0
      magnitude == Magnitude(sample)
  IN
  [r EXCEPT
    !.has_last_tick = TRUE, !.last_tick_us = tick,
    !.fault_active_time_us = Accumulated(@, Above(magnitude, rule.high_fault), elapsed),
    !.warning_active_time_us = Accumulated(@, Above(magnitude, rule.high_warning), elapsed)]

Beyond(time, rule) == time > rule.window           \* Defect: off by one
Reached(time, rule) == time >= rule.window

AccumulatedState(rule, r) ==
  IF Reached(r.fault_active_time_us, rule) THEN "FAULT"
  ELSE IF rule.high_warning # None /\ Reached(r.warning_active_time_us, rule) THEN "WARNING"
  ELSE "NORMAL"

(* A rule's evaluate: what it remembers, its new state with it.            *)
Evaluate(rule, r, sample) ==
  IF rule.kind = "TIME_ACCUMULATION"
    THEN LET next == Accumulate(rule, r, sample) IN
         [next EXCEPT !.last_state = AccumulatedState(rule, next)]
    ELSE [r EXCEPT !.last_state = Compare(rule, sample)]

(* RuleStateTracker::advance.                                              *)
OnlyUp(last, current) ==                           \* Defect: no edge on the way down
  IF current = last \/ last = "FAULT" THEN "NONE"
  ELSE IF current = "NORMAL" THEN "RECOVERED"
  ELSE IF current = "WARNING" THEN "WARNING_RAISED" ELSE "FAULT_RAISED"

Advance(last, current) ==
  IF current = last THEN "NONE"
  ELSE IF current = "NORMAL" THEN "RECOVERED"
  ELSE IF current = "WARNING" THEN "WARNING_RAISED" ELSE "FAULT_RAISED"
-----------------------------------------------------------------------------
(* evaluate_one: the events go to the hub unless they are faults; the array*)
(* of events holds events_capacity of them.                                *)
PublishEdgeEvents(p, judged) ==
  LET edge(i) == Advance(rules[p][i].last_state, judged[i].last_state)
      before(i) == {j \in RulesOf(p) : j < i /\ edge(j) # "NONE"}
      published == {i \in RulesOf(p) : /\ edge(i) # "NONE"
                                       /\ Cardinality(before(i)) < events_capacity
                                       /\ judged[i].last_state # "FAULT"}
  IN
  /\ told' = [told EXCEPT ![p] = [i \in RulesOf(p) |->
                IF i \in published THEN judged[i].last_state ELSE @[i]]]
  /\ forgotten' = [forgotten EXCEPT ![p] = [i \in RulesOf(p) |-> @[i] /\ i \notin published]]

(* request_fault_if_due: tick 0 stands for no request yet.                 *)
Always(p) == TRUE                                  \* Defect: not throttled
Due(p) == last_fault_publish_tick[p] = 0 \/ tick - last_fault_publish_tick[p] >= notify_delay

Touch(p) == tick                                   \* Defect: a throttled request counts
Mark(p) == IF Due(p) THEN tick ELSE last_fault_publish_tick[p]

RequestFaultIfDue(p, judged) ==
  IF \E i \in RulesOf(p) : judged[i].last_state = "FAULT"
    THEN /\ last_fault_publish_tick' = [last_fault_publish_tick EXCEPT ![p] = Mark(p)]
         /\ faulted' = (faulted \/ Due(p))
         /\ requested' = [requested EXCEPT ![p] = IF Due(p) THEN tick ELSE @]
    ELSE UNCHANGED <<last_fault_publish_tick, faulted, requested>>

(* When the samples that the accumulation rules have read went above.      *)
ObserveAbove(p, sample) ==
  LET above_now(i) == Above(Magnitude(sample), Declared[p][i].high_fault)
      timed(i) == Declared[p][i].kind = "TIME_ACCUMULATION"
  IN
  /\ read_at' = [read_at EXCEPT ![p] = [now |-> now, tick |-> tick]]
  /\ since' = [since EXCEPT ![p] = [i \in RulesOf(p) |->
        IF ~timed(i) \/ ~above_now(i) THEN Never ELSE IF @[i] = Never THEN now ELSE @[i]]]
  /\ since_tick' = [since_tick EXCEPT ![p] = [i \in RulesOf(p) |->
        IF ~timed(i) \/ ~above_now(i) THEN Never ELSE IF @[i] = Never THEN tick ELSE @[i]]]
  /\ cleared' = [cleared EXCEPT ![p] = [i \in RulesOf(p) |->
        IF ~timed(i) THEN Never ELSE IF above_now(i) /\ @[i] # Never THEN @[i] ELSE tick]]

NextTurn(p) == IF p = Len(Declared) THEN 1 ELSE p + 1

EvaluateOne(p, sample) ==
  LET judged == [i \in RulesOf(p) |-> Evaluate(Declared[p][i], rules[p][i], sample)] IN
  /\ turn = p
  /\ turn' = NextTurn(p)
  /\ rules' = [rules EXCEPT ![p] = judged]
  /\ PublishEdgeEvents(p, judged)
  /\ RequestFaultIfDue(p, judged)
  /\ ObserveAbove(p, sample)
  /\ UNCHANGED clock

(* reset(), between two calls of evaluate: the rules start over, and the   *)
(* hub, which is not told, keeps what it holds of them.                    *)
Reset ==
  /\ turn = 1
  /\ rules' = ForEachRule(NewRule)
  /\ last_fault_publish_tick' = [p \in Prots |-> 0]
  /\ forgotten' = [p \in Prots |-> [i \in RulesOf(p) |-> told[p][i] # "NORMAL"]]
  /\ requested' = [p \in Prots |-> Never]
  /\ since' = ForEachRule(Never) /\ since_tick' = ForEachRule(Never)
  /\ cleared' = ForEachRule(Never)
  /\ UNCHANGED <<clock, turn, faulted, told, read_at>>

(* Time passes, and the tick counts it, except while the scheduler has no  *)
(* task: schedule_next_interval then disables the timer.                   *)
Elapse(time) ==
  /\ now' = now + time
  /\ tick' \in {tick, tick + time}
  /\ UNCHANGED <<turn, rules, last_fault_publish_tick, faulted, histories>>

ProtNext ==
  \/ \E p \in Prots, sample \in Samples : EvaluateOne(p, sample)
  \/ Reset
  \/ \E time \in Nat \ {0} : Elapse(time)

ProtSpec == ProtInit /\ [][ProtNext]_protVars
-----------------------------------------------------------------------------
RuleMemory ==
  [last_state : RuleState, has_last_tick : BOOLEAN, last_tick_us : Nat,
   warning_active_time_us : Nat, fault_active_time_us : Nat]

PerRule(S, f) == DOMAIN f = Prots /\ \A p \in Prots : f[p] \in [RulesOf(p) -> S]

ProtTypeOK ==
  /\ now \in Nat /\ tick \in 0..now
  /\ turn \in Prots
  /\ PerRule(RuleMemory, rules)
  /\ last_fault_publish_tick \in [Prots -> 0..tick]
  /\ faulted \in BOOLEAN
  /\ PerRule({"NORMAL", "WARNING"}, told) /\ PerRule(BOOLEAN, forgotten)
  /\ requested \in [Prots -> {Never} \union 0..tick]
  /\ read_at \in [Prots -> [now : 0..now, tick : 0..tick]]
  /\ PerRule({Never} \union Nat, since) /\ PerRule({Never} \union Nat, since_tick)
  /\ PerRule({Never} \union Nat, cleared)

InFault(p) == \E i \in RulesOf(p) : rules[p][i].last_state = "FAULT"

(* No fault of a rule is kept from the FaultController by the throttle:    *)
(* not the first one at an early tick, not one after a reset.              *)
FaultIsLatched == \A p \in Prots : InFault(p) => faulted

(* A protection last found in FAULT had then been reported less than       *)
(* notify_delay before, however often the fault had gone and come back     *)
(* ("throttles repeated fault notifications",                              *)
(* docs/protections-and-diagnostics.md).                                   *)
FaultStaysReported ==
  \A p \in Prots : InFault(p) =>
    requested[p] # Never /\ read_at[p].tick - requested[p] < notify_delay

(* Repeated requests of one protection are notify_delay apart, except that *)
(* a request at tick 0 does not delay the next one.                        *)
RequestsAreSpaced ==
  [][\A p \in Prots :
        requested'[p] # requested[p] /\ requested[p] > 0 /\ requested'[p] # Never =>
          requested'[p] - requested[p] >= notify_delay]_protVars

(* What the hub was last told of a rule is its state.                      *)
Agrees(p, i) ==
  rules[p][i].last_state # "FAULT" /\ ~forgotten[p][i] => told[p][i] = rules[p][i].last_state

(* No edge of a protection whose rules fit its array of events is lost on  *)
(* the way through FAULT: the hub knows every rule's state while that is   *)
(* not FAULT, unless reset() started the rule over behind the hub's back.  *)
HubKnowsState ==
  \A p \in Prots : Len(Declared[p]) <= events_capacity => \A i \in RulesOf(p) : Agrees(p, i)

(* The same of protections with any number of rules: evaluate "publishes   *)
(* non-fatal rule edges" (docs/protections-and-diagnostics.md:361).  The   *)
(* code does not keep this (Protection.hpp:517): TLC refutes it of MCFaults*)
(* with room for one event.                                                *)
EveryEdgeIsPublished == \A p \in Prots : \A i \in RulesOf(p) : Agrees(p, i)

(* A fault of accumulated time: every sample since the rule's first above  *)
(* the threshold was, and the last one that was not, or the first of all,  *)
(* is a window of ticks back.  The samples may have gone above anywhere    *)
(* between these two: the code counts from the earlier one.                *)
TimedFault(p, i) ==
  Declared[p][i].kind = "TIME_ACCUMULATION" /\ rules[p][i].last_state = "FAULT"

FaultIsEarned ==
  \A p \in Prots : \A i \in RulesOf(p) : TimedFault(p, i) =>
    since_tick[p][i] # Never /\ read_at[p].tick - cleared[p][i] >= Declared[p][i].window

(* What the docs say, "continuous active time" (:106): the samples above   *)
(* the threshold themselves go back as far as the window.  The code does   *)
(* not keep this (Protection.hpp:205): TLC refutes it of MCFaults.         *)
FaultTakesTheWindow ==
  \A p \in Prots : \A i \in RulesOf(p) : TimedFault(p, i) =>
    since_tick[p][i] # Never /\ read_at[p].tick - since_tick[p][i] >= Declared[p][i].window

(* In time, the samples above the threshold, up to the last one read, go   *)
(* back as far as the window; the tick has counted all of that time.       *)
Lasted(p, i) ==
  since_tick[p][i] # Never /\ read_at[p].now - since[p][i] >= Declared[p][i].window

TickRan(p, i) == read_at[p].now - since[p][i] = read_at[p].tick - since_tick[p][i]

(* A run of samples above the threshold that lasts for the window while    *)
(* the tick runs is a fault, at any rate of evaluation.                    *)
LongEnoughIsFault ==
  \A p \in Prots : \A i \in RulesOf(p) :
    Lasted(p, i) /\ TickRan(p, i) => rules[p][i].last_state = "FAULT"

(* What the docs say, "to measure real elapsed time" (:355): whatever the  *)
(* scheduler's timer does.  The code does not keep this (Scheduler.cpp:211)*)
(* and TLC refutes it of MCFaults.                                         *)
RealTimeIsMeasured ==
  \A p \in Prots : \A i \in RulesOf(p) : Lasted(p, i) => rules[p][i].last_state = "FAULT"

(* A fault that a protection sees is passed on, at once and again while it *)
(* lasts (ProtectionEngine.hpp:227).                                       *)
FaultsAreReported == ProtTypeOK /\ FaultIsLatched /\ FaultStaysReported

(* Accumulation judges by time to the precision of its samples: enough of  *)
(* it is a fault, and a fault has had enough of it (Protection.hpp:205).   *)
TimeIsMeasured == LongEnoughIsFault /\ FaultIsEarned
=============================================================================
