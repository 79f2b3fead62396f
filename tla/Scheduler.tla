----------------------------- MODULE Scheduler -----------------------------
(***************************************************************************)
(* The cooperative scheduler of Services/Time/Scheduler: up to kMaxTasks   *)
(* periodic tasks and one-shot timeouts, driven by the update interrupt of *)
(* one hardware timer, run by update() from the main loop.                 *)
(*                                                                         *)
(* Two actors share the state: the main context (application code, update, *)
(* callbacks and the API calls they make) and the timer's interrupt, which *)
(* preempts the main context at every step at which it is not masked.  The *)
(* steps of a call are split where the interrupt or the counter can change *)
(* what the code reads next; schedule_next_interval() ends the caller's    *)
(* masked region in its middle because NVIC masking does not nest.         *)
(*                                                                         *)
(* Clients can break the queue in two ways: end a one-shot that has fired  *)
(* in slot 0, and register from a callback that has ended its own task.    *)
(* `broken` notes that one of them has, and what is claimed of the queue is*)
(* claimed until then.  TLC refutes QueueSound and TasksKept of what comes *)
(* after (MCScheduler with FollowBroken = TRUE).                           *)
(*                                                                         *)
(* 32-bit ticks are counted modulo TickRange, 16-bit task ids modulo       *)
(* IdRange.  A callback is not data here: it is whatever the main context  *)
(* does while pc = "callback".                                             *)
(*                                                                         *)
(* A definition whose comment starts with "Defect" is not used here: it is *)
(* the mistake that the definition after it avoids, and replacing the one  *)
(* by the other must make a property fail.                                 *)
(***************************************************************************)
EXTENDS IdQueue, FiniteSets

CONSTANTS
  TickRange,     \* 2^32: range of next_fire_us, of the counter, of diffs
  CountRange,    \* 2^32: range of active_task_count_
  IdRange,       \* 2^16: range of a task id and of timeout_idx_
  Periods,       \* the periods clients register tasks with
  Delays,        \* the delays they ask timeouts for
  MaxLatency     \* how many us the processor may leave the timer unattended

ASSUME RangeAssumption ==
  /\ TickRange \in Nat /\ TickRange > 3 /\ TickRange % 2 = 0
  /\ CountRange \in Nat /\ CountRange > kMaxTasks
  /\ IdRange \in Nat /\ IdRange > 0 /\ IdRange % (2 * kMaxTasks) = 0
  /\ Periods \subseteq Nat /\ Delays \subseteq Nat
  /\ MaxLatency \in Nat

INVALID_ID == 2 * kMaxTasks
Ticks == 0..(TickRange - 1)

VARIABLES
  next_fire_us, period_us, repeating, task_id, \* tasks_, field by field
  sorted_task_ids_, active_task_count_,        \* the queue
  ready_bitmap_, free_bitmap_,                 \* as sets of slots
  global_tick_us_, current_interval_us_, timeout_idx_, failing_id,
  tim,           \* the timer: CEN, CNT, ARR and the UIF flag
  irq_enabled,   \* the timer's interrupt is enabled in the NVIC
  isr,           \* "none", or "pop" while on_timer_update runs
  pc,            \* main: "app", "warned", "update" or "callback"
  step,          \* progress of the API call main is in, "none" outside
  op,            \* the slot that call works on
  diff,          \* local of schedule_next_interval
  cnt_temp,      \* its other local, then the sum that goes to the tick
  running,       \* the slot whose callback update() is in
  broken         \* history: a client has done one of the two things above

tasks == <<next_fire_us, period_us, repeating, task_id>>
queue == <<sorted_task_ids_, active_task_count_>>
clock == <<global_tick_us_, current_interval_us_>>
main == <<pc, running>>
call == <<step, op, diff, cnt_temp>>
vars == <<tasks, queue, ready_bitmap_, free_bitmap_, clock, timeout_idx_,
          failing_id, tim, irq_enabled, isr, main, call, broken>>

-----------------------------------------------------------------------------
(* Arithmetic of ticks: sums wrap, a difference is read as int32_t.        *)
Wrap(x) == x % TickRange
Signed(x) == IF Wrap(x) < TickRange \div 2 THEN Wrap(x) ELSE Wrap(x) - TickRange
Abs(x) == IF x < 0 THEN 0 - x ELSE x

(* How far ahead of the tick the front task's deadline is.                 *)
Ahead(fire, ids, tick) == Signed(fire[ids[0]] - tick)

(* Defect: deadlines are compared as unsigned numbers.                     *)
UnsignedBoundary(fire, ids, n, when, pos) ==
  /\ pos > 0 => when >= fire[ids[pos - 1]]
  /\ pos < n => when < fire[ids[pos]]

(* Where the binary search of insert_sorted may end for a task that fires  *)
(* at `when`: right of an entry that is not later, left of one that is.    *)
(* In a sorted queue there is exactly one such place.                      *)
Boundary(fire, ids, n, when, pos) ==
  /\ pos > 0 => Signed(when - fire[ids[pos - 1]]) >= 0
  /\ pos < n => Signed(when - fire[ids[pos]]) < 0

MainCanStep == isr = "none" /\ ~(tim.UIF /\ irq_enabled)
InClient == MainCanStep /\ step = "none" /\ pc \in {"app", "callback"}

global_timer_enable(t) == [t EXCEPT !.CEN = TRUE]
global_timer_disable(t) == [t EXCEPT !.CEN = FALSE]

(* The call returns; its locals are gone.                                  *)
CallEnds == step' = "none" /\ op' = 0 /\ diff' = 0 /\ cnt_temp' = 0

-----------------------------------------------------------------------------
Init ==
  /\ next_fire_us = [s \in Slots |-> 0]
  /\ period_us = [s \in Slots |-> 0]
  /\ repeating = [s \in Slots |-> FALSE]
  /\ task_id = [s \in Slots |-> 0]
  /\ sorted_task_ids_ = NoIds
  /\ active_task_count_ = 0
  /\ ready_bitmap_ = {}
  /\ free_bitmap_ = Slots
  /\ global_tick_us_ = 0
  /\ current_interval_us_ = 0
  /\ timeout_idx_ = 1
  /\ failing_id = INVALID_ID
  /\ tim = [CEN |-> FALSE, CNT |-> 0, ARR |-> 0, UIF |-> FALSE]
  /\ irq_enabled = TRUE
  /\ isr = "none"
  /\ pc = "app"
  /\ running = 0
  /\ step = "none"
  /\ op = 0
  /\ diff = 0
  /\ cnt_temp = 0
  /\ broken = FALSE

(* The id of a timeout, and how timeout_idx_ moves on.  It stays odd, so   *)
(* that it is never 0 when it wraps.                                       *)
timeout_id(slot) == (slot + timeout_idx_ * kMaxTasks) % IdRange
NextIdx(idx) == (idx + 2) % IdRange

(* allocate_slot takes the lowest free slot, then the fields are written   *)
(* and the interrupt masked: the common head of both registering calls.    *)
(* The slot whose callback runs is free if the callback has ended its task;*)
(* update() will then treat the new task as the one that has run.          *)
Allocate(slot, us, repeat, id) ==
  /\ InClient
  /\ us < TickRange \div 2
  /\ slot \in free_bitmap_ /\ \A s \in free_bitmap_ : slot <= s
  /\ free_bitmap_' = free_bitmap_ \ {slot}
  /\ period_us' = [period_us EXCEPT ![slot] = IF us = 0 THEN 1 ELSE us]
  /\ repeating' = [repeating EXCEPT ![slot] = repeat]
  /\ task_id' = [task_id EXCEPT ![slot] = id]
  /\ op' = slot
  /\ irq_enabled' = FALSE
  /\ step' = "insert"
  /\ broken' = (broken \/ (pc = "callback" /\ slot = running))
  /\ UNCHANGED <<next_fire_us, queue, ready_bitmap_, clock, failing_id, tim, isr, main,
                 diff, cnt_temp>>

register_task(us) ==
  /\ \E slot \in Slots : Allocate(slot, us, TRUE, slot)
  /\ UNCHANGED timeout_idx_

set_timeout(us) ==
  /\ \E slot \in Slots : Allocate(slot, us, FALSE, timeout_id(slot))
  /\ timeout_idx_' = NextIdx(timeout_idx_)

(* The head of both removing calls: their checks and the masking.          *)
Remove(slot) ==
  /\ InClient
  /\ slot \notin free_bitmap_
  /\ op' = slot
  /\ irq_enabled' = FALSE
  /\ step' = "remove"
  /\ UNCHANGED <<tasks, queue, ready_bitmap_, free_bitmap_, clock, timeout_idx_,
                 failing_id, tim, isr, main, diff, cnt_temp, broken>>

(* unregister_task accepts any id below kMaxTasks: also a timeout's slot.  *)
unregister_task(id) == id < kMaxTasks /\ Remove(id)

cancel_timeout(id) ==
  LET slot == id % kMaxTasks
  IN  ~repeating[slot] /\ task_id[slot] = id /\ Remove(slot)

-----------------------------------------------------------------------------
(* insert_sorted of the registering call: the deadline is computed from    *)
(* the tick and the counter as they are now, then the first, masked half   *)
(* of schedule_next_interval reads the new front's distance.               *)
InsertSlot ==
  /\ MainCanStep /\ step = "insert"
  /\ next_fire_us' = [next_fire_us EXCEPT
                        ![op] = Wrap(global_tick_us_ + tim.CNT + period_us[op])]
  /\ \E pos \in Slots :
       /\ pos <= active_task_count_
       /\ Boundary(next_fire_us', sorted_task_ids_, active_task_count_, next_fire_us'[op], pos)
       /\ sorted_task_ids_' = InsertAt(sorted_task_ids_, pos, op)
  /\ active_task_count_' = (active_task_count_ + 1) % CountRange
  /\ diff' = Ahead(next_fire_us', sorted_task_ids_', global_tick_us_)
  /\ step' = "unlock"
  /\ UNCHANGED <<period_us, repeating, task_id, ready_bitmap_, free_bitmap_, clock,
                 timeout_idx_, failing_id, tim, irq_enabled, isr, main, op, cnt_temp, broken>>

Queued == Held(sorted_task_ids_, active_task_count_)

(* remove_sorted and release_slot, then schedule_next_interval: with an    *)
(* empty queue it stops the timer, otherwise it reads the front.  For slot *)
(* 0, when it is not queued, the nibble found is one past the count.       *)
RemoveSlot ==
  /\ MainCanStep /\ step = "remove"
  /\ \/ /\ \A i \in Slots : sorted_task_ids_[i] # op
        /\ UNCHANGED queue
     \/ \E pos \in Slots :
          /\ FirstMatch(sorted_task_ids_, op, pos)
          /\ sorted_task_ids_' = RemoveAt(sorted_task_ids_, pos)
          /\ active_task_count_' = (active_task_count_ - 1) % CountRange
  /\ ready_bitmap_' = ready_bitmap_ \ {op}
  /\ free_bitmap_' = free_bitmap_ \union {op}
  /\ \/ /\ active_task_count_' = 0
        /\ tim' = [global_timer_disable(tim) EXCEPT !.CNT = 0]
        /\ current_interval_us_' = 0
        /\ irq_enabled' = TRUE
        /\ CallEnds
     \/ /\ active_task_count_' # 0
        /\ diff' = Ahead(next_fire_us, sorted_task_ids_', global_tick_us_)
        /\ step' = "unlock"
        /\ UNCHANGED <<tim, current_interval_us_, irq_enabled, op, cnt_temp>>
  /\ broken' = (broken \/ (op = 0 /\ 0 \notin Queued))
  /\ UNCHANGED <<tasks, global_tick_us_, timeout_idx_, failing_id, isr, main>>

(* SchedUnlock inside schedule_next_interval: from here on the interrupt   *)
(* can run although the caller's masked region has not ended.              *)
Unlock ==
  /\ MainCanStep /\ step = "unlock"
  /\ irq_enabled' = TRUE
  /\ step' = "interval"
  /\ UNCHANGED <<tasks, queue, ready_bitmap_, free_bitmap_, clock, timeout_idx_,
                 failing_id, tim, isr, main, op, diff, cnt_temp, broken>>

SetInterval ==
  /\ MainCanStep /\ step = "interval"
  /\ current_interval_us_' = IF diff \in -1..1 THEN 1 ELSE Abs(diff)
  /\ step' = IF diff \in -1..1 THEN "ug" ELSE "arr"
  /\ UNCHANGED <<tasks, queue, ready_bitmap_, free_bitmap_, global_tick_us_, timeout_idx_,
                 failing_id, tim, irq_enabled, isr, main, op, diff, cnt_temp, broken>>

(* EGR.UG restarts the counter and requests the interrupt at once.         *)
ForceUpdate ==
  /\ MainCanStep /\ step = "ug"
  /\ tim' = [tim EXCEPT !.CNT = 0, !.UIF = TRUE]
  /\ step' = "enable"
  /\ UNCHANGED <<tasks, queue, ready_bitmap_, free_bitmap_, clock, timeout_idx_,
                 failing_id, irq_enabled, isr, main, op, diff, cnt_temp, broken>>

(* current_interval_us_ is an ordinary static: the build may keep the      *)
(* value just stored in a register or load it again after an interrupt.    *)
SetReload ==
  /\ MainCanStep /\ step = "arr"
  /\ \E interval \in {Abs(diff), current_interval_us_} :
       tim' = [tim EXCEPT !.ARR = Wrap(interval - 1)]
  /\ step' = "overshoot"
  /\ UNCHANGED <<tasks, queue, ready_bitmap_, free_bitmap_, clock, timeout_idx_,
                 failing_id, irq_enabled, isr, main, op, diff, cnt_temp, broken>>

NeverOvershot(t) == FALSE                    \* Defect: the check is missing
Overshot(t) == t.CNT > t.ARR

(* A counter already past the new reload value would run to 2^32: it is    *)
(* restarted and what it had counted goes to the tick, all of it unmasked. *)
CheckOvershoot ==
  /\ MainCanStep /\ step = "overshoot"
  /\ step' = IF Overshot(tim) THEN "count" ELSE "enable"
  /\ UNCHANGED <<tasks, queue, ready_bitmap_, free_bitmap_, clock, timeout_idx_, failing_id,
                 tim, irq_enabled, isr, main, op, diff, cnt_temp, broken>>

ReadCount ==
  /\ MainCanStep /\ step = "count"
  /\ cnt_temp' = tim.CNT
  /\ step' = "restart"
  /\ UNCHANGED <<tasks, queue, ready_bitmap_, free_bitmap_, clock, timeout_idx_, failing_id,
                 tim, irq_enabled, isr, main, op, diff, broken>>

RestartCount ==
  /\ MainCanStep /\ step = "restart"
  /\ tim' = [tim EXCEPT !.CNT = 0]
  /\ step' = "load"
  /\ UNCHANGED <<tasks, queue, ready_bitmap_, free_bitmap_, clock, timeout_idx_, failing_id,
                 irq_enabled, isr, main, op, diff, cnt_temp, broken>>

(* The 64-bit sum is loaded, added to and stored: an interrupt in between  *)
(* has added its interval in vain.                                         *)
LoadTick ==
  /\ MainCanStep /\ step = "load"
  /\ cnt_temp' = Wrap(global_tick_us_ + cnt_temp)
  /\ step' = "store"
  /\ UNCHANGED <<tasks, queue, ready_bitmap_, free_bitmap_, clock, timeout_idx_, failing_id,
                 tim, irq_enabled, isr, main, op, diff, broken>>

StoreTick ==
  /\ MainCanStep /\ step = "store"
  /\ global_tick_us_' = cnt_temp
  /\ step' = "enable"
  /\ UNCHANGED <<tasks, queue, ready_bitmap_, free_bitmap_, current_interval_us_, timeout_idx_,
                 failing_id, tim, irq_enabled, isr, main, op, diff, cnt_temp, broken>>

(* global_timer_enable, and the SchedUnlock of the caller.                 *)
EnableTimer ==
  /\ MainCanStep /\ step = "enable"
  /\ tim' = global_timer_enable(tim)
  /\ irq_enabled' = TRUE
  /\ CallEnds
  /\ UNCHANGED <<tasks, queue, ready_bitmap_, free_bitmap_, clock, timeout_idx_,
                 failing_id, isr, main, broken>>

-----------------------------------------------------------------------------
(* update(): report one overrun, then run the ready tasks, lowest slot     *)
(* first, until none is left.                                              *)
UpdateBegin ==
  /\ MainCanStep /\ step = "none" /\ pc = "app"
  /\ pc' = IF failing_id = INVALID_ID THEN "update" ELSE "warned"
  /\ UNCHANGED <<tasks, queue, ready_bitmap_, free_bitmap_, clock, timeout_idx_, failing_id,
                 tim, irq_enabled, isr, running, call, broken>>

UpdateWarned ==
  /\ MainCanStep /\ pc = "warned"
  /\ failing_id' = INVALID_ID
  /\ pc' = "update"
  /\ UNCHANGED <<tasks, queue, ready_bitmap_, free_bitmap_, clock, timeout_idx_,
                 tim, irq_enabled, isr, running, call, broken>>

RunTask ==
  /\ MainCanStep /\ pc = "update"
  /\ \E slot \in ready_bitmap_ :
       /\ \A s \in ready_bitmap_ : slot <= s
       /\ running' = slot
  /\ pc' = "callback"
  /\ UNCHANGED <<tasks, queue, ready_bitmap_, free_bitmap_, clock, timeout_idx_, failing_id,
                 tim, irq_enabled, isr, call, broken>>

FreeAlways(slot) == free_bitmap_ \union {slot}    \* Defect
FreeAfterRun(slot) == IF repeating[slot] THEN free_bitmap_ ELSE free_bitmap_ \union {slot}

(* The callback returns: its slot is no longer ready, and a one-shot's     *)
(* slot is released.  repeating is read now, not before the callback.      *)
CallbackReturn ==
  /\ MainCanStep /\ step = "none" /\ pc = "callback"
  /\ ready_bitmap_' = ready_bitmap_ \ {running}
  /\ free_bitmap_' = FreeAfterRun(running)
  /\ irq_enabled' = TRUE
  /\ pc' = "update"
  /\ running' = 0
  /\ UNCHANGED <<tasks, queue, clock, timeout_idx_, failing_id, tim, isr, call, broken>>

OnePass == TRUE                              \* Defect: no loop
NothingReady == ready_bitmap_ = {}

UpdateEnd ==
  /\ MainCanStep /\ pc = "update" /\ NothingReady
  /\ pc' = "app"
  /\ UNCHANGED <<tasks, queue, ready_bitmap_, free_bitmap_, clock, timeout_idx_, failing_id,
                 tim, irq_enabled, isr, running, call, broken>>

-----------------------------------------------------------------------------
(* The interrupt: TIM_InterruptCallback clears UIF and on_timer_update     *)
(* adds the interval that has just elapsed.                                *)
IsrEnter ==
  /\ isr = "none" /\ tim.UIF /\ irq_enabled
  /\ tim' = [tim EXCEPT !.UIF = FALSE]
  /\ global_tick_us_' = Wrap(global_tick_us_ + current_interval_us_)
  /\ isr' = "pop"
  /\ UNCHANGED <<tasks, queue, ready_bitmap_, free_bitmap_, current_interval_us_, timeout_idx_,
                 failing_id, irq_enabled, main, call, broken>>

FrontIsDue ==
  /\ active_task_count_ > 0
  /\ Ahead(next_fire_us, sorted_task_ids_, global_tick_us_) <= 0

(* One turn of the loop over the due tasks: the front leaves the queue and *)
(* becomes ready; a periodic one is queued again.                          *)
IsrPop ==
  LET front == sorted_task_ids_[0]
      rest  == PopFront(sorted_task_ids_)
  IN
  /\ isr = "pop" /\ FrontIsDue
  /\ ready_bitmap_' = ready_bitmap_ \union {front}
  /\ failing_id' = IF front \in ready_bitmap_ THEN front ELSE failing_id
  /\ \/ /\ repeating[front]
        /\ next_fire_us' = [next_fire_us EXCEPT
                              ![front] = Wrap(global_tick_us_ + period_us[front])]
        /\ \E pos \in Slots :
             /\ pos < active_task_count_
             /\ Boundary(next_fire_us', rest, active_task_count_ - 1, next_fire_us'[front], pos)
             /\ sorted_task_ids_' = InsertAt(rest, pos, front)
        /\ UNCHANGED active_task_count_
     \/ /\ ~repeating[front]
        /\ sorted_task_ids_' = rest
        /\ active_task_count_' = active_task_count_ - 1
        /\ UNCHANGED next_fire_us
  /\ UNCHANGED <<period_us, repeating, task_id, free_bitmap_, clock, timeout_idx_,
                 tim, irq_enabled, isr, main, call, broken>>

(* The loop is over: schedule_next_interval, which nothing can interrupt   *)
(* here.  It is taken to last less than one tick.                          *)
IsrExit ==
  LET ahead == Ahead(next_fire_us, sorted_task_ids_, global_tick_us_)
  IN
  /\ isr = "pop" /\ ~FrontIsDue
  /\ \/ /\ active_task_count_ = 0
        /\ tim' = [global_timer_disable(tim) EXCEPT !.CNT = 0]
        /\ current_interval_us_' = 0
        /\ UNCHANGED global_tick_us_
     \/ /\ active_task_count_ > 0 /\ ahead = 1
        /\ tim' = [global_timer_enable(tim) EXCEPT !.CNT = 0, !.UIF = TRUE]
        /\ current_interval_us_' = 1
        /\ UNCHANGED global_tick_us_
     \/ /\ active_task_count_ > 0 /\ ahead > 1
        /\ current_interval_us_' = ahead
        /\ IF tim.CNT > ahead - 1
             THEN /\ tim' = [global_timer_enable(tim) EXCEPT !.ARR = ahead - 1, !.CNT = 0]
                  /\ global_tick_us_' = Wrap(global_tick_us_ + tim.CNT)
             ELSE /\ tim' = [global_timer_enable(tim) EXCEPT !.ARR = ahead - 1]
                  /\ UNCHANGED global_tick_us_
  /\ isr' = "none"
  /\ UNCHANGED <<tasks, queue, ready_bitmap_, free_bitmap_, timeout_idx_, failing_id,
                 irq_enabled, main, call, broken>>

(* One microsecond of the counter.  A zero reload value blocks it.  The    *)
(* processor is not arbitrarily slow: a requested interrupt is served, and *)
(* a counter past its reload value is looked at, within MaxLatency ticks.  *)
Tick ==
  /\ tim.CEN /\ tim.ARR > 0
  /\ tim.UIF \/ isr = "pop" => tim.CNT < MaxLatency
  /\ tim.CNT > tim.ARR => tim.CNT < tim.ARR + MaxLatency
  /\ tim' = IF tim.CNT = tim.ARR THEN [tim EXCEPT !.CNT = 0, !.UIF = TRUE]
                                 ELSE [tim EXCEPT !.CNT = Wrap(@ + 1)]
  /\ UNCHANGED <<tasks, queue, ready_bitmap_, free_bitmap_, clock, timeout_idx_, failing_id,
                 irq_enabled, isr, main, call, broken>>

-----------------------------------------------------------------------------
Client ==
  \/ \E us \in Periods : register_task(us)
  \/ \E us \in Delays : set_timeout(us)
  \/ \E id \in Slots : unregister_task(id)
  \/ \E slot \in Slots : cancel_timeout(task_id[slot])

Call == InsertSlot \/ RemoveSlot \/ Unlock \/ SetInterval \/ ForceUpdate
        \/ SetReload \/ CheckOvershoot \/ ReadCount \/ RestartCount \/ LoadTick \/ StoreTick
        \/ EnableTimer

Update == UpdateBegin \/ UpdateWarned \/ RunTask \/ CallbackReturn \/ UpdateEnd

Isr == IsrEnter \/ IsrPop \/ IsrExit

Next == Client \/ Call \/ Update \/ Isr \/ Tick

Spec == Init /\ [][Next]_vars
-----------------------------------------------------------------------------
TimerState == [CEN : BOOLEAN, CNT : Ticks, ARR : Ticks, UIF : BOOLEAN]

(* The ranges of the scheduler's statics, of the timer's registers and of  *)
(* the control state.                                                      *)
TypeOK ==
  /\ next_fire_us \in [Slots -> Ticks]
  /\ period_us \in [Slots -> Ticks]
  /\ repeating \in [Slots -> BOOLEAN]
  /\ task_id \in [Slots -> 0..(IdRange - 1)]
  /\ sorted_task_ids_ \in [Slots -> Slots]
  /\ active_task_count_ \in 0..(CountRange - 1)
  /\ ready_bitmap_ \subseteq Slots
  /\ free_bitmap_ \subseteq Slots
  /\ global_tick_us_ \in Ticks
  /\ current_interval_us_ \in Ticks
  /\ timeout_idx_ \in 0..(IdRange - 1)
  /\ failing_id \in Slots \union {INVALID_ID}
  /\ tim \in TimerState
  /\ irq_enabled \in BOOLEAN
  /\ isr \in {"none", "pop"}
  /\ pc \in {"app", "warned", "update", "callback"}
  /\ running \in Slots
  /\ step \in {"none", "insert", "remove", "unlock", "interval", "ug", "arr",
              "overshoot", "count", "restart", "load", "store", "enable"}
  /\ op \in Slots
  /\ diff \in (0 - TickRange \div 2)..(TickRange \div 2)
  /\ cnt_temp \in Ticks
  /\ broken \in BOOLEAN

(* The queue is what its comment says (Scheduler.hpp:80): every id in it   *)
(* is the id of a task in use, none twice, and the nibbles past the count  *)
(* are zero, so that the next insertion shifts in no stale id.             *)
QueueSound ==
  /\ WellFormed(sorted_task_ids_, active_task_count_)
  /\ Queued \intersect free_bitmap_ = {}

(* The statics stay in range and, as long as no client has done one of the *)
(* two things that break it, the queue is sound.                           *)
QueueIsSound == TypeOK /\ (broken \/ QueueSound)

(* No registered task is lost between the main context and the interrupt:  *)
(* a periodic one is always queued, a one-shot is either still queued or   *)
(* ready, and nothing that was ended is still ready.                       *)
TasksKept ==
  /\ \A s \in Slots \ free_bitmap_ :
       \/ step = "insert" /\ op = s
       \/ repeating[s] /\ s \in Queued
       \/ ~repeating[s] /\ (s \in Queued <=> s \notin ready_bitmap_)
  /\ ready_bitmap_ \intersect free_bitmap_ = {}

(* As long as no client has done one of the two things that break the queue*)
NoTaskLost == broken \/ TasksKept

(* What the two invariants above need to be inductive: a call that is      *)
(* about to insert holds a slot that is nowhere yet, one about to remove   *)
(* holds a slot in use, and the slot whose callback runs is still ready or *)
(* was ended by the callback.                                              *)
CallSound ==
  /\ step = "insert" => op \notin free_bitmap_ /\ op \notin Queued /\ op \notin ready_bitmap_
  /\ step = "remove" => op \notin free_bitmap_
  /\ pc = "callback" => running \in ready_bitmap_ \union free_bitmap_

(* While a task waits, the timer will interrupt: once the API call and the *)
(* interrupt are over, a non-empty queue has a running counter that has    *)
(* not passed its reload value, or the interrupt is already requested.     *)
Armed ==
  (step = "none" /\ isr = "none" /\ active_task_count_ > 0) =>
    /\ tim.CEN
    /\ tim.UIF \/ (tim.ARR > 0 /\ tim.CNT <= tim.ARR)

(* The queue is in firing order, whatever the wrap of the 32-bit tick.     *)
QueueSorted ==
  \A i, j \in Slots :
    i < j /\ j < active_task_count_ =>
      Signed(next_fire_us[sorted_task_ids_[j]] - next_fire_us[sorted_task_ids_[i]]) >= 0

(* The id of a timeout is neither a task's id nor INVALID_ID, however far  *)
(* timeout_idx_ has wrapped (Scheduler.hpp:37 and Scheduler.cpp:317).      *)
TimeoutIdsApart ==
  \A s \in Slots \ free_bitmap_ :
    ~repeating[s] => task_id[s] >= kMaxTasks /\ task_id[s] # INVALID_ID

(* All that waits is due within half a turn of the tick, counted from some *)
(* point: only then does the sign of a difference say which is earlier     *)
(* (Scheduler.cpp:139).  No task is left behind while the tick goes on, so *)
(* that with deadlines on both sides of a wrap the search finds its place. *)
DeadlinesAreClose ==
  \E base \in Ticks : \A s \in Queued : Wrap(next_fire_us[s] - base) < TickRange \div 2

(* Deadlines and ids keep their order and their meaning when the tick and  *)
(* timeout_idx_ wrap (Scheduler.cpp:139 and 319).                          *)
WrapsAreHarmless == TimeoutIdsApart /\ (broken \/ (DeadlinesAreClose /\ QueueSorted))

(* The tick, by which protections measure "real elapsed time"              *)
(* (docs/protections-and-diagnostics.md:355), never goes back.  The code   *)
(* does not keep this (Scheduler.cpp:238): TLC refutes it of MCScheduler.  *)
TickNeverGoesBack == [][Signed(global_tick_us_' - global_tick_us_) >= 0]_vars

-----------------------------------------------------------------------------
(* The counter runs, a requested interrupt is taken, and between two       *)
(* interrupts the main context gets to take a step of the call it is in    *)
(* and of the main loop, which calls update() for ever; callbacks return.  *)
(* Strong fairness: every interrupt disables the main context for a while. *)
Fairness == WF_vars(Tick) /\ WF_vars(Isr) /\ SF_vars(Call) /\ SF_vars(Update)

(* A task that waits fires: whatever the interleaving of API calls with    *)
(* the interrupt, it becomes ready unless it is ended first.               *)
QueuedTaskFires == \A s \in Slots : s \in Queued ~> s \in ready_bitmap_ \union free_bitmap_

(* update() returns only after it ran what was ready: if the main loop     *)
(* gets out of update() again and again, every ready task runs or is ended.*)
ReadyTaskRuns ==
  []<>(pc = "app") =>
    \A s \in Slots :
      s \in ready_bitmap_ ~> (pc = "callback" /\ running = s) \/ s \in free_bitmap_

(* A task that is registered is run, or ended, as long as no client has    *)
(* broken the queue: interrupt and update() together lose none.            *)
TasksFireAndRun == []~broken => QueuedTaskFires /\ ReadyTaskRuns

-----------------------------------------------------------------------------
(* The scheduler as a client sees it: kind of a slot from the free bitmap  *)
(* and the task's repeating flag, waiting is being queued, due is ready.   *)
kind ==
  [s \in Slots |-> IF s \in free_bitmap_ THEN "free"
                   ELSE IF repeating[s] THEN "periodic" ELSE "oneshot"]

Lifecycle ==
  INSTANCE TaskLifecycle WITH waiting <- Queued, due <- ready_bitmap_, void <- broken

(* Every step of main context, interrupt and timer is a step of a single   *)
(* task's lifecycle or changes nothing a client can see, as long as no     *)
(* client has broken the queue.                                            *)
ImplementsLifecycle == Lifecycle!Spec

=============================================================================
