-------------------------- MODULE SchedulerProofs --------------------------
(***************************************************************************)
(* What holds of Scheduler for every number of slots, every tick width and *)
(* every set of periods.                                                   *)
(***************************************************************************)
EXTENDS Scheduler, FiniteSetTheorems, TLAPS

-----------------------------------------------------------------------------
(* Arithmetic. *)

(* A sum of ticks wraps into the range of ticks. *)
LEMMA WrapType == \A x \in Int : Wrap(x) \in Ticks
  BY RangeAssumption DEF Wrap, Ticks

(* A difference of ticks, read as signed, is at most half a turn. *)
LEMMA SignedType ==
  \A x \in Int : Signed(x) \in (0 - TickRange \div 2)..(TickRange \div 2)
  <1> TAKE x \in Int
  <1>1. Wrap(x) \in Ticks
    BY WrapType
  <1> QED
    BY <1>1, RangeAssumption DEF Signed, Ticks
-----------------------------------------------------------------------------
(* The queue operators. *)

(* Inserting a new id into a queue with room for it adds that id. *)
LEMMA InsertHeld ==
  ASSUME NEW ids \in [Slots -> Slots], NEW n \in Nat, n < kMaxTasks, WellFormed(ids, n),
         NEW id \in Slots, id \notin Held(ids, n), NEW pos \in Slots, pos <= n
  PROVE  /\ InsertAt(ids, pos, id) \in [Slots -> Slots]
         /\ WellFormed(InsertAt(ids, pos, id), n + 1)
         /\ Held(InsertAt(ids, pos, id), n + 1) = Held(ids, n) \union {id}
  <1> DEFINE new == InsertAt(ids, pos, id)
  <1>1. new \in [Slots -> Slots]
    <2>1. \A i \in Slots : ~(i < pos) /\ i # pos => i - 1 \in Slots
      BY SlotsAssumption DEF Slots
    <2> QED
      BY <2>1 DEF InsertAt
  <1>2. \A i \in Slots : new[i] = IF i < pos THEN ids[i] ELSE IF i = pos THEN id ELSE ids[i - 1]
    BY DEF InsertAt
  <1>3. \A i \in Slots : i < n => ids[i] # id
    BY DEF Held
  <1>4. WellFormed(new, n + 1)
    <2>1. \A i, j \in Slots : i < j /\ j < n + 1 => new[i] # new[j]
      <3> SUFFICES ASSUME NEW i \in Slots, NEW j \in Slots, i < j, j < n + 1
                   PROVE  new[i] # new[j]
        OBVIOUS
      <3>1. CASE j < pos
        BY <3>1, <1>2, SlotsAssumption DEF Slots, WellFormed
      <3>2. CASE j = pos
        BY <3>2, <1>2, <1>3, SlotsAssumption DEF Slots
      <3>3. CASE j > pos
        <4>1. j - 1 \in Slots /\ j - 1 < n /\ new[j] = ids[j - 1]
          BY <3>3, <1>2, SlotsAssumption DEF Slots
        <4>2. CASE i < pos
          BY <4>1, <4>2, <3>3, <1>2, SlotsAssumption DEF Slots, WellFormed
        <4>3. CASE i = pos
          BY <4>1, <4>3, <1>2, <1>3, SlotsAssumption DEF Slots
        <4>4. CASE i > pos
          <5>1. i - 1 \in Slots /\ new[i] = ids[i - 1] /\ i - 1 < j - 1
            BY <4>4, <1>2, SlotsAssumption DEF Slots
          <5> QED
            BY <4>1, <5>1 DEF WellFormed
        <4> QED
          BY <4>2, <4>3, <4>4 DEF Slots
      <3> QED
        BY <3>1, <3>2, <3>3 DEF Slots
    <2>2. ASSUME NEW i \in Slots, i >= n + 1 PROVE new[i] = 0
      <3>1. i - 1 \in Slots /\ i - 1 >= n /\ ~(i < pos) /\ i # pos
        BY <2>2, SlotsAssumption DEF Slots
      <3>2. new[i] = ids[i - 1]
        BY <3>1, <1>2
      <3> QED
        BY <3>1, <3>2 DEF WellFormed
    <2> QED
      BY <2>1, <2>2, SlotsAssumption DEF WellFormed
  <1>5. Held(new, n + 1) = Held(ids, n) \union {id}
    <2>1. ASSUME NEW x \in Held(new, n + 1) PROVE x \in Held(ids, n) \union {id}
      <3>1. PICK i \in Slots : i < n + 1 /\ x = new[i]
        BY DEF Held
      <3>2. CASE i < pos
        BY <3>1, <3>2, <1>2 DEF Held, Slots
      <3>3. CASE i = pos
        BY <3>1, <3>3, <1>2 DEF Slots
      <3>4. CASE i > pos
        <4>1. i - 1 \in Slots /\ i - 1 < n /\ x = ids[i - 1]
          BY <3>1, <3>4, <1>2, SlotsAssumption DEF Slots
        <4> QED
          BY <4>1 DEF Held
      <3> QED
        BY <3>2, <3>3, <3>4 DEF Slots
    <2>2. id \in Held(new, n + 1)
      <3>1. new[pos] = id /\ pos < n + 1
        BY <1>2 DEF Slots
      <3> QED
        BY <3>1 DEF Held
    <2>3. ASSUME NEW x \in Held(ids, n) PROVE x \in Held(new, n + 1)
      <3>1. PICK i \in Slots : i < n /\ x = ids[i]
        BY DEF Held
      <3>2. CASE i < pos
        <4>1. new[i] = x /\ i < n + 1
          BY <3>1, <3>2, <1>2 DEF Slots
        <4> QED
          BY <4>1 DEF Held
      <3>3. CASE i >= pos
        <4>1. i + 1 \in Slots /\ i + 1 < n + 1 /\ new[i + 1] = x
          <5>1. i + 1 \in Slots
            BY <3>1, SlotsAssumption DEF Slots
          <5>2. new[i + 1] = ids[(i + 1) - 1]
            BY <3>3, <5>1, <1>2 DEF Slots
          <5> QED
            BY <3>1, <5>1, <5>2 DEF Slots
        <4> QED
          BY <4>1 DEF Held
      <3> QED
        BY <3>2, <3>3 DEF Slots
    <2> QED
      BY <2>1, <2>2, <2>3
  <1> QED
    BY <1>1, <1>4, <1>5

(* Removing a place in use removes the id it holds and no other. *)
LEMMA RemoveHeld ==
  ASSUME NEW ids \in [Slots -> Slots], NEW n \in Nat, WellFormed(ids, n),
         NEW pos \in Slots, pos < n
  PROVE  /\ RemoveAt(ids, pos) \in [Slots -> Slots]
         /\ WellFormed(RemoveAt(ids, pos), n - 1)
         /\ Held(RemoveAt(ids, pos), n - 1) = Held(ids, n) \ {ids[pos]}
  <1> DEFINE new == RemoveAt(ids, pos)
  <1>1. new \in [Slots -> Slots]
    BY SlotsAssumption DEF RemoveAt, Slots
  <1>2. \A i \in Slots : new[i] = IF i < pos THEN ids[i]
                                   ELSE IF i + 1 \in Slots THEN ids[i + 1] ELSE 0
    BY DEF RemoveAt
  <1>3. \A i \in Slots : i < n - 1 => i + 1 \in Slots
    BY SlotsAssumption DEF Slots, WellFormed
  <1>4. WellFormed(new, n - 1)
    <2>1. \A i, j \in Slots : i < j /\ j < n - 1 => new[i] # new[j]
      <3> SUFFICES ASSUME NEW i \in Slots, NEW j \in Slots, i < j, j < n - 1
                   PROVE  new[i] # new[j]
        OBVIOUS
      <3>1. CASE j < pos
        BY <3>1, <1>2, SlotsAssumption DEF Slots, WellFormed
      <3>2. CASE j >= pos /\ i < pos
        <4>1. j + 1 \in Slots /\ ~(j < pos) /\ i < j + 1 /\ j + 1 < n
          BY <3>2, <1>3, SlotsAssumption DEF Slots
        <4>2. new[j] = ids[j + 1] /\ new[i] = ids[i]
          BY <4>1, <3>2, <1>2
        <4> QED
          BY <4>1, <4>2 DEF WellFormed
      <3>3. CASE i >= pos
        <4>1. /\ i + 1 \in Slots /\ j + 1 \in Slots
              /\ ~(i < pos) /\ ~(j < pos) /\ i + 1 < j + 1 /\ j + 1 < n
          BY <3>3, <1>3, SlotsAssumption DEF Slots
        <4>2. new[j] = ids[j + 1] /\ new[i] = ids[i + 1]
          BY <4>1, <1>2
        <4> QED
          BY <4>1, <4>2 DEF WellFormed
      <3> QED
        BY <3>1, <3>2, <3>3 DEF Slots
    <2>2. ASSUME NEW i \in Slots, i >= n - 1 PROVE new[i] = 0
      BY <1>2, <2>2, SlotsAssumption DEF Slots, WellFormed
    <2> QED
      BY <2>1, <2>2, SlotsAssumption DEF WellFormed
  <1>5. Held(new, n - 1) = Held(ids, n) \ {ids[pos]}
    <2>1. ASSUME NEW x \in Held(new, n - 1) PROVE x \in Held(ids, n) \ {ids[pos]}
      <3>1. PICK i \in Slots : i < n - 1 /\ x = new[i]
        BY DEF Held
      <3>2. PICK k \in Slots : k < n /\ k # pos /\ x = ids[k]
        <4>1. CASE i < pos
          BY <3>1, <4>1, <1>2 DEF Slots
        <4>2. CASE i >= pos
          <5>1. i + 1 \in Slots /\ i + 1 < n /\ i + 1 # pos /\ x = ids[i + 1]
            BY <3>1, <4>2, <1>2, <1>3 DEF Slots
          <5> QED
            BY <5>1
        <4> QED
          BY <4>1, <4>2 DEF Slots
      <3>3. ids[k] # ids[pos]
        BY <3>2 DEF WellFormed, Slots
      <3> QED
        BY <3>2, <3>3 DEF Held
    <2>2. ASSUME NEW x \in Held(ids, n) \ {ids[pos]} PROVE x \in Held(new, n - 1)
      <3>1. PICK i \in Slots : i < n /\ x = ids[i] /\ i # pos
        BY DEF Held
      <3>2. CASE i < pos
        <4>1. i < n - 1 /\ new[i] = x
          BY <3>1, <3>2, <1>2 DEF Slots
        <4> QED
          BY <4>1 DEF Held
      <3>3. CASE i > pos
        <4>1. i - 1 \in Slots /\ i - 1 < n - 1 /\ ~(i - 1 < pos) /\ (i - 1) + 1 = i
          BY <3>1, <3>3, SlotsAssumption DEF Slots
        <4>2. new[i - 1] = ids[i]
          BY <4>1, <1>2
        <4> QED
          BY <4>1, <4>2, <3>1 DEF Held
      <3> QED
        BY <3>1, <3>2, <3>3 DEF Slots
    <2> QED
      BY <2>1, <2>2
  <1> QED
    BY <1>1, <1>4, <1>5

(* A well-formed queue that does not hold some id has room for one more. *)
LEMMA RoomForOther ==
  ASSUME NEW ids \in [Slots -> Slots], NEW n \in Nat, WellFormed(ids, n),
         NEW id \in Slots, id \notin Held(ids, n)
  PROVE  n < kMaxTasks
  <1> SUFFICES ASSUME n = kMaxTasks PROVE FALSE
    BY SlotsAssumption DEF WellFormed
  <1>1. IsFiniteSet(Slots) /\ Cardinality(Slots) = kMaxTasks
    BY FS_Interval, SlotsAssumption DEF Slots
  <1>2. /\ IsFiniteSet(Slots \ {id})
        /\ Cardinality(Slots \ {id}) = kMaxTasks - 1
    BY <1>1, FS_RemoveElement
  <1>3. ids \in [Slots -> Slots \ {id}]
    BY DEF Held, Slots
  <1>4. PICK i, j \in Slots : i # j /\ ids[i] = ids[j]
    BY <1>1, <1>2, <1>3, FS_PigeonHole, SlotsAssumption
  <1> QED
    BY <1>4 DEF WellFormed, Slots
-----------------------------------------------------------------------------
(* Types. *)

(* What the queue operators return is a word of slot numbers. *)
LEMMA QueueWordType ==
  ASSUME NEW ids \in [Slots -> Slots], NEW pos \in Slots, NEW id \in Slots
  PROVE  InsertAt(ids, pos, id) \in [Slots -> Slots] /\ RemoveAt(ids, pos) \in [Slots -> Slots]
  <1>1. \A i \in Slots : ~(i < pos) /\ i # pos => i - 1 \in Slots
    BY SlotsAssumption DEF Slots
  <1>2. 0 \in Slots
    BY SlotsAssumption DEF Slots
  <1>3. InsertAt(ids, pos, id) \in [Slots -> Slots]
    BY <1>1 DEF InsertAt
  <1>4. RemoveAt(ids, pos) \in [Slots -> Slots]
    BY <1>2 DEF RemoveAt
  <1> QED
    BY <1>3, <1>4

(* The distance of a deadline from the tick fits the local it is read into. *)
LEMMA AheadType ==
  ASSUME NEW fire \in [Slots -> Ticks], NEW ids \in [Slots -> Slots], NEW tick \in Ticks
  PROVE  Ahead(fire, ids, tick) \in (0 - TickRange \div 2)..(TickRange \div 2)
  <1>1. ids[0] \in Slots
    BY SlotsAssumption DEF Slots
  <1>2. fire[ids[0]] - tick \in Int
    BY <1>1, RangeAssumption DEF Ticks
  <1> QED
    BY <1>2, SignedType DEF Ahead

LEMMA IdType ==
  \A slot \in Slots : \A idx \in Nat : (slot + idx * kMaxTasks) % IdRange \in 0..(IdRange - 1)
  <1> TAKE slot \in Slots
  <1> TAKE idx \in Nat
  <1>1. idx * kMaxTasks \in Int
    BY SlotsAssumption
  <1>2. slot + idx * kMaxTasks \in Int
    BY <1>1, SlotsAssumption DEF Slots
  <1>3. \A x \in Int : x % IdRange \in 0..(IdRange - 1)
    BY RangeAssumption
  <1> QED
    BY <1>2, <1>3

LEMMA TypeInit == Init => TypeOK
  <1>1. 0 \in Slots /\ 0 \in Ticks /\ 0 \in 0..(IdRange - 1) /\ 1 \in 0..(IdRange - 1)
    BY SlotsAssumption, RangeAssumption DEF Slots, Ticks
  <1>2. 0 \in 0..(CountRange - 1) /\ 0 \in (0 - TickRange \div 2)..(TickRange \div 2)
    BY SlotsAssumption, RangeAssumption
  <1>3. Init => tim \in TimerState
    BY <1>1 DEF Init, TimerState
  <1>4. Init => /\ next_fire_us \in [Slots -> Ticks] /\ period_us \in [Slots -> Ticks]
                /\ repeating \in [Slots -> BOOLEAN] /\ task_id \in [Slots -> 0..(IdRange - 1)]
                /\ sorted_task_ids_ \in [Slots -> Slots]
    BY <1>1 DEF Init, NoIds
  <1> QED
    BY <1>1, <1>2, <1>3, <1>4 DEF Init, TypeOK, INVALID_ID

(* Both registering calls leave every field they write in its range. *)
LEMMA TypeClient == TypeOK /\ Client => TypeOK'
  <1> SUFFICES ASSUME TypeOK, Client PROVE TypeOK'
    OBVIOUS
  <1> USE DEF vars, tasks, queue, clock, main, call
  <1>1. ASSUME NEW us \in Periods, register_task(us) PROVE TypeOK'
    <2>1. us \in Nat /\ us < TickRange \div 2
      BY <1>1, RangeAssumption DEF register_task, Allocate
    <2>2. us \in Ticks /\ 1 \in Ticks
      BY <2>1, RangeAssumption DEF Ticks
    <2>3. \A slot \in Slots : slot \in 0..(IdRange - 1)
      BY SlotsAssumption, RangeAssumption DEF Slots
    <2>4. PICK slot \in free_bitmap_ :
            /\ free_bitmap_' = free_bitmap_ \ {slot}
            /\ period_us' = [period_us EXCEPT ![slot] = IF us = 0 THEN 1 ELSE us]
            /\ repeating' = [repeating EXCEPT ![slot] = TRUE]
            /\ task_id' = [task_id EXCEPT ![slot] = slot]
            /\ op' = slot
      BY <1>1 DEF register_task, Allocate
    <2>5. slot \in Slots /\ slot \in 0..(IdRange - 1)
      BY <2>3 DEF TypeOK
    <2>6. /\ free_bitmap_' \subseteq Slots /\ op' \in Slots
          /\ period_us' \in [Slots -> Ticks]
          /\ repeating' \in [Slots -> BOOLEAN]
          /\ task_id' \in [Slots -> 0..(IdRange - 1)]
      BY <2>2, <2>4, <2>5 DEF TypeOK
    <2>7. /\ step' = "insert" /\ irq_enabled' = FALSE /\ broken' \in BOOLEAN
          /\ UNCHANGED <<next_fire_us, queue, ready_bitmap_, clock, timeout_idx_, failing_id,
                         tim, isr, main, diff, cnt_temp>>
      BY <1>1 DEF register_task, Allocate, TypeOK
    <2> QED
      BY <2>6, <2>7 DEF TypeOK
  <1>2. ASSUME NEW us \in Delays, set_timeout(us) PROVE TypeOK'
    <2>1. us \in Nat /\ us < TickRange \div 2
      BY <1>2, RangeAssumption DEF set_timeout, Allocate
    <2>2. us \in Ticks /\ 1 \in Ticks
      BY <2>1, RangeAssumption DEF Ticks
    <2>3. \A slot \in Slots : (slot + timeout_idx_ * kMaxTasks) % IdRange \in 0..(IdRange - 1)
      BY IdType, RangeAssumption DEF TypeOK
    <2>4. (timeout_idx_ + 2) % IdRange \in 0..(IdRange - 1)
      BY RangeAssumption DEF TypeOK
    <2>5. PICK slot \in free_bitmap_ :
            /\ free_bitmap_' = free_bitmap_ \ {slot}
            /\ period_us' = [period_us EXCEPT ![slot] = IF us = 0 THEN 1 ELSE us]
            /\ repeating' = [repeating EXCEPT ![slot] = FALSE]
            /\ task_id' = [task_id EXCEPT
                             ![slot] = (slot + timeout_idx_ * kMaxTasks) % IdRange]
            /\ op' = slot
      BY <1>2 DEF set_timeout, Allocate, timeout_id
    <2>6. slot \in Slots
      BY DEF TypeOK
    <2>7. /\ free_bitmap_' \subseteq Slots /\ op' \in Slots
          /\ period_us' \in [Slots -> Ticks]
          /\ repeating' \in [Slots -> BOOLEAN]
      BY <2>2, <2>5, <2>6 DEF TypeOK
    <2>8. task_id' \in [Slots -> 0..(IdRange - 1)]
      BY <2>3, <2>5, <2>6 DEF TypeOK
    <2>9. /\ step' = "insert" /\ irq_enabled' = FALSE /\ broken' \in BOOLEAN
          /\ timeout_idx_' \in 0..(IdRange - 1)
          /\ UNCHANGED <<next_fire_us, queue, ready_bitmap_, clock, failing_id,
                         tim, isr, main, diff, cnt_temp>>
      BY <1>2, <2>4 DEF set_timeout, Allocate, NextIdx, TypeOK
    <2> QED
      BY <2>7, <2>8, <2>9 DEF TypeOK
  <1>3. ASSUME NEW slot \in Slots, Remove(slot) PROVE TypeOK'
    BY <1>3 DEF Remove, TypeOK
  <1>4. ASSUME NEW id \in Slots, unregister_task(id) PROVE TypeOK'
    BY <1>3, <1>4 DEF unregister_task
  <1>5. ASSUME NEW slot \in Slots, cancel_timeout(task_id[slot]) PROVE TypeOK'
    <2>1. task_id[slot] % kMaxTasks \in Slots
      <3>1. \A x \in Int : x % kMaxTasks \in 0..(kMaxTasks - 1)
        BY SlotsAssumption
      <3>2. task_id[slot] \in 0..(IdRange - 1)
        BY DEF TypeOK
      <3>3. task_id[slot] \in Int
        BY <3>2, RangeAssumption
      <3> QED
        BY <3>1, <3>3 DEF Slots
    <2> QED
      BY <1>3, <1>5, <2>1 DEF cancel_timeout
  <1> QED
    BY <1>1, <1>2, <1>4, <1>5 DEF Client

(* Every step of a call leaves the queue, the timer and the locals typed. *)
LEMMA TypeCall == TypeOK /\ Call => TypeOK'
  <1> SUFFICES ASSUME TypeOK, Call PROVE TypeOK'
    OBVIOUS
  <1> USE DEF vars, tasks, queue, clock, main, call
  <1>z. 0 \in Slots /\ 0 \in Ticks /\ 1 \in Ticks
        /\ 0 \in (0 - TickRange \div 2)..(TickRange \div 2)
    BY SlotsAssumption, RangeAssumption DEF Slots, Ticks
  <1>w. \A x \in Int : x % CountRange \in 0..(CountRange - 1)
    BY RangeAssumption, SlotsAssumption
  <1>1. CASE InsertSlot
    <2>1. next_fire_us' \in [Slots -> Ticks]
      <3>1. global_tick_us_ + tim.CNT + period_us[op] \in Int
        BY RangeAssumption DEF TypeOK, TimerState, Ticks
      <3> QED
        BY <1>1, <3>1, WrapType DEF InsertSlot, TypeOK
    <2>2. sorted_task_ids_' \in [Slots -> Slots]
      BY <1>1, QueueWordType DEF InsertSlot, TypeOK
    <2>3. active_task_count_' \in 0..(CountRange - 1)
      <3>1. active_task_count_ + 1 \in Int
        BY RangeAssumption, SlotsAssumption DEF TypeOK
      <3>2. active_task_count_' = (active_task_count_ + 1) % CountRange
        BY <1>1 DEF InsertSlot
      <3> QED
        BY <1>w, <3>1, <3>2
    <2>4. diff' \in (0 - TickRange \div 2)..(TickRange \div 2)
      BY <1>1, <2>1, <2>2, AheadType DEF InsertSlot, TypeOK
    <2> QED
      BY <1>1, <2>1, <2>2, <2>3, <2>4 DEF InsertSlot, TypeOK
  <1>2. CASE RemoveSlot
    <2>1. sorted_task_ids_' \in [Slots -> Slots]
      BY <1>2, <1>z, QueueWordType DEF RemoveSlot, TypeOK
    <2>2. active_task_count_' \in 0..(CountRange - 1)
      BY <1>2, <1>w, RangeAssumption, SlotsAssumption DEF RemoveSlot, TypeOK
    <2>3. diff' \in (0 - TickRange \div 2)..(TickRange \div 2)
      BY <1>2, <1>z, <2>1, AheadType DEF RemoveSlot, TypeOK, CallEnds
    <2>4. /\ op' \in Slots /\ step' \in {"none", "unlock"} /\ irq_enabled' \in BOOLEAN
          /\ cnt_temp' \in Ticks
      BY <1>2, <1>z DEF RemoveSlot, TypeOK, CallEnds
    <2>7. broken' \in BOOLEAN
      BY <1>2 DEF RemoveSlot, TypeOK
    <2>5. tim' \in TimerState /\ current_interval_us_' \in Ticks
      BY <1>2, <1>z DEF RemoveSlot, global_timer_disable, TypeOK, TimerState
    <2>6. ready_bitmap_' \subseteq Slots /\ free_bitmap_' \subseteq Slots
      BY <1>2 DEF RemoveSlot, TypeOK
    <2> QED
      BY <1>2, <2>1, <2>2, <2>3, <2>4, <2>5, <2>6, <2>7 DEF RemoveSlot, TypeOK
  <1>3. CASE Unlock
    BY <1>3 DEF Unlock, TypeOK
  <1>4. CASE SetInterval
    <2>1. Abs(diff) \in Ticks
      BY RangeAssumption DEF Abs, TypeOK, Ticks
    <2> QED
      BY <1>4, <1>z, <2>1 DEF SetInterval, TypeOK
  <1>5. CASE ForceUpdate
    BY <1>5, <1>z DEF ForceUpdate, TypeOK, TimerState
  <1>6. CASE SetReload
    <2>1. Abs(diff) \in Int /\ current_interval_us_ \in Int
      BY RangeAssumption DEF Abs, TypeOK, Ticks
    <2>2. \A interval \in Int : Wrap(interval - 1) \in Ticks
      BY WrapType
    <2>3. tim' \in TimerState
      BY <1>6, <2>1, <2>2 DEF SetReload, TypeOK, TimerState
    <2> QED
      BY <1>6, <2>3 DEF SetReload, TypeOK
  <1>7. CASE CheckOvershoot \/ ReadCount
    BY <1>7 DEF CheckOvershoot, ReadCount, TypeOK, TimerState
  <1>9. CASE RestartCount
    BY <1>9, <1>z DEF RestartCount, TypeOK, TimerState
  <1>10. CASE LoadTick
    <2>1. Wrap(global_tick_us_ + cnt_temp) \in Ticks
      <3>1. global_tick_us_ + cnt_temp \in Int
        BY RangeAssumption DEF TypeOK, Ticks
      <3> QED
        BY <3>1, WrapType
    <2> QED
      BY <1>10, <2>1 DEF LoadTick, TypeOK
  <1>11. CASE StoreTick
    BY <1>11 DEF StoreTick, TypeOK
  <1>8. CASE EnableTimer
    BY <1>8, <1>z DEF EnableTimer, global_timer_enable, CallEnds, TypeOK, TimerState
  <1> QED
    BY <1>1, <1>2, <1>3, <1>4, <1>5, <1>6, <1>7, <1>8, <1>9, <1>10, <1>11 DEF Call

(* The main loop only moves its own control state and the bitmaps. *)
LEMMA TypeUpdate == TypeOK /\ Update => TypeOK'
  <1> SUFFICES ASSUME TypeOK, Update PROVE TypeOK'
    OBVIOUS
  <1> USE DEF vars, tasks, queue, clock, main, call, TypeOK
  <1>1. CASE UpdateBegin
    BY <1>1 DEF UpdateBegin
  <1>2. CASE UpdateWarned
    BY <1>2 DEF UpdateWarned
  <1>3. CASE RunTask
    BY <1>3 DEF RunTask
  <1>4. CASE CallbackReturn
    <2>1. 0 \in Slots
      BY SlotsAssumption DEF Slots
    <2>2. free_bitmap_' \subseteq Slots /\ ready_bitmap_' \subseteq Slots
      BY <1>4 DEF CallbackReturn, FreeAfterRun
    <2> QED
      BY <1>4, <2>1, <2>2 DEF CallbackReturn
  <1>5. CASE UpdateEnd
    BY <1>5 DEF UpdateEnd
  <1> QED
    BY <1>1, <1>2, <1>3, <1>4, <1>5 DEF Update

(* The interrupt and the counter. *)
LEMMA TypeIsrTick == TypeOK /\ (Isr \/ Tick) => TypeOK'
  <1> SUFFICES ASSUME TypeOK, Isr \/ Tick PROVE TypeOK'
    OBVIOUS
  <1> USE DEF vars, tasks, queue, clock, main, call
  <1>z. 0 \in Slots /\ 0 \in Ticks /\ 1 \in Ticks
    BY SlotsAssumption, RangeAssumption DEF Slots, Ticks
  <1>s. global_tick_us_ \in Int /\ current_interval_us_ \in Int /\ tim.CNT \in Int
    BY RangeAssumption DEF TypeOK, TimerState, Ticks
  <1>1. CASE IsrEnter
    <2>1. global_tick_us_' \in Ticks
      BY <1>1, <1>s, WrapType DEF IsrEnter
    <2>2. tim' \in TimerState
      BY <1>1 DEF IsrEnter, TypeOK, TimerState
    <2> QED
      BY <1>1, <2>1, <2>2 DEF IsrEnter, TypeOK
  <1>2. CASE IsrPop
    <2>1. sorted_task_ids_[0] \in Slots /\ active_task_count_ > 0
      BY <1>2, <1>z DEF IsrPop, FrontIsDue, TypeOK
    <2>2. PopFront(sorted_task_ids_) \in [Slots -> Slots]
      BY <1>z, QueueWordType DEF PopFront, TypeOK
    <2>3. sorted_task_ids_' \in [Slots -> Slots]
      BY <1>2, <2>1, <2>2, QueueWordType DEF IsrPop
    <2>4. next_fire_us' \in [Slots -> Ticks]
      <3>1. global_tick_us_ + period_us[sorted_task_ids_[0]] \in Int
        BY <2>1, RangeAssumption DEF TypeOK, Ticks
      <3> QED
        BY <1>2, <3>1, WrapType DEF IsrPop, TypeOK
    <2>5. active_task_count_' \in 0..(CountRange - 1)
      BY <1>2, <2>1, RangeAssumption, SlotsAssumption DEF IsrPop, TypeOK
    <2>6. /\ ready_bitmap_' \subseteq Slots
          /\ failing_id' \in Slots \union {INVALID_ID}
      BY <1>2, <2>1 DEF IsrPop, TypeOK
    <2> QED
      BY <1>2, <2>3, <2>4, <2>5, <2>6 DEF IsrPop, TypeOK
  <1>3. CASE IsrExit
    <2> DEFINE ahead == Ahead(next_fire_us, sorted_task_ids_, global_tick_us_)
    <2>1. ahead \in (0 - TickRange \div 2)..(TickRange \div 2)
      BY AheadType DEF TypeOK
    <2>2. ahead > 1 => ahead \in Ticks /\ ahead - 1 \in Ticks
      BY <2>1, RangeAssumption DEF Ticks
    <2>3. Wrap(global_tick_us_ + tim.CNT) \in Ticks
      BY <1>s, WrapType
    <2> HIDE DEF ahead
    <2>4. \/ /\ tim' = [global_timer_disable(tim) EXCEPT !.CNT = 0]
             /\ current_interval_us_' = 0
             /\ UNCHANGED global_tick_us_
          \/ /\ tim' = [global_timer_enable(tim) EXCEPT !.CNT = 0, !.UIF = TRUE]
             /\ current_interval_us_' = 1
             /\ UNCHANGED global_tick_us_
          \/ /\ ahead > 1 /\ current_interval_us_' = ahead
             /\ \/ /\ tim' = [global_timer_enable(tim) EXCEPT !.ARR = ahead - 1, !.CNT = 0]
                   /\ global_tick_us_' = Wrap(global_tick_us_ + tim.CNT)
                \/ /\ tim' = [global_timer_enable(tim) EXCEPT !.ARR = ahead - 1]
                   /\ UNCHANGED global_tick_us_
      BY <1>3 DEF IsrExit, ahead
    <2>5. tim' \in TimerState /\ current_interval_us_' \in Ticks /\ global_tick_us_' \in Ticks
      BY <2>4, <2>2, <2>3, <1>z
      DEF TypeOK, TimerState, global_timer_disable, global_timer_enable
    <2> QED
      BY <1>3, <2>5 DEF IsrExit, TypeOK
  <1>4. CASE Tick
    <2>1. Wrap(tim.CNT + 1) \in Ticks
      BY <1>s, WrapType
    <2>2. tim' \in TimerState
      BY <1>4, <1>z, <2>1 DEF Tick, TypeOK, TimerState
    <2> QED
      BY <1>4, <2>2 DEF Tick, TypeOK
  <1> QED
    BY <1>1, <1>2, <1>3, <1>4 DEF Isr

(* Every step of every actor leaves each of them in its range. *)
LEMMA TypeStep == TypeOK /\ [Next]_vars => TypeOK'
  <1> SUFFICES ASSUME TypeOK, [Next]_vars PROVE TypeOK'
    OBVIOUS
  <1>1. CASE Next
    BY <1>1, TypeClient, TypeCall, TypeUpdate, TypeIsrTick DEF Next
  <1>2. CASE UNCHANGED vars
    BY <1>2 DEF vars, tasks, queue, clock, main, call, TypeOK
  <1> QED
    BY <1>1, <1>2

(* The scheduler's statics, the timer's registers and the locals of the    *)
(* calls stay in their ranges, for every number of slots, every width of   *)
(* the tick and every latency of the interrupt.                            *)
THEOREM TypeCorrect == Spec => []TypeOK
  BY TypeInit, TypeStep, PTL DEF Spec
-----------------------------------------------------------------------------
(* No task is lost, as long as no client has broken the queue.             *)

QueueInv == QueueSound /\ TasksKept /\ CallSound

(* What a client has broken stays broken. *)
LEMMA BrokenStays == [Next]_vars /\ broken => broken'
  <1> SUFFICES ASSUME [Next]_vars, broken PROVE broken'
    OBVIOUS
  <1>1. CASE Client
    BY <1>1 DEF Client, register_task, set_timeout, Allocate, unregister_task, cancel_timeout, Remove
  <1>2. CASE Call
    BY <1>2 DEF Call, InsertSlot, RemoveSlot, Unlock, SetInterval, ForceUpdate, SetReload,
                CheckOvershoot, ReadCount, RestartCount, LoadTick, StoreTick, EnableTimer
  <1>3. CASE Update
    BY <1>3 DEF Update, UpdateBegin, UpdateWarned, RunTask, CallbackReturn, UpdateEnd
  <1>4. CASE Isr \/ Tick \/ UNCHANGED vars
    BY <1>4 DEF Isr, IsrEnter, IsrPop, IsrExit, Tick, vars
  <1> QED
    BY <1>1, <1>2, <1>3, <1>4 DEF Next

LEMMA QueueInit == Init => QueueInv
  <1> SUFFICES ASSUME Init PROVE QueueInv
    OBVIOUS
  <1>1. Queued = {}
    BY DEF Init, Queued, Held, Slots
  <1>2. QueueSound
    BY <1>1, SlotsAssumption DEF Init, QueueSound, WellFormed, NoIds, Slots
  <1>3. TasksKept /\ CallSound
    BY DEF Init, TasksKept, CallSound
  <1> QED
    BY <1>2, <1>3 DEF QueueInv

(* A slot that is about to be queued was free: it is in no queue yet. *)
LEMMA QueueAllocate ==
  ASSUME TypeOK, QueueInv, ~broken',
         (\E us \in Periods : register_task(us)) \/ (\E us \in Delays : set_timeout(us))
  PROVE  QueueInv'
  <1> USE DEF tasks, queue, clock, main, call
  <1>1. PICK slot \in free_bitmap_ :
          /\ pc = "app" \/ slot # running
          /\ free_bitmap_' = free_bitmap_ \ {slot}
          /\ \E r \in BOOLEAN : repeating' = [repeating EXCEPT ![slot] = r]
          /\ op' = slot
    BY DEF register_task, set_timeout, Allocate, InClient
  <1>2. /\ step' = "insert" /\ step = "none" /\ pc \in {"app", "callback"}
        /\ UNCHANGED <<queue, ready_bitmap_, pc, running>>
    BY DEF register_task, set_timeout, Allocate, InClient
  <1>3. Queued' = Queued
    BY <1>2 DEF Queued
  <1>4. slot \notin Queued /\ slot \notin ready_bitmap_ /\ slot \in Slots
    BY DEF QueueInv, QueueSound, TasksKept, TypeOK
  <1>5. \A s \in Slots : s # slot => repeating'[s] = repeating[s]
    BY <1>1, <1>4 DEF TypeOK
  <1>6. QueueSound'
    BY <1>1, <1>2, <1>3 DEF QueueInv, QueueSound
  <1>7. TasksKept'
    <2>1. ASSUME NEW s \in Slots \ free_bitmap_', s # slot
          PROVE  \/ repeating'[s] /\ s \in Queued'
                 \/ ~repeating'[s] /\ (s \in Queued' <=> s \notin ready_bitmap_')
      <3>1. s \in Slots \ free_bitmap_ /\ step # "insert"
        BY <1>1, <1>2, <2>1
      <3> QED
        BY <3>1, <2>1, <1>2, <1>3, <1>5 DEF QueueInv, TasksKept
    <2>2. (ready_bitmap_ \intersect free_bitmap_ = {})'
      BY <1>1, <1>2 DEF QueueInv, TasksKept
    <2> QED
      BY <2>1, <2>2, <1>1, <1>2 DEF TasksKept
  <1>8. CallSound'
    BY <1>1, <1>2, <1>3, <1>4 DEF QueueInv, CallSound
  <1> QED
    BY <1>6, <1>7, <1>8 DEF QueueInv

(* A removing call only looks at the slot it is about to remove. *)
LEMMA QueueRemove ==
  ASSUME TypeOK, QueueInv, NEW slot \in Slots, Remove(slot)
  PROVE  QueueInv'
  <1> USE DEF tasks, queue, clock, main, call
  <1>1. Queued' = Queued
    BY DEF Remove, Queued
  <1>2. QueueSound' /\ TasksKept'
    BY <1>1 DEF Remove, InClient, QueueInv, QueueSound, TasksKept
  <1>3. CallSound'
    BY <1>1 DEF Remove, InClient, QueueInv, CallSound
  <1> QED
    BY <1>2, <1>3 DEF QueueInv

(* insert_sorted puts the new task in the queue and loses no other. *)
LEMMA QueueInsertSlot == ASSUME TypeOK, QueueInv, InsertSlot PROVE QueueInv'
  <1> USE DEF tasks, queue, clock, main, call
  <1>1. /\ op \in Slots /\ op \notin Queued /\ op \notin free_bitmap_ /\ op \notin ready_bitmap_
        /\ sorted_task_ids_ \in [Slots -> Slots]
        /\ active_task_count_ \in Nat
        /\ WellFormed(sorted_task_ids_, active_task_count_)
    BY RangeAssumption, SlotsAssumption
    DEF InsertSlot, QueueInv, CallSound, QueueSound, TypeOK
  <1>2. active_task_count_ < kMaxTasks
    BY <1>1, RoomForOther DEF Queued
  <1>3. active_task_count_' = active_task_count_ + 1
    BY <1>1, <1>2, RangeAssumption, SlotsAssumption DEF InsertSlot
  <1>4. PICK pos \in Slots : /\ pos <= active_task_count_
                             /\ sorted_task_ids_' = InsertAt(sorted_task_ids_, pos, op)
    BY DEF InsertSlot
  <1>5. /\ WellFormed(sorted_task_ids_', active_task_count_')
        /\ Queued' = Queued \union {op}
    BY <1>1, <1>2, <1>3, <1>4, InsertHeld DEF Queued
  <1>6. /\ UNCHANGED <<repeating, ready_bitmap_, free_bitmap_, pc, running, op>>
        /\ step = "insert" /\ step' = "unlock"
    BY DEF InsertSlot
  <1>7. QueueSound'
    BY <1>1, <1>5, <1>6 DEF QueueInv, QueueSound
  <1>8. TasksKept'
    BY <1>1, <1>5, <1>6 DEF QueueInv, TasksKept, TypeOK
  <1>9. CallSound'
    BY <1>6 DEF QueueInv, CallSound
  <1> QED
    BY <1>7, <1>8, <1>9 DEF QueueInv

(* remove_sorted finds a queued task in a nibble in use; one that is not   *)
(* queued has been removed by the interrupt, and no stale nibble holds it. *)
LEMMA QueueRemoveSlot ==
  ASSUME TypeOK, QueueInv, RemoveSlot, ~broken'
  PROVE  QueueInv' /\ Queued' = Queued \ {op}
  <1> USE DEF tasks, queue, clock, main, call
  <1>1. /\ op \in Slots /\ op \notin free_bitmap_
        /\ sorted_task_ids_ \in [Slots -> Slots]
        /\ active_task_count_ \in Nat
        /\ WellFormed(sorted_task_ids_, active_task_count_)
        /\ step = "remove"
    BY RangeAssumption, SlotsAssumption
    DEF RemoveSlot, QueueInv, CallSound, QueueSound, TypeOK
  <1>2. /\ WellFormed(sorted_task_ids_', active_task_count_')
        /\ Queued' = Queued \ {op}
    <2>1. CASE op \in Queued
      <3>1. PICK i \in Slots : i < active_task_count_ /\ sorted_task_ids_[i] = op
        BY <2>1 DEF Queued, Held
      <3>2. PICK pos \in Slots :
              /\ FirstMatch(sorted_task_ids_, op, pos)
              /\ sorted_task_ids_' = RemoveAt(sorted_task_ids_, pos)
              /\ active_task_count_' = (active_task_count_ - 1) % CountRange
        BY <3>1 DEF RemoveSlot
      <3>3. pos < active_task_count_ /\ sorted_task_ids_[pos] = op
        BY <3>1, <3>2, <1>1, SlotsAssumption DEF FirstMatch, Slots
      <3>4. active_task_count_' = active_task_count_ - 1
        <4>1. active_task_count_ - 1 \in 0..(CountRange - 1)
          BY <3>3, <1>1, RangeAssumption, SlotsAssumption DEF WellFormed, Slots
        <4>2. \A x \in 0..(CountRange - 1) : x % CountRange = x
          BY RangeAssumption, SlotsAssumption
        <4> QED
          BY <3>2, <4>1, <4>2
      <3> QED
        BY <1>1, <3>2, <3>3, <3>4, RemoveHeld DEF Queued
    <2>2. CASE op \notin Queued
      <3>1. op # 0
        BY <2>2 DEF RemoveSlot
      <3>2. \A i \in Slots : sorted_task_ids_[i] # op
        BY <2>2, <3>1, <1>1, SlotsAssumption DEF Queued, Held, WellFormed, Slots
      <3>3. UNCHANGED queue
        BY <3>2 DEF RemoveSlot, FirstMatch
      <3> QED
        BY <2>2, <3>3, <1>1 DEF Queued
    <2> QED
      BY <2>1, <2>2
  <1>3. /\ ready_bitmap_' = ready_bitmap_ \ {op} /\ free_bitmap_' = free_bitmap_ \union {op}
        /\ UNCHANGED <<repeating, pc, running>>
        /\ step' \in {"none", "unlock"}
    BY DEF RemoveSlot, CallEnds
  <1>4. QueueSound'
    BY <1>2, <1>3 DEF QueueInv, QueueSound
  <1>5. TasksKept'
    BY <1>1, <1>2, <1>3 DEF QueueInv, TasksKept
  <1>6. CallSound'
    BY <1>3 DEF QueueInv, CallSound
  <1> QED
    BY <1>2, <1>4, <1>5, <1>6 DEF QueueInv

(* A one-shot whose callback returns is not queued: its slot can be freed. *)
LEMMA QueueCallbackReturn == ASSUME TypeOK, QueueInv, CallbackReturn PROVE QueueInv'
  <1> USE DEF tasks, queue, clock, main, call
  <1>1. /\ step = "none" /\ step' = "none" /\ pc' = "update"
        /\ ready_bitmap_' = ready_bitmap_ \ {running}
        /\ free_bitmap_' = IF repeating[running] THEN free_bitmap_
                                                 ELSE free_bitmap_ \union {running}
        /\ UNCHANGED <<queue, repeating>>
        /\ running \in Slots /\ running \in ready_bitmap_ \union free_bitmap_
    BY DEF CallbackReturn, FreeAfterRun, QueueInv, CallSound, TypeOK
  <1>2. Queued' = Queued
    BY <1>1 DEF Queued
  <1>3. ~repeating[running] => running \notin Queued
    BY <1>1 DEF QueueInv, QueueSound, TasksKept
  <1>4. QueueSound'
    BY <1>1, <1>2, <1>3 DEF QueueInv, QueueSound
  <1>5. TasksKept'
    BY <1>1, <1>2 DEF QueueInv, TasksKept
  <1>6. CallSound'
    BY <1>1 DEF CallSound
  <1> QED
    BY <1>4, <1>5, <1>6 DEF QueueInv

(* The interrupt moves the front from the queue to the ready tasks and     *)
(* keeps a periodic one queued.                                            *)
LEMMA QueueIsrPop ==
  ASSUME TypeOK, QueueInv, IsrPop
  PROVE  /\ QueueInv'
         /\ sorted_task_ids_[0] \in Queued
         /\ Queued' = IF repeating[sorted_task_ids_[0]] THEN Queued
                       ELSE Queued \ {sorted_task_ids_[0]}
  <1> USE DEF tasks, queue, clock, main, call
  <1> DEFINE front == sorted_task_ids_[0]
             rest == PopFront(sorted_task_ids_)
  <1>1. /\ active_task_count_ > 0 /\ active_task_count_ \in Nat
        /\ sorted_task_ids_ \in [Slots -> Slots]
        /\ WellFormed(sorted_task_ids_, active_task_count_)
        /\ 0 \in Slots
    <2>1. active_task_count_ > 0
      BY DEF IsrPop, FrontIsDue
    <2>2. active_task_count_ \in Nat /\ 0 \in Slots
      BY RangeAssumption, SlotsAssumption DEF TypeOK, Slots
    <2> QED
      BY <2>1, <2>2 DEF QueueInv, QueueSound, TypeOK
  <1>2. front \in Queued /\ front \in Slots /\ front \notin free_bitmap_
    BY <1>1 DEF Queued, Held, QueueInv, QueueSound
  <1>3. /\ rest \in [Slots -> Slots]
        /\ WellFormed(rest, active_task_count_ - 1)
        /\ Held(rest, active_task_count_ - 1) = Queued \ {front}
    BY <1>1, RemoveHeld DEF PopFront, Queued
  <1>4. /\ ready_bitmap_' = ready_bitmap_ \union {front}
        /\ UNCHANGED <<repeating, free_bitmap_, pc, running, step, op>>
    BY DEF IsrPop
  <1>5. /\ WellFormed(sorted_task_ids_', active_task_count_')
        /\ Queued' = IF repeating[front] THEN Queued ELSE Queued \ {front}
    <2>1. CASE repeating[front]
      <3>1. active_task_count_' = active_task_count_
        BY <2>1 DEF IsrPop
      <3>2. PICK pos \in Slots : /\ pos < active_task_count_
                                 /\ sorted_task_ids_' = InsertAt(rest, pos, front)
        BY <2>1 DEF IsrPop
      <3>3. /\ active_task_count_ - 1 \in Nat /\ active_task_count_ - 1 < kMaxTasks
            /\ pos <= active_task_count_ - 1
        BY <1>1, <3>2, SlotsAssumption DEF WellFormed, Slots
      <3>4. /\ WellFormed(sorted_task_ids_', (active_task_count_ - 1) + 1)
            /\ Held(sorted_task_ids_', (active_task_count_ - 1) + 1)
                 = (Queued \ {front}) \union {front}
        BY <1>2, <1>3, <3>2, <3>3, InsertHeld
      <3>5. (active_task_count_ - 1) + 1 = active_task_count_'
        BY <1>1, <3>1
      <3> QED
        BY <2>1, <1>2, <3>4, <3>5 DEF Queued
    <2>2. CASE ~repeating[front]
      <3>1. sorted_task_ids_' = rest /\ active_task_count_' = active_task_count_ - 1
        BY <2>2 DEF IsrPop
      <3> QED
        BY <2>2, <1>3, <3>1 DEF Queued
    <2> QED
      BY <2>1, <2>2
  <1>6. QueueSound'
    BY <1>4, <1>5 DEF QueueInv, QueueSound
  <1>7. TasksKept'
    BY <1>2, <1>4, <1>5 DEF QueueInv, TasksKept
  <1>8. CallSound'
    BY <1>2, <1>4, <1>5 DEF QueueInv, CallSound
  <1> QED
    BY <1>2, <1>5, <1>6, <1>7, <1>8 DEF QueueInv

(* What moves no task between the queue and the bitmaps: the timer's part  *)
(* of a call, the main loop, the ends of the interrupt, the counter.       *)
Quiet ==
  \/ Unlock \/ SetInterval \/ ForceUpdate \/ SetReload \/ CheckOvershoot \/ ReadCount \/ RestartCount \/ LoadTick \/ StoreTick \/ EnableTimer
  \/ UpdateBegin \/ UpdateWarned \/ RunTask \/ UpdateEnd
  \/ IsrEnter \/ IsrExit \/ Tick \/ UNCHANGED vars

LEMMA QueueQuiet ==
  ASSUME TypeOK, QueueInv, Quiet
  PROVE  /\ QueueInv'
         /\ UNCHANGED <<repeating, queue, ready_bitmap_, free_bitmap_>>
  <1> USE DEF tasks, queue, clock, main, call
  <1>1. UNCHANGED <<repeating, queue, ready_bitmap_, free_bitmap_>>
    BY DEF Quiet, Unlock, SetInterval, ForceUpdate, SetReload, CheckOvershoot, ReadCount, RestartCount, LoadTick, StoreTick, EnableTimer,
           UpdateBegin, UpdateWarned, RunTask, UpdateEnd, IsrEnter, IsrExit, Tick, vars
  <1>2. \/ UNCHANGED <<step, op>>
        \/ step' \notin {"insert", "remove"} /\ step \notin {"insert", "remove"}
    BY DEF Quiet, Unlock, SetInterval, ForceUpdate, SetReload, CheckOvershoot, ReadCount, RestartCount, LoadTick, StoreTick, EnableTimer,
           UpdateBegin, UpdateWarned, RunTask, UpdateEnd, IsrEnter, IsrExit, Tick, vars, CallEnds
  <1>3. pc' = "callback" => \/ running' \in ready_bitmap_
                            \/ pc = "callback" /\ running' = running
    BY DEF Quiet, Unlock, SetInterval, ForceUpdate, SetReload, CheckOvershoot, ReadCount, RestartCount, LoadTick, StoreTick, EnableTimer,
           UpdateBegin, UpdateWarned, RunTask, UpdateEnd, IsrEnter, IsrExit, Tick, vars
  <1>4. Queued' = Queued
    BY <1>1 DEF Queued
  <1>5. QueueSound'
    BY <1>1, <1>4 DEF QueueInv, QueueSound
  <1>6. TasksKept'
    BY <1>1, <1>2, <1>4 DEF QueueInv, TasksKept
  <1>7. CallSound'
    BY <1>1, <1>2, <1>3, <1>4 DEF QueueInv, CallSound
  <1> QED
    BY <1>1, <1>5, <1>6, <1>7 DEF QueueInv

(* Every step of the scheduler that breaks nothing is one of these cases. *)
LEMMA QueueStep == TypeOK /\ QueueInv /\ ~broken' /\ [Next]_vars => QueueInv'
  <1> SUFFICES ASSUME TypeOK, QueueInv, ~broken', [Next]_vars PROVE QueueInv'
    OBVIOUS
  <1>1. CASE Client
    <2>1. ASSUME NEW slot \in Slots, cancel_timeout(task_id[slot]) PROVE QueueInv'
      <3>1. task_id[slot] % kMaxTasks \in Slots
        <4>1. \A x \in Int : x % kMaxTasks \in 0..(kMaxTasks - 1)
          BY SlotsAssumption
        <4>2. task_id[slot] \in 0..(IdRange - 1)
          BY DEF TypeOK
        <4> QED
          BY <4>1, <4>2, RangeAssumption DEF Slots
      <3> QED
        BY <2>1, <3>1, QueueRemove DEF cancel_timeout
    <2>2. ASSUME NEW id \in Slots, unregister_task(id) PROVE QueueInv'
      BY <2>2, QueueRemove DEF unregister_task
    <2> QED
      BY <1>1, <2>1, <2>2, QueueAllocate DEF Client
  <1>2. CASE InsertSlot \/ RemoveSlot \/ CallbackReturn \/ IsrPop
    BY <1>2, QueueInsertSlot, QueueRemoveSlot, QueueCallbackReturn, QueueIsrPop
  <1>3. CASE Quiet
    BY <1>3, QueueQuiet
  <1> QED
    BY <1>1, <1>2, <1>3 DEF Next, Call, Update, Isr, Quiet

LEMMA QueueInvariance == Spec => [](broken \/ (TypeOK /\ QueueInv))
  <1>1. Init => QueueInv
    BY QueueInit
  <1>2. TypeOK /\ (broken \/ QueueInv) /\ [Next]_vars => (broken \/ QueueInv)'
    BY QueueStep, BrokenStays
  <1> QED
    BY <1>1, <1>2, TypeCorrect, PTL DEF Spec

(* The statics are in range, always, and the word of task ids is what its  *)
(* comment says (Scheduler.hpp:80) after any sequence of API calls,        *)
(* interrupts and callbacks, for every number of slots, until a client     *)
(* ends a one-shot that has fired in slot 0 or registers from a callback   *)
(* that has ended its own task.                                            *)
THEOREM QueueIsAlwaysSound == Spec => []QueueIsSound
  <1>1. TypeOK /\ (broken \/ (TypeOK /\ QueueInv)) => QueueIsSound
    BY DEF QueueIsSound, QueueInv
  <1> QED
    BY <1>1, TypeCorrect, QueueInvariance, PTL

(* Main context and interrupt never lose a registered task between them:   *)
(* one that was not ended is queued or ready, until a client ends a        *)
(* one-shot that has fired in slot 0 or registers from a callback that has *)
(* ended its own task.                                                     *)
THEOREM NoTaskIsLost == Spec => []NoTaskLost
  <1>1. broken \/ (TypeOK /\ QueueInv) => NoTaskLost
    BY DEF NoTaskLost, QueueInv
  <1> QED
    BY <1>1, QueueInvariance, PTL
-----------------------------------------------------------------------------
(* A waiting task is waited for. *)

(* From SetReload on a call relies on what the next step still finds; an   *)
(* interrupt that comes in between has armed the timer itself.             *)
Arming ==
  /\ step = "arr" => Abs(diff) > 1
  /\ isr = "none" /\ active_task_count_ > 0 =>
       /\ step = "arr" => current_interval_us_ # 1 \/ tim.UIF
       /\ step \in {"overshoot", "count", "restart"} => tim.ARR > 0 \/ tim.UIF
       /\ step \in {"load", "store", "enable"} =>
            tim.UIF \/ (tim.ARR > 0 /\ tim.CNT <= tim.ARR)

TimerInv == Armed /\ Arming

(* The interrupt leaves the timer armed, whatever it interrupted.          *)
LEMMA IsrExitArms == ASSUME TypeOK, TimerInv, IsrExit PROVE TimerInv'
  <1> DEFINE ahead == Ahead(next_fire_us, sorted_task_ids_, global_tick_us_)
  <1>1. ahead \in Int
    BY AheadType, RangeAssumption DEF TypeOK
  <1>2. active_task_count_ > 0 => ahead > 0
    BY <1>1 DEF IsrExit, FrontIsDue
  <1>3. tim \in TimerState /\ active_task_count_ \in Nat
    BY DEF TypeOK
  <1> HIDE DEF ahead
  <1>4. /\ UNCHANGED <<step, diff, active_task_count_>>
        /\ \/ active_task_count_ = 0
           \/ tim'.CEN /\ tim'.UIF
           \/ /\ tim'.CEN /\ tim'.ARR > 0 /\ tim'.CNT <= tim'.ARR
              /\ current_interval_us_' # 1
    <2>1. UNCHANGED <<step, diff, active_task_count_>>
      BY DEF IsrExit, call, queue
    <2>2. CASE active_task_count_ = 0
      BY <2>1, <2>2
    <2>3. CASE active_task_count_ > 0 /\ ahead = 1
      <3>1. tim' = [global_timer_enable(tim) EXCEPT !.CNT = 0, !.UIF = TRUE]
        BY <1>3, <2>3 DEF IsrExit, ahead
      <3>2. tim'.CEN = TRUE /\ tim'.UIF = TRUE
        BY <1>3, <3>1 DEF global_timer_enable, TimerState
      <3> QED
        BY <2>1, <3>2
    <2>4. CASE active_task_count_ > 0 /\ ahead > 1
      <3>1. current_interval_us_' = ahead
        BY <2>4 DEF IsrExit, ahead
      <3>2. \/ tim.CNT > ahead - 1 /\ tim' = [global_timer_enable(tim) EXCEPT !.ARR = ahead - 1, !.CNT = 0]
            \/ ~(tim.CNT > ahead - 1) /\ tim' = [global_timer_enable(tim) EXCEPT !.ARR = ahead - 1]
        BY <2>4 DEF IsrExit, ahead
      <3>3. tim.CNT \in Int
        BY <1>3, RangeAssumption DEF TimerState, Ticks
      <3>4. tim'.CEN = TRUE
        BY <1>3, <3>2 DEF global_timer_enable, TimerState
      <3>5. tim'.ARR = ahead - 1 /\ (tim'.CNT = 0 \/ (tim'.CNT = tim.CNT /\ ~(tim.CNT > ahead - 1)))
        BY <1>3, <3>2 DEF global_timer_enable, TimerState
      <3>6. tim'.CNT <= ahead - 1
        BY <1>1, <2>4, <3>3, <3>5
      <3> QED
        BY <1>1, <2>1, <2>4, <3>1, <3>4, <3>5, <3>6
    <2> QED
      BY <1>1, <1>2, <1>3, <2>2, <2>3, <2>4
  <1> QED
    BY <1>4 DEF TimerInv, Armed, Arming

(* The counter runs on to its reload value and then asks for the interrupt. *)
LEMMA TickKeepsArmed == ASSUME TypeOK, TimerInv, Tick PROVE TimerInv'
  <1>1. UNCHANGED <<step, diff, isr, active_task_count_, current_interval_us_>>
    BY DEF Tick, call, queue, clock
  <1>2. /\ tim \in TimerState /\ tim.CNT \in Int /\ tim.ARR \in Int
        /\ tim.CNT <= TickRange - 1 /\ tim.CNT >= 0 /\ tim.ARR <= TickRange - 1
    BY RangeAssumption DEF TypeOK, TimerState, Ticks
  <1>3. /\ tim'.CEN = tim.CEN /\ tim'.ARR = tim.ARR
        /\ tim.UIF => tim'.UIF
        /\ tim.CNT <= tim.ARR => tim'.UIF \/ tim'.CNT <= tim'.ARR
    <2>1. CASE tim.CNT = tim.ARR
      BY <1>2, <2>1 DEF Tick, TimerState
    <2>2. CASE tim.CNT # tim.ARR
      <3>1. tim.CNT < tim.ARR => Wrap(tim.CNT + 1) = tim.CNT + 1
        BY <1>2, RangeAssumption DEF Wrap
      <3>2. tim' = [tim EXCEPT !.CNT = Wrap(tim.CNT + 1)]
        BY <1>2, <2>2 DEF Tick
      <3>3. tim'.CEN = tim.CEN /\ tim'.ARR = tim.ARR /\ tim'.UIF = tim.UIF
        BY <1>2, <3>2 DEF TimerState
      <3>4. tim.CNT < tim.ARR => tim'.CNT = tim.CNT + 1
        BY <1>2, <3>1, <3>2 DEF TimerState
      <3> QED
        BY <1>2, <2>2, <3>3, <3>4
    <2> QED
      BY <2>1, <2>2
  <1> QED
    BY <1>1, <1>3 DEF TimerInv, Armed, Arming

(* The masked and unmasked halves of schedule_next_interval.               *)
LEMMA CallArms == ASSUME TypeOK, TimerInv, Call PROVE TimerInv'
  <1> USE DEF queue, clock, call, TimerInv, Armed, Arming
  <1>t. /\ tim \in TimerState /\ tim.CNT \in Int /\ tim.ARR \in Int
        /\ current_interval_us_ \in Ticks /\ diff \in Int
        /\ Abs(diff) \in Int /\ Abs(diff) <= TickRange \div 2
    BY RangeAssumption DEF TypeOK, TimerState, Ticks, Abs
  <1>1. CASE InsertSlot
    BY <1>1 DEF InsertSlot
  <1>2. CASE RemoveSlot
    BY <1>2 DEF RemoveSlot, CallEnds
  <1>3. CASE Unlock
    BY <1>3 DEF Unlock
  <1>4. CASE SetInterval
    <2>1. diff \notin -1..1 => Abs(diff) > 1
      BY <1>t DEF Abs
    <2> QED
      BY <1>4, <1>t, <2>1 DEF SetInterval
  <1>5. CASE ForceUpdate
    BY <1>5, <1>t DEF ForceUpdate, TimerState
  <1>6. CASE SetReload
    <2>1. PICK interval \in {Abs(diff), current_interval_us_} :
             tim' = [tim EXCEPT !.ARR = Wrap(interval - 1)]
      BY <1>6 DEF SetReload
    <2>2. interval \in Ticks
      BY <1>t, RangeAssumption DEF Abs, Ticks
    <2>3. interval # 1 => Wrap(interval - 1) > 0
      <3>1. interval > 1 => Wrap(interval - 1) = interval - 1
        BY <2>2, RangeAssumption DEF Wrap, Ticks
      <3>2. interval = 0 => Wrap(interval - 1) = TickRange - 1
        BY RangeAssumption DEF Wrap
      <3> QED
        BY <2>2, <3>1, <3>2, RangeAssumption DEF Ticks
    <2>4. tim'.ARR = Wrap(interval - 1) /\ tim'.UIF = tim.UIF
      BY <2>1, <1>t DEF TimerState
    <2>5. active_task_count_ > 0 => interval # 1 \/ tim.UIF
      BY <1>6, <2>1, <1>t DEF SetReload, MainCanStep
    <2> QED
      BY <1>6, <2>3, <2>4, <2>5 DEF SetReload
  <1>7. CASE CheckOvershoot \/ ReadCount
    BY <1>7, <1>t DEF CheckOvershoot, ReadCount, Overshot, TimerState, MainCanStep
  <1>9. CASE RestartCount
    BY <1>9, <1>t DEF RestartCount, TimerState, MainCanStep
  <1>10. CASE LoadTick \/ StoreTick
    BY <1>10, <1>t DEF LoadTick, StoreTick, MainCanStep
  <1>8. CASE EnableTimer
    BY <1>8, <1>t DEF EnableTimer, CallEnds, global_timer_enable, TimerState, MainCanStep
  <1> QED
    BY <1>1, <1>2, <1>3, <1>4, <1>5, <1>6, <1>7, <1>8, <1>9, <1>10 DEF Call

(* Once the API call and the interrupt are over, a task that waits has a   *)
(* running counter short of its reload value or a requested interrupt: no  *)
(* interleaving of schedule_next_interval with the interrupt, its unmasked *)
(* half included, leaves the timer unable to fire.                         *)
THEOREM TimerStaysArmed == Spec => []Armed
  <1>1. Init => TimerInv
    BY DEF Init, TimerInv, Armed, Arming
  <1>2. TypeOK /\ TimerInv /\ [Next]_vars => TimerInv'
    <2> SUFFICES ASSUME TypeOK, TimerInv, [Next]_vars PROVE TimerInv'
      OBVIOUS
    <2> USE DEF vars, tasks, queue, clock, main, call, TimerInv, Armed, Arming
    <2>1. CASE Client
      BY <2>1 DEF Client, register_task, set_timeout, unregister_task, cancel_timeout,
                  Allocate, Remove
    <2>2. CASE Call
      BY <2>2, CallArms
    <2>3. CASE Update
      BY <2>3 DEF Update, UpdateBegin, UpdateWarned, RunTask, CallbackReturn, UpdateEnd
    <2>4. CASE IsrEnter \/ IsrPop
      BY <2>4 DEF IsrEnter, IsrPop
    <2>5. CASE IsrExit \/ Tick
      BY <2>5, IsrExitArms, TickKeepsArmed
    <2>6. CASE UNCHANGED vars
      BY <2>6
    <2> QED
      BY <2>1, <2>2, <2>3, <2>4, <2>5, <2>6 DEF Next, Isr
  <1>3. TimerInv => Armed
    BY DEF TimerInv
  <1> QED
    BY <1>1, <1>2, <1>3, TypeCorrect, PTL DEF Spec
-----------------------------------------------------------------------------
(* Ids. *)

(* Whatever the odd timeout_idx_, an id is the slot plus kMaxTasks modulo  *)
(* twice kMaxTasks: above every task's id, and not INVALID_ID.             *)
LEMMA TimeoutIdRange ==
  ASSUME NEW slot \in Slots, NEW idx \in Nat, idx % 2 = 1
  PROVE  LET id == (slot + idx * kMaxTasks) % IdRange
         IN  id >= kMaxTasks /\ id # INVALID_ID
  <1> DEFINE n == slot + idx * kMaxTasks
             id == n % IdRange
             turns == n \div IdRange
             half == idx \div 2
             words == IdRange \div (2 * kMaxTasks)
  <1>1. idx = 2 * half + 1 /\ half \in Nat
    OBVIOUS
  <1>2. kMaxTasks \in Nat \ {0} /\ 2 * kMaxTasks \in Nat \ {0} /\ slot \in 0..(kMaxTasks - 1)
    BY SlotsAssumption DEF Slots
  <1>3. IdRange = (2 * kMaxTasks) * words /\ words \in Nat
    BY <1>2, RangeAssumption
  <1>4. n \in Nat
    BY <1>2
  <1>5. n = IdRange * turns + id /\ turns \in Nat /\ id \in Nat
    <2>1. IdRange \in Nat \ {0}
      BY RangeAssumption
    <2> HIDE DEF n
    <2>2. id \in 0..(IdRange - 1) /\ turns \in Int
      BY <1>4, <2>1
    <2>3. n = IdRange * turns + id
      BY <1>4, <2>1
    <2>4. turns >= 0
      BY <1>4, <2>1, <2>2, <2>3
    <2> QED
      BY <2>2, <2>3, <2>4
  <1> DEFINE m == half - words * turns
  <1>6. m \in Int
    BY <1>1, <1>3, <1>5
  <1>7. id = slot + kMaxTasks + (2 * kMaxTasks) * m
    <2>1. n = slot + kMaxTasks + (2 * kMaxTasks) * half
      BY <1>1, <1>2
    <2>2. IdRange * turns = (2 * kMaxTasks) * (words * turns)
      BY <1>2, <1>3, <1>5
    <2> HIDE DEF n, id, turns, half, words
    <2>3. (2 * kMaxTasks) * m = (2 * kMaxTasks) * half - (2 * kMaxTasks) * (words * turns)
      BY <1>1, <1>2, <1>3, <1>5
    <2> QED
      BY <1>1, <1>2, <1>3, <1>4, <1>5, <2>1, <2>2, <2>3
  <1> HIDE DEF n, id, turns, half, words, m
  <1>8. m >= 0
    <2> SUFFICES ASSUME m <= -1 PROVE FALSE
      BY <1>6
    <2>1. (2 * kMaxTasks) * m <= 0 - 2 * kMaxTasks
      BY <1>2, <1>6
    <2> QED
      BY <1>2, <1>5, <1>6, <1>7, <2>1
  <1>9. (2 * kMaxTasks) * m = 0 \/ (2 * kMaxTasks) * m >= 2 * kMaxTasks
    BY <1>2, <1>6, <1>8
  <1>10. id >= kMaxTasks /\ id # 2 * kMaxTasks
    <2> DEFINE words_above == (2 * kMaxTasks) * m
    <2>1. words_above \in Int /\ id = slot + kMaxTasks + words_above
      BY <1>2, <1>6, <1>7
    <2>2. words_above = 0 \/ words_above >= 2 * kMaxTasks
      BY <1>9
    <2> HIDE DEF words_above
    <2> QED
      BY <1>2, <1>5, <2>1, <2>2
  <1> QED
    BY <1>10 DEF INVALID_ID, id, n

IdsInv == timeout_idx_ % 2 = 1 /\ TimeoutIdsApart

(* The id of a timeout in use is never below kMaxTasks, where the ids of   *)
(* periodic tasks are, nor INVALID_ID, however often the counter of        *)
(* timeouts has wrapped ("keeps idx odd, never 0", Scheduler.cpp:319).     *)
THEOREM TimeoutIdsStayApart == Spec => []TimeoutIdsApart
  <1>1. Init => IdsInv
    BY DEF Init, IdsInv, TimeoutIdsApart
  <1>2. TypeOK /\ IdsInv /\ [Next]_vars => IdsInv'
    <2> SUFFICES ASSUME TypeOK, IdsInv, [Next]_vars PROVE IdsInv'
      OBVIOUS
    <2> USE DEF vars, tasks, queue, clock, main, call
    <2>1. ASSUME NEW us \in Delays, set_timeout(us) PROVE IdsInv'
      <3>1. NextIdx(timeout_idx_) % 2 = 1
        <4>1. IdRange % 2 = 0
          <5> DEFINE words == IdRange \div (2 * kMaxTasks)
          <5>1. IdRange = 2 * (kMaxTasks * words) /\ kMaxTasks * words \in Nat
            BY SlotsAssumption, RangeAssumption
          <5> HIDE DEF words
          <5> QED
            BY <5>1
        <4>2. timeout_idx_ \in 0..(IdRange - 1) /\ timeout_idx_ % 2 = 1 /\ IdRange \in Nat /\ IdRange > 1
          BY <4>1, RangeAssumption DEF TypeOK, IdsInv
        <4>3. (timeout_idx_ + 2) % IdRange = IF timeout_idx_ + 2 < IdRange THEN timeout_idx_ + 2
                                             ELSE timeout_idx_ + 2 - IdRange
          BY <4>1, <4>2
        <4> QED
          BY <4>1, <4>2, <4>3 DEF NextIdx
      <3>2. PICK slot \in Slots : Allocate(slot, us, FALSE, timeout_id(slot))
        BY <2>1 DEF set_timeout
      <3>3. timeout_id(slot) >= kMaxTasks /\ timeout_id(slot) # INVALID_ID
        BY TimeoutIdRange DEF timeout_id, TypeOK, IdsInv
      <3> QED
        BY <2>1, <3>1, <3>2, <3>3 DEF set_timeout, Allocate, IdsInv, TimeoutIdsApart, TypeOK
    <2>2. ASSUME NEW us \in Periods, register_task(us) PROVE IdsInv'
      BY <2>2 DEF register_task, Allocate, IdsInv, TimeoutIdsApart, TypeOK
    <2>3. CASE RemoveSlot
      BY <2>3 DEF RemoveSlot, IdsInv, TimeoutIdsApart
    <2>4. CASE CallbackReturn
      BY <2>4 DEF CallbackReturn, FreeAfterRun, IdsInv, TimeoutIdsApart
    <2>5. UNCHANGED <<repeating, task_id, timeout_idx_, free_bitmap_>> => IdsInv'
      BY DEF IdsInv, TimeoutIdsApart
    <2>6. CASE \/ \E id \in Slots : unregister_task(id)
               \/ \E slot \in Slots : cancel_timeout(task_id[slot])
      BY <2>5, <2>6 DEF unregister_task, cancel_timeout, Remove
    <2>7. CASE InsertSlot \/ Unlock \/ SetInterval \/ ForceUpdate \/ SetReload \/ CheckOvershoot \/ ReadCount \/ RestartCount
               \/ LoadTick \/ StoreTick \/ EnableTimer
      BY <2>5, <2>7 DEF InsertSlot, Unlock, SetInterval, ForceUpdate, SetReload, CheckOvershoot, ReadCount,
                        RestartCount, LoadTick, StoreTick, EnableTimer
    <2>8. CASE UpdateBegin \/ UpdateWarned \/ RunTask \/ UpdateEnd
      BY <2>5, <2>8 DEF UpdateBegin, UpdateWarned, RunTask, UpdateEnd
    <2>9. CASE Isr \/ Tick \/ UNCHANGED vars
      BY <2>5, <2>9 DEF Isr, IsrEnter, IsrPop, IsrExit, Tick
    <2> QED
      BY <2>1, <2>2, <2>3, <2>4, <2>6, <2>7, <2>8, <2>9 DEF Next, Client, Call, Update
  <1>3. IdsInv => TimeoutIdsApart
    BY DEF IdsInv
  <1> QED
    BY <1>1, <1>2, <1>3, TypeCorrect, PTL DEF Spec
-----------------------------------------------------------------------------
(* Firing order. *)

Half == TickRange \div 2

(* How far after base a deadline is, and deadlines close to each other.    *)
Offset(fire, base, s) == Wrap(fire[s] - base)
Close(fire, base, held) == \A s \in held : Offset(fire, base, s) < Half

Sorted(fire, ids, n) ==
  \A i, j \in Slots : i < j /\ j < n => Signed(fire[ids[j]] - fire[ids[i]]) >= 0

LEMMA SlotsAreNumbers ==
  /\ \A i \in Slots : i \in Int /\ 0 <= i /\ i < kMaxTasks
  /\ \A i \in Int : 0 <= i /\ i < kMaxTasks => i \in Slots
  /\ kMaxTasks \in Nat
  <1>1. kMaxTasks \in Nat
    BY SlotsAssumption
  <1>2. Slots = 0..(kMaxTasks - 1)
    BY DEF Slots
  <1> QED
    BY <1>1, <1>2

LEMMA WrapOfDifference ==
  ASSUME NEW x \in Ticks, NEW y \in Ticks
  PROVE  Wrap(x - y) = IF x - y >= 0 THEN x - y ELSE (x - y) + TickRange
  <1> DEFINE z == x - y
  <1>1. TickRange \in Nat /\ TickRange > 3 /\ z \in Int /\ z < TickRange /\ z > 0 - TickRange
    BY RangeAssumption DEF Ticks
  <1> HIDE DEF z
  <1>2. CASE z >= 0
    <2>1. z % TickRange = z
      BY <1>1, <1>2
    <2> QED
      BY <1>2, <2>1 DEF Wrap, z
  <1>3. CASE ~(z >= 0)
    <2>1. z + TickRange \in 0..(TickRange - 1)
      BY <1>1, <1>3
    <2>2. z % TickRange = z + TickRange
      BY <1>1, <1>3, <2>1
    <2> QED
      BY <1>3, <2>2 DEF Wrap, z
  <1> QED
    BY <1>2, <1>3

(* Close to each other, the sign of a difference is the order.             *)
LEMMA SignIsOrder ==
  ASSUME NEW fire \in [Slots -> Ticks], NEW base \in Ticks, NEW s \in Slots, NEW t \in Slots,
         Offset(fire, base, s) < Half, Offset(fire, base, t) < Half
  PROVE  /\ Signed(fire[s] - fire[t]) >= 0 <=> Offset(fire, base, t) <= Offset(fire, base, s)
         /\ Offset(fire, base, s) \in Nat /\ Signed(fire[s] - fire[t]) \in Int
  <1>1. TickRange \in Nat /\ TickRange = 2 * Half /\ Half \in Nat
    BY RangeAssumption DEF Half
  <1>2. PICK x, y, b \in Ticks : x = fire[s] /\ y = fire[t] /\ b = base
    OBVIOUS
  <1>3. x \in Int /\ y \in Int /\ b \in Int /\ 0 <= x /\ 0 <= y /\ 0 <= b
        /\ x < TickRange /\ y < TickRange /\ b < TickRange
    BY <1>1 DEF Ticks
  <1>4. /\ Offset(fire, base, s) = IF x - b >= 0 THEN x - b ELSE (x - b) + TickRange
        /\ Offset(fire, base, t) = IF y - b >= 0 THEN y - b ELSE (y - b) + TickRange
        /\ Wrap(x - y) = IF x - y >= 0 THEN x - y ELSE (x - y) + TickRange
    BY <1>2, WrapOfDifference DEF Offset
  <1>5. Signed(fire[s] - fire[t]) = IF Wrap(x - y) < Half THEN Wrap(x - y) ELSE Wrap(x - y) - TickRange
    BY <1>2 DEF Signed, Half
  <1> QED
    BY <1>1, <1>3, <1>4, <1>5

(* Inserting at a place the search may end at keeps the order.             *)
LEMMA InsertSorted ==
  ASSUME NEW fire \in [Slots -> Ticks], NEW ids \in [Slots -> Slots], NEW n \in Nat, n < kMaxTasks,
         Sorted(fire, ids, n), NEW id \in Slots, NEW pos \in Slots, pos <= n,
         Boundary(fire, ids, n, fire[id], pos),
         NEW base \in Ticks, Close(fire, base, Held(ids, n) \union {id})
  PROVE  Sorted(fire, InsertAt(ids, pos, id), n + 1)
  <1> DEFINE new == InsertAt(ids, pos, id)
             off(s) == Offset(fire, base, s)
  <1>1. \A i \in Slots : new[i] = IF i < pos THEN ids[i] ELSE IF i = pos THEN id ELSE ids[i - 1]
    BY DEF InsertAt
  <1>2. /\ \A i \in Slots : i \in Int /\ 0 <= i /\ i < kMaxTasks
        /\ \A i \in Int : 0 <= i /\ i < kMaxTasks => i \in Slots
        /\ kMaxTasks \in Nat
    BY SlotsAreNumbers
  <1>3. \A s, t \in Held(ids, n) \union {id} :
          /\ Signed(fire[s] - fire[t]) >= 0 <=> off(t) <= off(s)
          /\ off(s) \in Nat /\ Signed(fire[s] - fire[t]) \in Int
    <2>1. Held(ids, n) \union {id} \subseteq Slots
      BY DEF Held
    <2> QED
      BY <2>1, SignIsOrder DEF Close
  <1>4. \A i \in Slots : i < n => ids[i] \in Held(ids, n)
    BY DEF Held
  <1> HIDE DEF off
  <1>5. \A i, j \in Slots : i < j /\ j < n => off(ids[i]) <= off(ids[j])
    BY <1>3, <1>4, <1>2 DEF Sorted
  <1>6. \A i \in Slots : i < pos => off(ids[i]) <= off(id)
    <2> SUFFICES ASSUME NEW i \in Slots, i < pos PROVE off(ids[i]) <= off(id)
      OBVIOUS
    <2>1. pos > 0 /\ pos - 1 \in Slots /\ pos - 1 < n /\ i <= pos - 1 /\ i < n
      BY <1>2
    <2>2. Signed(fire[id] - fire[ids[pos - 1]]) >= 0
      BY <2>1 DEF Boundary
    <2>3. off(ids[pos - 1]) <= off(id)
      BY <1>3, <1>4, <2>1, <2>2
    <2>4. i = pos - 1 \/ off(ids[i]) <= off(ids[pos - 1])
      BY <1>2, <1>5, <2>1
    <2>5. off(ids[i]) \in Nat /\ off(ids[pos - 1]) \in Nat /\ off(id) \in Nat
      BY <1>3, <1>4, <2>1
    <2> QED
      BY <2>3, <2>4, <2>5
  <1>7. \A j \in Slots : pos <= j /\ j < n => off(id) <= off(ids[j])
    <2> SUFFICES ASSUME NEW j \in Slots, pos <= j, j < n PROVE off(id) <= off(ids[j])
      OBVIOUS
    <2>1. pos < n
      BY <1>2
    <2>2. Signed(fire[id] - fire[ids[pos]]) < 0
      BY <2>1 DEF Boundary
    <2>3. off(id) <= off(ids[pos])
      BY <1>3, <1>4, <2>1, <2>2
    <2>4. j = pos \/ off(ids[pos]) <= off(ids[j])
      BY <1>2, <1>5
    <2>5. off(ids[j]) \in Nat /\ off(ids[pos]) \in Nat /\ off(id) \in Nat
      BY <1>3, <1>4, <2>1
    <2> QED
      BY <2>3, <2>4, <2>5
  <1>8. ASSUME NEW i \in Slots, NEW j \in Slots, i < j, j < n + 1
        PROVE  Signed(fire[new[j]] - fire[new[i]]) >= 0
    <2>1. /\ new[i] \in Held(ids, n) \union {id} /\ new[j] \in Held(ids, n) \union {id}
          /\ off(new[i]) <= off(new[j])
      <3>1. CASE j < pos
        <4>1. new[i] = ids[i] /\ new[j] = ids[j] /\ i < n /\ j < n
          BY <1>1, <1>2, <1>8, <3>1
        <4> QED
          BY <1>4, <1>5, <1>8, <4>1
      <3>2. CASE j = pos
        <4>1. new[i] = ids[i] /\ new[j] = id /\ i < n /\ i < pos
          BY <1>1, <1>2, <1>8, <3>2
        <4> QED
          BY <1>4, <1>6, <4>1
      <3>3. CASE pos < j /\ i < pos
        <4>1. new[i] = ids[i] /\ new[j] = ids[j - 1] /\ j - 1 \in Slots /\ j - 1 < n /\ i < j - 1 /\ i < n
          BY <1>1, <1>2, <1>8, <3>3
        <4> QED
          BY <1>4, <1>5, <4>1
      <3>4. CASE pos < j /\ i = pos
        <4>1. new[i] = id /\ new[j] = ids[j - 1] /\ j - 1 \in Slots /\ j - 1 < n /\ pos <= j - 1
          BY <1>1, <1>2, <1>8, <3>4
        <4> QED
          BY <1>4, <1>7, <4>1
      <3>5. CASE pos < i
        <4>1. /\ new[i] = ids[i - 1] /\ new[j] = ids[j - 1] /\ j - 1 \in Slots /\ i - 1 \in Slots
              /\ j - 1 < n /\ i - 1 < j - 1 /\ i - 1 < n
          BY <1>1, <1>2, <1>8, <3>5
        <4> QED
          BY <1>4, <1>5, <4>1
      <3> QED
        BY <1>2, <1>8, <3>1, <3>2, <3>3, <3>4, <3>5
    <2> QED
      BY <1>3, <2>1
  <1> HIDE DEF new
  <1>9. Sorted(fire, new, n + 1)
    BY <1>8 DEF Sorted
  <1> QED
    BY <1>9 DEF new

LEMMA RemoveSorted ==
  ASSUME NEW fire, NEW ids \in [Slots -> Slots], NEW n \in Nat, n <= kMaxTasks,
         Sorted(fire, ids, n), NEW pos \in Slots, pos < n
  PROVE  Sorted(fire, RemoveAt(ids, pos), n - 1)
  <1> DEFINE new == RemoveAt(ids, pos)
  <1>1. /\ \A i \in Slots : i \in Int /\ 0 <= i /\ i < kMaxTasks
        /\ \A i \in Int : 0 <= i /\ i < kMaxTasks => i \in Slots
        /\ kMaxTasks \in Nat
    BY SlotsAreNumbers
  <1>2. \A i \in Slots : i < n - 1 => i + 1 \in Slots /\ new[i] = IF i < pos THEN ids[i] ELSE ids[i + 1]
    BY <1>1 DEF RemoveAt
  <1> HIDE DEF new
  <1>3. ASSUME NEW i \in Slots, NEW j \in Slots, i < j, j < n - 1
        PROVE  Signed(fire[new[j]] - fire[new[i]]) >= 0
    <2>1. i + 1 \in Slots /\ j + 1 \in Slots /\ i + 1 < j + 1 /\ j + 1 < n /\ i < j + 1 /\ j < n /\ i < n - 1
      BY <1>1, <1>2, <1>3
    <2>2. CASE j < pos
      <3>1. i < pos
        BY <1>1, <1>3, <2>2
      <3>2. new[i] = ids[i] /\ new[j] = ids[j]
        BY <1>2, <1>3, <2>1, <2>2, <3>1
      <3> QED
        BY <1>3, <2>1, <3>2 DEF Sorted
    <2>3. CASE ~(j < pos) /\ i < pos
      <3>1. new[i] = ids[i] /\ new[j] = ids[j + 1]
        BY <1>2, <1>3, <2>1, <2>3
      <3> QED
        BY <2>1, <3>1 DEF Sorted
    <2>4. CASE ~(i < pos) /\ ~(j < pos)
      <3>1. new[i] = ids[i + 1] /\ new[j] = ids[j + 1]
        BY <1>2, <1>3, <2>1, <2>4
      <3> QED
        BY <2>1, <3>1 DEF Sorted
    <2> QED
      BY <2>2, <2>3, <2>4
  <1>4. Sorted(fire, new, n - 1)
    BY <1>3 DEF Sorted
  <1> QED
    BY <1>4 DEF new

(* A new task's deadline is between those of its neighbours, and leaves    *)
(* those of the tasks in the queue as they are.                            *)
LEMMA InsertSlotKeepsOrder ==
  ASSUME TypeOK, QueueInv, QueueSorted, InsertSlot, DeadlinesAreClose'
  PROVE  QueueSorted'
  <1> USE DEF tasks, queue, clock, main, call
  <1>1. /\ op \in Slots /\ op \notin Queued
        /\ sorted_task_ids_ \in [Slots -> Slots] /\ next_fire_us \in [Slots -> Ticks]
        /\ active_task_count_ \in Nat
        /\ WellFormed(sorted_task_ids_, active_task_count_)
    BY RangeAssumption, SlotsAssumption
    DEF InsertSlot, QueueInv, CallSound, QueueSound, TypeOK
  <1>2. active_task_count_ < kMaxTasks
    BY <1>1, RoomForOther DEF Queued
  <1>3. active_task_count_' = active_task_count_ + 1
    BY <1>1, <1>2, RangeAssumption, SlotsAssumption DEF InsertSlot
  <1>4. /\ next_fire_us' \in [Slots -> Ticks]
        /\ \A s \in Slots : s # op => next_fire_us'[s] = next_fire_us[s]
    <2>1. TypeOK'
      BY TypeCall DEF Call
    <2> QED
      BY <1>1, <2>1 DEF TypeOK, InsertSlot, Slots, Ticks
  <1>5. PICK pos \in Slots :
          /\ pos <= active_task_count_
          /\ Boundary(next_fire_us', sorted_task_ids_, active_task_count_, next_fire_us'[op], pos)
          /\ sorted_task_ids_' = InsertAt(sorted_task_ids_, pos, op)
    BY DEF InsertSlot
  <1>6. Queued' = Queued \union {op}
    BY <1>1, <1>2, <1>3, <1>5, InsertHeld DEF Queued
  <1>7. PICK base \in Ticks : Close(next_fire_us', base, Held(sorted_task_ids_, active_task_count_) \union {op})
    BY <1>6 DEF DeadlinesAreClose, Close, Offset, Half, Queued, Ticks
  <1>8. Sorted(next_fire_us', sorted_task_ids_, active_task_count_)
    <2>1. \A i \in Slots : i < active_task_count_ => sorted_task_ids_[i] \in Queued /\ sorted_task_ids_[i] \in Slots
      BY <1>1 DEF Queued, Held
    <2>2. \A i, j \in Slots : i < j /\ j < active_task_count_ => i < active_task_count_
      BY <1>1, SlotsAreNumbers
    <2> QED
      BY <1>1, <1>4, <2>1, <2>2 DEF Sorted, QueueSorted
  <1>9. Sorted(next_fire_us', InsertAt(sorted_task_ids_, pos, op), active_task_count_ + 1)
    <2>1. PICK fire \in [Slots -> Ticks] : fire = next_fire_us'
      BY <1>4
    <2> QED
      BY <1>1, <1>2, <1>5, <1>7, <1>8, <2>1, InsertSorted
  <1> QED
    BY <1>3, <1>5, <1>9 DEF Sorted, QueueSorted, Slots

LEMMA RemoveSlotKeepsOrder ==
  ASSUME TypeOK, QueueInv, QueueSorted, RemoveSlot, ~broken'
  PROVE  QueueSorted'
  <1> USE DEF tasks, queue, clock, main, call
  <1>1. /\ op \in Slots /\ op \notin free_bitmap_
        /\ sorted_task_ids_ \in [Slots -> Slots]
        /\ active_task_count_ \in Nat
        /\ WellFormed(sorted_task_ids_, active_task_count_)
        /\ UNCHANGED next_fire_us /\ step = "remove"
    BY RangeAssumption, SlotsAssumption
    DEF RemoveSlot, QueueInv, CallSound, QueueSound, TypeOK
  <1>2. CASE op \in Queued
    <2>1. PICK i \in Slots : i < active_task_count_ /\ sorted_task_ids_[i] = op
      BY <1>2 DEF Queued, Held
    <2>2. PICK pos \in Slots :
            /\ FirstMatch(sorted_task_ids_, op, pos)
            /\ sorted_task_ids_' = RemoveAt(sorted_task_ids_, pos)
            /\ active_task_count_' = (active_task_count_ - 1) % CountRange
      BY <2>1 DEF RemoveSlot
    <2>3. pos < active_task_count_ /\ sorted_task_ids_[pos] = op
      BY <2>1, <2>2, <1>1, SlotsAssumption DEF FirstMatch, Slots
    <2>4. active_task_count_' = active_task_count_ - 1
      <3>1. active_task_count_ - 1 \in 0..(CountRange - 1)
        BY <2>3, <1>1, RangeAssumption, SlotsAssumption DEF WellFormed, Slots
      <3>2. \A x \in 0..(CountRange - 1) : x % CountRange = x
        BY RangeAssumption, SlotsAssumption
      <3> QED
        BY <2>2, <3>1, <3>2
    <2>5. Sorted(next_fire_us, sorted_task_ids_, active_task_count_) /\ active_task_count_ <= kMaxTasks
      BY <1>1 DEF Sorted, QueueSorted, WellFormed
    <2>6. Sorted(next_fire_us, RemoveAt(sorted_task_ids_, pos), active_task_count_ - 1)
      BY <1>1, <2>3, <2>5, RemoveSorted
    <2> QED
      BY <1>1, <2>2, <2>4, <2>6 DEF Sorted, QueueSorted, Slots
  <1>3. CASE op \notin Queued
    <2>1. op # 0
      BY <1>3 DEF RemoveSlot
    <2>2. \A i \in Slots : sorted_task_ids_[i] # op
      BY <1>3, <2>1, <1>1, SlotsAssumption DEF Queued, Held, WellFormed, Slots
    <2>3. UNCHANGED queue
      BY <2>2 DEF RemoveSlot, FirstMatch
    <2> QED
      BY <1>1, <2>3 DEF QueueSorted, Slots
  <1> QED
    BY <1>2, <1>3

(* The interrupt takes the front out and puts a periodic task back.        *)
LEMMA IsrPopKeepsOrder ==
  ASSUME TypeOK, QueueInv, QueueSorted, IsrPop, DeadlinesAreClose'
  PROVE  QueueSorted'
  <1> USE DEF tasks, queue, clock, main, call
  <1> DEFINE front == sorted_task_ids_[0]
             rest == PopFront(sorted_task_ids_)
             left == active_task_count_ - 1
  <1>1. /\ active_task_count_ > 0 /\ active_task_count_ \in Nat
        /\ sorted_task_ids_ \in [Slots -> Slots] /\ next_fire_us \in [Slots -> Ticks]
        /\ WellFormed(sorted_task_ids_, active_task_count_)
        /\ 0 \in Slots
    <2>1. active_task_count_ > 0
      BY DEF IsrPop, FrontIsDue
    <2>2. active_task_count_ \in Nat /\ 0 \in Slots
      BY RangeAssumption, SlotsAssumption DEF TypeOK, Slots
    <2> QED
      BY <2>1, <2>2 DEF QueueInv, QueueSound, TypeOK
  <1>2. front \in Queued /\ front \in Slots
    BY <1>1 DEF Queued, Held
  <1>3. /\ rest \in [Slots -> Slots]
        /\ WellFormed(rest, left)
        /\ Held(rest, left) = Queued \ {front}
    BY <1>1, RemoveHeld DEF PopFront, Queued
  <1>4. Sorted(next_fire_us, rest, left) /\ left \in Nat /\ left < kMaxTasks
    <2>1. Sorted(next_fire_us, sorted_task_ids_, active_task_count_) /\ active_task_count_ <= kMaxTasks
      BY <1>1 DEF Sorted, QueueSorted, WellFormed
    <2>2. Sorted(next_fire_us, RemoveAt(sorted_task_ids_, 0), active_task_count_ - 1)
      BY <1>1, <2>1, RemoveSorted
    <2> QED
      BY <1>1, <2>1, <2>2, SlotsAssumption DEF PopFront
  <1> HIDE DEF rest
  <1>5. CASE repeating[front]
    <2>1. PICK pos \in Slots :
            /\ pos < active_task_count_
            /\ Boundary(next_fire_us', rest, active_task_count_ - 1, next_fire_us'[front], pos)
            /\ sorted_task_ids_' = InsertAt(rest, pos, front)
      BY <1>5 DEF IsrPop, rest
    <2>2. active_task_count_' = active_task_count_ /\ pos <= left /\ left + 1 = active_task_count_
      BY <1>1, <1>5, <2>1, SlotsAreNumbers DEF IsrPop
    <2>3. /\ next_fire_us' \in [Slots -> Ticks]
          /\ \A s \in Slots : s # front => next_fire_us'[s] = next_fire_us[s]
      <3>1. TypeOK'
        BY TypeIsrTick DEF Isr
      <3> QED
        BY <1>1, <1>5, <3>1 DEF TypeOK, IsrPop, Slots, Ticks
    <2>4. Sorted(next_fire_us', rest, left)
      <3>1. \A i \in Slots : i < left => rest[i] \in Slots /\ rest[i] # front
        BY <1>3 DEF Held
      <3>2. \A i, j \in Slots : i < j /\ j < left => i < left
        BY <1>4, SlotsAreNumbers
      <3> HIDE DEF front, left
      <3> QED
        BY <1>4, <2>3, <3>1, <3>2 DEF Sorted
    <2>5. Queued' = Held(rest, left) \union {front}
      BY <1>2, <1>3, <1>5, QueueIsrPop
    <2>6. PICK base \in Ticks : Close(next_fire_us', base, Held(rest, left) \union {front})
      BY <2>5 DEF DeadlinesAreClose, Close, Offset, Half, Ticks
    <2>7. Sorted(next_fire_us', InsertAt(rest, pos, front), left + 1)
      <3>1. PICK fire \in [Slots -> Ticks] : fire = next_fire_us'
        BY <2>3
      <3>2. Boundary(fire, rest, left, fire[front], pos)
        BY <2>1, <3>1
      <3> HIDE DEF front, left
      <3> QED
        BY <1>2, <1>3, <1>4, <2>2, <2>4, <2>6, <3>1, <3>2, InsertSorted
    <2> QED
      BY <2>1, <2>2, <2>7 DEF Sorted, QueueSorted, Slots
  <1>6. CASE ~repeating[front]
    <2>1. sorted_task_ids_' = rest /\ active_task_count_' = left /\ UNCHANGED next_fire_us
      BY <1>6 DEF IsrPop, rest
    <2> QED
      BY <1>4, <2>1 DEF Sorted, QueueSorted, Slots
  <1> QED
    BY <1>5, <1>6

(* As long as what waits is due within half a turn of the 32-bit tick, the *)
(* queue is in firing order (Scheduler.cpp:139 compares by int32_t),       *)
(* however often the tick wraps and wherever the interrupt puts periodic   *)
(* tasks back while the main context registers and removes others, until a *)
(* client breaks the queue.                                                *)
THEOREM QueueStaysSorted ==
  Spec /\ [](broken \/ DeadlinesAreClose) => [](broken \/ QueueSorted)
  <1>1. Init => QueueSorted
    <2>1. ASSUME active_task_count_ = 0 PROVE QueueSorted
      BY <2>1, SlotsAreNumbers DEF QueueSorted
    <2> QED
      BY <2>1 DEF Init
  <1>2. TypeOK /\ QueueInv /\ ~broken' /\ DeadlinesAreClose' /\ QueueSorted /\ [Next]_vars => QueueSorted'
    <2> SUFFICES ASSUME TypeOK, QueueInv, ~broken', DeadlinesAreClose', QueueSorted, [Next]_vars
                 PROVE  QueueSorted'
      OBVIOUS
    <2>1. UNCHANGED <<next_fire_us, queue>> => QueueSorted'
      BY DEF queue, QueueSorted, Slots
    <2>2. CASE InsertSlot
      BY <2>2, InsertSlotKeepsOrder
    <2>3. CASE RemoveSlot
      BY <2>3, RemoveSlotKeepsOrder
    <2>4. CASE IsrPop
      BY <2>4, IsrPopKeepsOrder
    <2>5. CASE Client
      BY <2>1, <2>5 DEF Client, register_task, set_timeout, Allocate, unregister_task, cancel_timeout,
                        Remove, tasks
    <2>6. CASE Unlock \/ SetInterval \/ ForceUpdate \/ SetReload \/ CheckOvershoot \/ ReadCount \/ RestartCount \/ LoadTick \/ StoreTick \/ EnableTimer
      BY <2>1, <2>6 DEF Unlock, SetInterval, ForceUpdate, SetReload, CheckOvershoot, ReadCount, RestartCount, LoadTick, StoreTick, EnableTimer, tasks
    <2>7. CASE Update
      BY <2>1, <2>7 DEF Update, UpdateBegin, UpdateWarned, RunTask, CallbackReturn, UpdateEnd, tasks
    <2>8. CASE IsrEnter \/ IsrExit \/ Tick \/ UNCHANGED vars
      BY <2>1, <2>8 DEF IsrEnter, IsrExit, Tick, vars, tasks
    <2> QED
      BY <2>2, <2>3, <2>4, <2>5, <2>6, <2>7, <2>8 DEF Next, Call, Isr
  <1>3. /\ broken \/ (TypeOK /\ QueueInv)
        /\ (broken \/ DeadlinesAreClose)' /\ (broken \/ QueueSorted) /\ [Next]_vars
        => (broken \/ QueueSorted)'
    BY <1>2, BrokenStays
  <1> QED
    BY <1>1, <1>3, QueueInvariance, PTL DEF Spec

(* The wraps of the tick and of timeout_idx_ (Scheduler.cpp:139 and 319)   *)
(* do no harm, in a queue no client has broken, exactly as long as the     *)
(* deadlines are so close: what the code's signed comparison and its       *)
(* counter need of the clients is that, and nothing more.                  *)
THEOREM WrapsDoNoHarm ==
  Spec => ([]WrapsAreHarmless <=> [](broken \/ DeadlinesAreClose))
  <1>1. TimeoutIdsApart /\ (broken \/ DeadlinesAreClose) /\ (broken \/ QueueSorted) <=> WrapsAreHarmless
    BY DEF WrapsAreHarmless
  <1> QED
    BY <1>1, QueueStaysSorted, TimeoutIdsStayApart, PTL
-----------------------------------------------------------------------------
(* Refinement: each step is one of TaskLifecycle's or a stutter. *)

LEMMA LifecycleInit == Init => Lifecycle!Init
  <1> SUFFICES ASSUME Init PROVE Lifecycle!Init
    OBVIOUS
  <1>1. Queued = {}
    BY DEF Init, Queued, Held, Slots
  <1>2. kind = [s \in Slots |-> "free"]
    BY DEF Init, kind
  <1> QED
    BY <1>1, <1>2 DEF Init, Lifecycle!Init

(* Writing the fields of the free slot it took, a call starts a task. *)
LEMMA AllocateStarts ==
  ASSUME TypeOK, QueueInv,
         (\E us \in Periods : register_task(us)) \/ (\E us \in Delays : set_timeout(us))
  PROVE  \E s \in Slots : Lifecycle!Start(s)
  <1> USE DEF tasks, queue, clock, main, call
  <1>1. PICK slot \in free_bitmap_, r \in BOOLEAN :
          /\ free_bitmap_' = free_bitmap_ \ {slot}
          /\ repeating' = [repeating EXCEPT ![slot] = r]
    BY DEF register_task, set_timeout, Allocate
  <1>2. slot \in Slots
    BY DEF TypeOK
  <1>3. Queued' = Queued /\ ready_bitmap_' = ready_bitmap_
    BY DEF register_task, set_timeout, Allocate, Queued
  <1>4. kind[slot] = "free"
    BY <1>2 DEF kind
  <1>5. kind' = [kind EXCEPT ![slot] = IF r THEN "periodic" ELSE "oneshot"]
    BY <1>1, <1>2 DEF kind, TypeOK
  <1>6. Lifecycle!Start(slot)
    BY <1>3, <1>4, <1>5 DEF Lifecycle!Start
  <1> QED
    BY <1>2, <1>6

(* insert_sorted makes it wait. *)
LEMMA InsertArms == ASSUME TypeOK, QueueInv, InsertSlot PROVE Lifecycle!Arm(op)
  <1> USE DEF tasks, queue, clock, main, call
  <1>1. /\ op \in Slots /\ op \notin Queued /\ op \notin free_bitmap_ /\ op \notin ready_bitmap_
        /\ sorted_task_ids_ \in [Slots -> Slots]
        /\ active_task_count_ \in Nat
        /\ WellFormed(sorted_task_ids_, active_task_count_)
    BY RangeAssumption, SlotsAssumption
    DEF InsertSlot, QueueInv, CallSound, QueueSound, TypeOK
  <1>2. active_task_count_ < kMaxTasks
    BY <1>1, RoomForOther DEF Queued
  <1>3. active_task_count_' = active_task_count_ + 1
    BY <1>1, <1>2, RangeAssumption, SlotsAssumption DEF InsertSlot
  <1>4. PICK pos \in Slots : /\ pos <= active_task_count_
                             /\ sorted_task_ids_' = InsertAt(sorted_task_ids_, pos, op)
    BY DEF InsertSlot
  <1>5. Queued' = Queued \union {op}
    BY <1>1, <1>2, <1>3, <1>4, InsertHeld DEF Queued
  <1>6. kind[op] # "free"
    BY <1>1 DEF kind
  <1>7. kind' = kind /\ ready_bitmap_' = ready_bitmap_
    BY DEF InsertSlot, kind
  <1> QED
    BY <1>1, <1>5, <1>6, <1>7 DEF Lifecycle!Arm

(* Ending a task takes it from wherever it is. *)
LEMMA RemoveStops == ASSUME TypeOK, QueueInv, RemoveSlot, ~broken' PROVE Lifecycle!Stop(op)
  <1> USE DEF tasks, queue, clock, main, call
  <1>1. /\ ready_bitmap_' = ready_bitmap_ \ {op} /\ free_bitmap_' = free_bitmap_ \union {op}
        /\ repeating' = repeating /\ step = "remove" /\ op \in Slots
    BY DEF RemoveSlot, TypeOK
  <1>2. op \in Queued \union ready_bitmap_
    BY <1>1 DEF QueueInv, TasksKept, CallSound
  <1>3. kind' = [kind EXCEPT ![op] = "free"]
    BY <1>1 DEF kind
  <1> QED
    BY <1>1, <1>2, <1>3, QueueRemoveSlot DEF Lifecycle!Stop

(* The return of a callback finishes its task, unless the callback ended   *)
(* the task itself: then there is nothing left to do.                      *)
LEMMA ReturnFinishes ==
  ASSUME TypeOK, QueueInv, CallbackReturn
  PROVE  Lifecycle!Finish(running) \/ UNCHANGED <<kind, Queued, ready_bitmap_>>
  <1> USE DEF tasks, queue, clock, main, call
  <1>1. /\ ready_bitmap_' = ready_bitmap_ \ {running}
        /\ free_bitmap_' = IF repeating[running] THEN free_bitmap_
                                                 ELSE free_bitmap_ \union {running}
        /\ repeating' = repeating
        /\ running \in Slots /\ running \in ready_bitmap_ \union free_bitmap_
        /\ ready_bitmap_ \intersect free_bitmap_ = {}
    BY DEF CallbackReturn, FreeAfterRun, QueueInv, CallSound, TasksKept, TypeOK
  <1>2. Queued' = Queued
    BY DEF CallbackReturn, Queued
  <1>3. CASE running \in ready_bitmap_
    <2>1. running \notin free_bitmap_
      BY <1>1, <1>3
    <2>2. kind[running] = IF repeating[running] THEN "periodic" ELSE "oneshot"
      BY <1>1, <2>1 DEF kind
    <2>3. CASE repeating[running]
      <3>1. kind' = kind
        BY <1>1, <2>3 DEF kind
      <3> QED
        BY <1>1, <1>2, <1>3, <2>2, <2>3, <3>1 DEF Lifecycle!Finish
    <2>4. CASE ~repeating[running]
      <3>1. kind' = [kind EXCEPT ![running] = "free"]
        BY <1>1, <2>4 DEF kind
      <3> QED
        BY <1>1, <1>2, <1>3, <2>2, <2>4, <3>1 DEF Lifecycle!Finish
    <2> QED
      BY <2>3, <2>4
  <1>4. CASE running \in free_bitmap_
    <2>1. free_bitmap_' = free_bitmap_ /\ ready_bitmap_' = ready_bitmap_
      BY <1>1, <1>4
    <2>2. kind' = kind
      BY <1>1, <2>1 DEF kind
    <2> QED
      BY <1>2, <2>1, <2>2
  <1> QED
    BY <1>1, <1>3, <1>4

(* A turn of the interrupt's loop fires the front task. *)
LEMMA PopFires ==
  ASSUME TypeOK, QueueInv, IsrPop PROVE \E s \in Slots : Lifecycle!Fire(s)
  <1> USE DEF tasks, queue, clock, main, call
  <1> DEFINE front == sorted_task_ids_[0]
  <1>1. /\ front \in Queued
        /\ Queued' = IF repeating[front] THEN Queued ELSE Queued \ {front}
    BY QueueIsrPop
  <1>2. front \in Slots /\ front \notin free_bitmap_
    <2>1. 0 \in Slots
      BY SlotsAssumption DEF Slots
    <2> QED
      BY <1>1, <2>1 DEF QueueInv, QueueSound, TypeOK
  <1>3. /\ ready_bitmap_' = ready_bitmap_ \union {front}
        /\ repeating' = repeating /\ free_bitmap_' = free_bitmap_
    BY DEF IsrPop
  <1>4. kind[front] = IF repeating[front] THEN "periodic" ELSE "oneshot"
    BY <1>2 DEF kind
  <1>5. kind' = kind
    BY <1>3 DEF kind
  <1>6. Lifecycle!Fire(front)
    BY <1>1, <1>3, <1>4, <1>5 DEF Lifecycle!Fire
  <1> QED
    BY <1>2, <1>6

(* Main context, interrupt and counter together do no more to a task than  *)
(* start, arm, fire, finish or stop it, one task at a time, until a client *)
(* ends a one-shot that has fired in slot 0 or registers from a callback   *)
(* that has ended its own task.                                            *)
THEOREM SchedulerImplementsLifecycle == Spec => ImplementsLifecycle
  <1>1. Init => Lifecycle!Init
    BY LifecycleInit
  <1>2. TypeOK /\ QueueInv /\ ~broken /\ ~broken' /\ [Next]_vars
        => Lifecycle!Step \/ UNCHANGED <<kind, Queued, ready_bitmap_>>
    <2> SUFFICES ASSUME TypeOK, QueueInv, ~broken', [Next]_vars
                 PROVE  Lifecycle!Step \/ UNCHANGED <<kind, Queued, ready_bitmap_>>
      OBVIOUS
    <2>1. CASE Client
      <3>1. CASE (\E us \in Periods : register_task(us)) \/ (\E us \in Delays : set_timeout(us))
        BY <3>1, AllocateStarts DEF Lifecycle!Step
      <3>2. CASE \E slot : Remove(slot)
        BY <3>2 DEF Remove, kind, Queued, tasks, queue
      <3> QED
        BY <2>1, <3>1, <3>2 DEF Client, unregister_task, cancel_timeout
    <2>2. CASE InsertSlot
      BY <2>2, InsertArms DEF Lifecycle!Step, TypeOK
    <2>3. CASE RemoveSlot
      BY <2>3, RemoveStops DEF Lifecycle!Step, TypeOK
    <2>4. CASE CallbackReturn
      BY <2>4, ReturnFinishes DEF Lifecycle!Step, TypeOK
    <2>5. CASE IsrPop
      BY <2>5, PopFires DEF Lifecycle!Step
    <2>6. CASE Quiet
      <3>1. UNCHANGED <<repeating, queue, ready_bitmap_, free_bitmap_>>
        BY <2>6, QueueQuiet
      <3>2. kind' = kind /\ Queued' = Queued
        BY <3>1 DEF kind, Queued, queue
      <3> QED
        BY <3>1, <3>2
    <2> QED
      BY <2>1, <2>2, <2>3, <2>4, <2>5, <2>6 DEF Next, Call, Update, Isr, Quiet
  <1>3. (broken \/ (TypeOK /\ QueueInv)) /\ [Next]_vars => [Lifecycle!Next]_(Lifecycle!lifecycle)
    <2> SUFFICES ASSUME broken \/ (TypeOK /\ QueueInv), [Next]_vars
                 PROVE  Lifecycle!Next \/ UNCHANGED Lifecycle!lifecycle
      OBVIOUS
    <2>1. CASE broken'
      BY <2>1 DEF Lifecycle!Next
    <2>2. CASE ~broken'
      <3>1. ~broken
        BY <2>2, BrokenStays
      <3>6. TypeOK /\ TypeOK'
        BY <3>1, TypeStep
      <3>2. Lifecycle!Step \/ UNCHANGED <<kind, Queued, ready_bitmap_>>
        BY <1>2, <2>2, <3>1
      <3>3. (broken => broken') /\ broken' = broken
        BY <2>2, <3>1, <3>6 DEF TypeOK
      <3>4. CASE Lifecycle!Step
        BY <3>3, <3>4 DEF Lifecycle!Next
      <3>5. CASE UNCHANGED <<kind, Queued, ready_bitmap_>>
        BY <3>3, <3>5 DEF Lifecycle!lifecycle
      <3> QED
        BY <3>2, <3>4, <3>5
    <2> QED
      BY <2>1, <2>2
  <1> QED
    BY <1>1, <1>3, QueueInvariance, PTL DEF Spec, Lifecycle!Spec, ImplementsLifecycle
=============================================================================
