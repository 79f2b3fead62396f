------------------------------ MODULE IdQueue ------------------------------
(***************************************************************************)
(* The scheduler's queue of slot numbers, Scheduler::sorted_task_ids_.     *)
(*                                                                         *)
(* The code packs sixteen 4-bit ids in one uint64_t and keeps the number   *)
(* of ids in use beside it.  Here the word is the function from a nibble's *)
(* position to the id stored in it; a nibble past the count is not         *)
(* "empty", it holds whatever was shifted into it (normally id 0).  The    *)
(* shifts and masks of the code are the three operators that move nibbles. *)
(***************************************************************************)
EXTENDS Integers

CONSTANT kMaxTasks       \* number of task slots (16 in the code)

ASSUME SlotsAssumption == kMaxTasks \in Nat \ {0}

Slots == 0..(kMaxTasks - 1)

(* The word with every nibble 0: the initial value of sorted_task_ids_.    *)
NoIds == [i \in Slots |-> 0]

(* Defect: the nibble at pos is overwritten, nothing moves up.             *)
InsertOver(ids, pos, id) == [ids EXCEPT ![pos] = id]

(* The nibbles from pos up move one place up and id takes the hole; the    *)
(* top nibble is shifted out.                                              *)
InsertAt(ids, pos, id) ==
  [i \in Slots |-> IF i < pos THEN ids[i] ELSE IF i = pos THEN id ELSE ids[i - 1]]

(* Defect: the shift leaves the top nibble as it was.                      *)
RemoveKeepingTop(ids, pos) ==
  [i \in Slots |-> IF i < pos \/ i + 1 \notin Slots THEN ids[i] ELSE ids[i + 1]]

(* The nibble at pos disappears and a zero nibble enters at the top.       *)
RemoveAt(ids, pos) ==
  [i \in Slots |-> IF i < pos THEN ids[i] ELSE IF i + 1 \in Slots THEN ids[i + 1] ELSE 0]

PopFront(ids) == RemoveAt(ids, 0)

(* pos is the lowest nibble that equals id, in use or not: the search of   *)
(* remove_sorted does not look at the count.                               *)
FirstMatch(ids, id, pos) ==
  /\ ids[pos] = id
  /\ \A i \in Slots : i < pos => ids[i] # id

(* The ids the first n nibbles hold.                                       *)
Held(ids, n) == {ids[i] : i \in {j \in Slots : j < n}}

(* Distinct ids in the first n nibbles, zero in all the others.            *)
WellFormed(ids, n) ==
  /\ n <= kMaxTasks
  /\ \A i, j \in Slots : i < j /\ j < n => ids[i] # ids[j]
  /\ \A i \in Slots : i >= n => ids[i] = 0

=============================================================================
