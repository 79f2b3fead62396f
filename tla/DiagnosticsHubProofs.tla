-------------------------- MODULE DiagnosticsHubProofs --------------------------
(***************************************************************************)
(* The safety of the diagnostics hub, for every capacity of the ring and   *)
(* of the queue, every number of sinks and records.                        *)
(*                                                                         *)
(* HubInv holds whether or not interrupt handlers publish in the middle of*)
(* a call of the main context: everything is in range, and the ring holds, *)
(* entry after entry, the latest records, so that its replay to the first  *)
(* sink is in order.  CallInv holds until a handler has done so, also if   *)
(* handlers publish between the calls: one context is at work, the queue is*)
(* in order, and the marks of a waiting record are exactly the sinks that  *)
(* have taken it, but for the sink that is being called.                   *)
(***************************************************************************)
EXTENDS DiagnosticsHub, WellFoundedInduction, TLAPS

Places == 0..pending_capacity - 1
Place == [record : Records, delivered : SUBSET AllSinks]
Number(places, i) == places[i].record.number

(* The first n places hold records of 1..top in the order of publication.  *)
InOrder(places, n, top) ==
  /\ \A i \in 0..n - 1 : Number(places, i) \in 1..top
  /\ \A i, j \in 0..n - 1 : i < j => Number(places, i) < Number(places, j)

(* The ring holds the latest history_count records; the next one replaces  *)
(* the oldest.                                                             *)
RingHoldsTheLatest ==
  /\ history_count < history_capacity => history_next_index = history_count /\ published = history_count
  /\ history_count = history_capacity => published >= history_capacity
  /\ \A i \in 0..history_next_index - 1 :
       history[i].number = published - history_next_index + 1 + i
  /\ \A i \in history_next_index..history_capacity - 1 :
       history[i].number = IF history_count < history_capacity THEN 0
                           ELSE published - history_next_index - history_capacity + 1 + i

(* A flush speaks of a place of the array and calls a sink there is.       *)
InRange(flush) ==
  /\ flush.at \in {"sink", "published"} => flush.record_index < pending_capacity
  /\ flush.at = "published" => flush.sink_index < sink_count
  /\ flush.at = "replaying" => sink_count > 0
  /\ flush.at \in {"record", "sink", "published"} => flush.target = 0..sink_count - 1

PassesInRange == \A c \in Contexts : InRange(pass[c])

HubInv == TypeOK /\ PassesInRange /\ RingHoldsTheLatest

(* One context is in a call.                                               *)
Alone == \A c, d \in Contexts : pass[c].at # "idle" /\ pass[d].at # "idle" => c = d

(* What is on its way from the ring to the queue is the latest record.     *)
QueueingTheLatest ==
  \A c \in Contexts : pass[c].at = "queueing" => pass[c].record.number = published /\ published > 0

(* Before the replay to the first sink only the ring keeps records.        *)
OnlyTheRing == sink_count = 0 \/ pass["main"].at = "replaying"

BeforeTheReplay ==
  OnlyTheRing => /\ pending_count = 0 /\ 1..published - history_count \subseteq evicted
                 /\ \A s \in AllSinks : got[s] = <<>>

(* The sink that is being called has taken the record that is offered, and *)
(* the place does not say so yet.                                          *)
Taking(c) == pass[c].at = "published" /\ pass[c].accepted = TRUE

BeingTaken(i, s) ==
  \E c \in Contexts : Taking(c) /\ pass[c].record_index = i /\ pass[c].sink_index = s

OffersWhatWaits ==
  \A c \in Contexts :
    pass[c].at \in {"sink", "published"} => pass[c].record_index < pending_count

MarksAreExact ==
  \A i \in 0..pending_count - 1 : \A s \in AllSinks :
    Number(pending_records, i) \in Taken(s) <=>
      s \in pending_records[i].delivered \/ BeingTaken(i, s)

TakenHaveEntered == \A s \in AllSinks : Taken(s) \subseteq 1..Entered

CallInv ==
  /\ Alone /\ QueueingTheLatest /\ OffersWhatWaits
  /\ InOrder(pending_records, pending_count, Entered)
  /\ BeforeTheReplay
  /\ MarksAreExact /\ TakenHaveEntered /\ NeverTwice
  /\ AllAccounted
-----------------------------------------------------------------------------
(* The operations of the queue.                                            *)

LEMMA RemoveOne ==
  ASSUME NEW places \in [Places -> Place], NEW n \in 1..pending_capacity, NEW k \in 0..n - 1
  PROVE  /\ RemovePending(places, n, k) \in [Places -> Place]
         /\ \A i \in 0..n - 2 : RemovePending(places, n, k)[i] = places[IF i < k THEN i ELSE i + 1]
         /\ \A j \in 0..n - 1 : j # k =>
              \E i \in 0..n - 2 : j = (IF i < k THEN i ELSE i + 1)
                                 /\ RemovePending(places, n, k)[i] = places[j]
  <1>1. pending_capacity \in Nat \ {0} /\ n \in Nat /\ k \in Nat /\ k < n /\ n <= pending_capacity
    BY HubAssumption
  <1>2. RemovePending(places, n, k) =
          [i \in Places |-> IF k <= i /\ i + 1 < n THEN places[i + 1] ELSE places[i]]
    BY DEF RemovePending
  <1>3. RemovePending(places, n, k) \in [Places -> Place]
    <2>1. \A i \in Places : (IF k <= i /\ i + 1 < n THEN places[i + 1] ELSE places[i]) \in Place
      BY <1>1 DEF Places
    <2> QED
      BY <1>2, <2>1
  <1>4. ASSUME NEW i \in 0..n - 2
        PROVE  RemovePending(places, n, k)[i] = places[IF i < k THEN i ELSE i + 1]
    <2>1. i \in Places /\ i + 1 < n /\ (k <= i <=> ~(i < k))
      BY <1>1 DEF Places
    <2> QED
      BY <1>2, <2>1
  <1>5. ASSUME NEW j \in 0..n - 1, j # k
        PROVE  \E i \in 0..n - 2 : j = (IF i < k THEN i ELSE i + 1)
                                  /\ RemovePending(places, n, k)[i] = places[j]
    <2>1. CASE j < k
      <3>1. j \in 0..n - 2 /\ j = (IF j < k THEN j ELSE j + 1)
        BY <1>1, <2>1
      <3> QED
        BY <1>4, <3>1
    <2>2. CASE j > k
      <3>1. j - 1 \in 0..n - 2 /\ j = (IF j - 1 < k THEN j - 1 ELSE j - 1 + 1)
        BY <1>1, <2>2
      <3> QED
        BY <1>4, <3>1
    <2> QED
      BY <1>1, <1>5, <2>1, <2>2
  <1> QED
    BY <1>3, <1>4, <1>5

(* Removing a record leaves the others in order.                           *)
LEMMA RemoveKeepsOrder ==
  ASSUME NEW places \in [Places -> Place], NEW n \in 1..pending_capacity, NEW k \in 0..n - 1,
         NEW top \in Nat, InOrder(places, n, top)
  PROVE  InOrder(RemovePending(places, n, k), n - 1, top)
  <1> DEFINE rest == RemovePending(places, n, k)
             from(i) == IF i < k THEN i ELSE i + 1
  <1>1. pending_capacity \in Nat \ {0} /\ n \in Nat /\ k \in Nat
    BY HubAssumption
  <1>2. \A i \in 0..n - 2 : from(i) \in 0..n - 1
    BY <1>1
  <1>3. \A i, j \in 0..n - 2 : i < j => from(i) < from(j)
    BY <1>1
  <1>4. \A i \in 0..n - 2 : rest[i] = places[from(i)]
    BY RemoveOne
  <1> HIDE DEF rest, from
  <1>5. n - 1 - 1 = n - 2
    BY <1>1
  <1>6. \A i \in 0..n - 2 : Number(rest, i) \in 1..top
    BY <1>2, <1>4 DEF InOrder, Number
  <1>7. \A i, j \in 0..n - 2 : i < j => Number(rest, i) < Number(rest, j)
    BY <1>2, <1>3, <1>4 DEF InOrder, Number
  <1> QED
    BY <1>5, <1>6, <1>7 DEF InOrder, rest

(* The newest record goes behind the others.                               *)
Put(places, n, top, p) == [places EXCEPT ![n] = [record |-> Record(top + 1, p), delivered |-> {}]]

LEMMA PutLast ==
  ASSUME NEW places \in [Places -> Place], NEW n \in 0..pending_capacity - 1,
         NEW top \in Nat, InOrder(places, n, top), NEW p \in DiagnosticPriority
  PROVE  LET queued == Put(places, n, top, p) IN
         /\ queued \in [Places -> Place]
         /\ InOrder(queued, n + 1, top + 1)
         /\ queued[n] = [record |-> Record(top + 1, p), delivered |-> {}]
         /\ \A i \in 0..n - 1 : queued[i] = places[i]
  <1> DEFINE queued == Put(places, n, top, p)
  <1>1. n \in Places /\ n \in Nat /\ \A i \in 0..n - 1 : i \in Places /\ i # n
    BY HubAssumption DEF Places
  <1>2. [record |-> Record(top + 1, p), delivered |-> {}] \in Place
    BY DEF Place, Records, Record
  <1>3. /\ queued \in [Places -> Place]
        /\ queued[n] = [record |-> Record(top + 1, p), delivered |-> {}]
        /\ \A i \in 0..n - 1 : queued[i] = places[i]
    BY <1>1, <1>2 DEF Put
  <1> HIDE DEF queued
  <1>4. Number(queued, n) = top + 1
    BY <1>3 DEF Number, Record
  <1>5. \A i \in 0..n - 1 : Number(queued, i) = Number(places, i) /\ Number(queued, i) \in 1..top
    BY <1>3 DEF Number, InOrder
  <1> HIDE DEF Number
  <1>6. (n + 1) - 1 = n /\ \A i \in 0..n : i = n \/ i \in 0..n - 1
    BY <1>1
  <1>7. ASSUME NEW i \in 0..n PROVE Number(queued, i) \in 1..top + 1
    <2>1. CASE i = n
      BY <1>4, <2>1
    <2>2. CASE i \in 0..n - 1
      <3>1. Number(queued, i) \in 1..top
        BY <1>5, <2>2
      <3> QED
        BY <3>1
    <2> QED
      BY <1>6, <2>1, <2>2
  <1>8. ASSUME NEW i \in 0..n, NEW j \in 0..n, i < j PROVE Number(queued, i) < Number(queued, j)
    <2>1. i \in 0..n - 1
      BY <1>1, <1>8
    <2>2. Number(queued, i) \in 1..top
      BY <1>5, <2>1
    <2>3. CASE j = n
      BY <1>4, <2>2, <2>3
    <2>4. CASE j \in 0..n - 1
      BY <1>5, <1>8, <2>1, <2>4 DEF InOrder
    <2> QED
      BY <1>6, <2>3, <2>4
  <1>9. InOrder(queued, n + 1, top + 1)
    <2>1. 0..(n + 1) - 1 = 0..n
      BY <1>6
    <2>2. \A i \in 0..(n + 1) - 1 : Number(queued, i) \in 1..top + 1
      BY <1>7, <2>1
    <2>3. \A i, j \in 0..(n + 1) - 1 : i < j => Number(queued, i) < Number(queued, j)
      BY <1>8, <2>1
    <2> QED
      BY <2>2, <2>3 DEF InOrder
  <1> QED
    BY <1>3, <1>9 DEF queued

LEMMA LeastElement ==
  ASSUME NEW S, S \subseteq Nat, S # {}
  PROVE  \E m \in S : \A j \in S : m <= j
  <1>1. PICK m \in S : \A j \in S : <<j, m>> \notin OpToRel(<, Nat)
    BY NatLessThanWellFounded, WFMin
  <1>2. ASSUME NEW j \in S, j < m PROVE FALSE
    <2>1. <<j, m>> \in Nat \X Nat
      OBVIOUS
    <2>2. <<j, m>> \in OpToRel(<, Nat)
      BY <1>2, <2>1 DEF OpToRel
    <2> QED
      BY <1>1, <2>2
  <1>3. \A j \in S : m <= j
    BY <1>2
  <1> QED
    BY <1>3

(* A full queue drops one of its records.                                  *)
LEMMA VictimIsAPlace ==
  ASSUME HubInv, NEW p \in DiagnosticPriority
  PROVE  Victim(pending_records, p) \in Places
  <1>0. pending_records \in [Places -> Place] /\ pending_capacity \in Nat \ {0}
    BY HubAssumption DEF HubInv, TypeOK, Places, Place
  <1>1. CASE \E i \in Places : pending_records[i].record.priority = "NORMAL"
    <2> DEFINE normal == {i \in Places : pending_records[i].record.priority = "NORMAL"}
    <2>1. DOMAIN pending_records = Places
      BY <1>0
    <2>2. \E i \in normal : \A j \in normal : i <= j
      <3>1. normal \subseteq Nat /\ normal # {}
        BY <1>0, <1>1 DEF Places
      <3> HIDE DEF normal
      <3> QED
        BY <3>1, LeastElement
    <2>3. (CHOOSE i \in normal : \A j \in normal : i <= j) \in normal
      BY <2>2
    <2>4. 0 \in Places
      BY <1>0 DEF Places
    <2> QED
      BY <2>1, <2>3, <2>4 DEF Victim, Record
  <1>2. CASE ~\E i \in Places : pending_records[i].record.priority = "NORMAL"
    BY <1>0, <1>2 DEF Victim, Places
  <1> QED
    BY <1>1, <1>2

(* push_pending() keeps to the array whatever is in it.                    *)
LEMMA PushKeepsType ==
  ASSUME HubInv, NEW r \in Records, PushPending(r)
  PROVE  /\ pending_records' \in [Places -> Place]
         /\ pending_count' \in 1..pending_capacity
         /\ evicted' \subseteq Nat
  <1> DEFINE full == pending_count = pending_capacity
             victim == Victim(pending_records, r.priority)
             places == IF full THEN RemovePending(pending_records, pending_count, victim)
                       ELSE pending_records
             n == IF full THEN pending_count - 1 ELSE pending_count
             last == [record |-> r, delivered |-> {}]
  <1>1. /\ pending_records \in [Places -> Place] /\ pending_count \in 0..pending_capacity
        /\ pending_capacity \in Nat \ {0} /\ evicted \subseteq Nat
    BY HubAssumption DEF HubInv, TypeOK, Places, Place
  <1>2. victim \in Places
    BY VictimIsAPlace DEF Records
  <1>3. /\ pending_records' = [places EXCEPT ![n] = last]
        /\ pending_count' = n + 1
        /\ evicted' = IF full THEN evicted \union {pending_records[victim].record.number} ELSE evicted
    BY DEF PushPending
  <1> HIDE DEF victim, last
  <1>4. full => pending_count \in 1..pending_capacity /\ victim \in 0..pending_count - 1
    BY <1>1, <1>2 DEF Places
  <1>5. places \in [Places -> Place]
    BY <1>1, <1>4, RemoveOne
  <1>6. n \in 0..pending_capacity - 1
    BY <1>1
  <1>7. last \in Place
    BY DEF last, Place
  <1>8. evicted' \subseteq Nat
    BY <1>1, <1>2, <1>3 DEF Place, Records
  <1> HIDE DEF places, n
  <1>9. pending_records' \in [Places -> Place]
    BY <1>3, <1>5, <1>6, <1>7 DEF Places
  <1> QED
    BY <1>1, <1>3, <1>6, <1>8, <1>9

(* push_pending() with room, or after dropping a record.                   *)
LEMMA PushKeepsOrder ==
  ASSUME HubInv, NEW top \in Nat, InOrder(pending_records, pending_count, top),
         NEW p \in DiagnosticPriority, PushPending(Record(top + 1, p))
  PROVE  /\ pending_records' \in [Places -> Place]
         /\ pending_count' \in 1..pending_capacity
         /\ InOrder(pending_records', pending_count', top + 1)
         /\ evicted \subseteq evicted'
         /\ pending_records'[pending_count' - 1] = [record |-> Record(top + 1, p), delivered |-> {}]
         /\ \A i \in 0..pending_count' - 2 : \E j \in 0..pending_count - 1 :
              pending_records'[i] = pending_records[j]
         /\ \A j \in 0..pending_count - 1 :
              \/ Number(pending_records, j) \in evicted'
              \/ \E i \in 0..pending_count' - 2 : pending_records'[i] = pending_records[j]
  <1> DEFINE full == pending_count = pending_capacity
             victim == Victim(pending_records, p)
             places == IF full THEN RemovePending(pending_records, pending_count, victim)
                       ELSE pending_records
             n == IF full THEN pending_count - 1 ELSE pending_count
             last == [record |-> Record(top + 1, p), delivered |-> {}]
  <1>1. /\ pending_records \in [Places -> Place] /\ pending_count \in 0..pending_capacity
        /\ pending_capacity \in Nat \ {0} /\ top \in Nat
        /\ InOrder(pending_records, pending_count, top)
    BY HubAssumption DEF HubInv, TypeOK, Places, Place
  <1>2. victim \in Places
    BY VictimIsAPlace
  <1>3. /\ pending_records' = [places EXCEPT ![n] = last]
        /\ pending_count' = n + 1
        /\ evicted' = IF full THEN evicted \union {Number(pending_records, victim)} ELSE evicted
    BY DEF PushPending, Record, Number
  <1> HIDE DEF victim, last
  <1>4. full => pending_count \in 1..pending_capacity /\ victim \in 0..pending_count - 1
    BY <1>1, <1>2 DEF Places
  <1>12. full =>
           LET rest == RemovePending(pending_records, pending_count, victim) IN
           /\ places = rest
           /\ rest \in [Places -> Place]
           /\ InOrder(rest, pending_count - 1, top)
           /\ \A i \in 0..pending_count - 2 :
                rest[i] = pending_records[IF i < victim THEN i ELSE i + 1]
           /\ \A j \in 0..pending_count - 1 : j # victim =>
                \E i \in 0..pending_count - 2 : rest[i] = pending_records[j]
    <2> SUFFICES ASSUME full
                 PROVE  LET rest == RemovePending(pending_records, pending_count, victim) IN
           /\ rest \in [Places -> Place]
           /\ InOrder(rest, pending_count - 1, top)
           /\ \A i \in 0..pending_count - 2 :
                rest[i] = pending_records[IF i < victim THEN i ELSE i + 1]
           /\ \A j \in 0..pending_count - 1 : j # victim =>
                \E i \in 0..pending_count - 2 : rest[i] = pending_records[j]
      OBVIOUS
    <2>1. pending_count \in 1..pending_capacity /\ victim \in 0..pending_count - 1
          /\ pending_records \in [Places -> Place]
      BY <1>1, <1>4
    <2>2. InOrder(RemovePending(pending_records, pending_count, victim), pending_count - 1, top)
      BY <1>1, <2>1, RemoveKeepsOrder
    <2> HIDE DEF full, places, n
    <2> QED
      BY <2>1, <2>2, RemoveOne
  <1>5. n \in 0..pending_capacity - 1 /\ (full => n = pending_count - 1)
    BY <1>1
  <1>6. /\ places \in [Places -> Place]
        /\ InOrder(places, n, top)
    BY <1>1, <1>12
  <1>7. \A i \in 0..n - 1 : \E j \in 0..pending_count - 1 : places[i] = pending_records[j]
    <2> TAKE i \in 0..n - 1
    <2>1. CASE full
      <3>1. /\ i \in 0..pending_count - 2
            /\ (IF i < victim THEN i ELSE i + 1) \in 0..pending_count - 1
        BY <1>1, <1>4, <2>1 DEF Places
      <3>3. places[i] = pending_records[IF i < victim THEN i ELSE i + 1]
        BY <1>12, <2>1, <3>1
      <3> QED
        BY <3>1, <3>3
    <2> QED
      BY <2>1
  <1>8. \A j \in 0..pending_count - 1 :
          \/ Number(pending_records, j) \in evicted'
          \/ \E i \in 0..n - 1 : places[i] = pending_records[j]
    <2> TAKE j \in 0..pending_count - 1
    <2>1. CASE full /\ j = victim
      BY <1>3, <2>1
    <2>2. CASE full /\ j # victim
      <3>1. PICK i \in 0..pending_count - 2 : places[i] = pending_records[j]
        BY <1>12, <2>2
      <3>2. i \in 0..n - 1
        BY <1>1, <1>4, <2>2
      <3> QED
        BY <3>1, <3>2
    <2> QED
      BY <2>1, <2>2
  <1>9. evicted \subseteq evicted'
    BY <1>3
  <1> HIDE DEF places, n
  <1>10. /\ pending_records' \in [Places -> Place]
         /\ InOrder(pending_records', n + 1, top + 1)
         /\ pending_records'[n] = last
         /\ \A i \in 0..n - 1 : pending_records'[i] = places[i]
    <2>1. pending_records' = Put(places, n, top, p)
      BY <1>3 DEF last, Put
    <2>2. p \in DiagnosticPriority /\ top \in Nat
      BY <1>1
    <2> QED
      BY ONLY <1>5, <1>6, <2>1, <2>2, PutLast DEF last
  <1>11. pending_count' - 1 = n /\ pending_count' - 2 = n - 1 /\ pending_count' \in 1..pending_capacity
    BY <1>1, <1>3, <1>5
  <1>13. InOrder(pending_records', pending_count', top + 1)
    BY <1>3, <1>10
  <1>14. pending_records'[pending_count' - 1] = [record |-> Record(top + 1, p), delivered |-> {}]
    BY <1>10, <1>11 DEF last
  <1>15. \A i \in 0..pending_count' - 2 :
           \E j \in 0..pending_count - 1 : pending_records'[i] = pending_records[j]
    BY <1>7, <1>10, <1>11
  <1>16. \A j \in 0..pending_count - 1 :
           \/ Number(pending_records, j) \in evicted'
           \/ \E i \in 0..pending_count' - 2 : pending_records'[i] = pending_records[j]
    BY <1>8, <1>10, <1>11
  <1> QED
    BY <1>9, <1>10, <1>11, <1>13, <1>14, <1>15, <1>16

(* The ring wraps where its index does.                                    *)
LEMMA Wrap ==
  \A c \in Nat \ {0} : \A a \in 0..2 * c - 1 : a % c = IF a < c THEN a ELSE a - c
  <1> TAKE c \in Nat \ {0}
  <1> TAKE a \in 0..2 * c - 1
  <1> QED
    OBVIOUS

LEMMA PushHistoryKeeps ==
  ASSUME HubInv, NEW p \in DiagnosticPriority, PushHistory(Record(published + 1, p)),
         published' = published + 1
  PROVE  /\ history' \in [0..history_capacity - 1 -> Records]
         /\ history_count' \in 0..history_capacity
         /\ history_next_index' \in 0..history_capacity - 1
         /\ RingHoldsTheLatest'
         /\ history[history_next_index].number \in 0..published
         /\ 1..published + 1 - history_count' \subseteq
              (1..published - history_count) \union ({history[history_next_index].number} \ {0})
  <1> DEFINE next == history_next_index
             cap == history_capacity
             r == Record(published + 1, p)
  <1>1. /\ published \in Nat /\ cap \in Nat \ {0}
        /\ history \in [0..cap - 1 -> Records] /\ history_count \in 0..cap /\ next \in 0..cap - 1
        /\ RingHoldsTheLatest
    BY HubAssumption DEF HubInv, TypeOK
  <1>2. /\ history' = [history EXCEPT ![next] = r]
        /\ history_next_index' = (next + 1) % cap
        /\ history_count' = IF history_count < cap THEN history_count + 1 ELSE history_count
    BY DEF PushHistory, NextIndex
  <1>3. r \in Records /\ r.number = published + 1
    BY <1>1 DEF Records, Record
  <1> HIDE DEF r
  <1>4. history_next_index' = IF next + 1 < cap THEN next + 1 ELSE 0
    <2>1. next + 1 \in 0..2 * cap - 1
      BY <1>1
    <2>2. (next + 1) % cap = IF next + 1 < cap THEN next + 1 ELSE next + 1 - cap
      <3>1. PICK x \in 0..2 * cap - 1 : x = next + 1
        BY <2>1
      <3>2. x % cap = IF x < cap THEN x ELSE x - cap
        BY <1>1, Wrap
      <3> QED
        BY <1>1, <3>1, <3>2
    <2>3. ~(next + 1 < cap) => next + 1 - cap = 0
      BY <1>1
    <2> QED
      BY <1>2, <2>2, <2>3
  <1>5. /\ history'[next].number = published + 1
        /\ \A i \in 0..cap - 1 : i # next => history'[i] = history[i]
    BY <1>1, <1>2, <1>3
  <1>6. history[next].number = IF history_count < cap THEN 0 ELSE published - cap + 1
    BY <1>1 DEF RingHoldsTheLatest
  <1>7. /\ history' \in [0..cap - 1 -> Records]
        /\ history_count' \in 0..cap /\ history_next_index' \in 0..cap - 1
    BY <1>1, <1>2, <1>3, <1>4
  <1>8. \A i \in 0..history_next_index' - 1 :
          history'[i].number = published' - history_next_index' + 1 + i
    <2> TAKE i \in 0..history_next_index' - 1
    <2>1. history_next_index' = next + 1 /\ i \in 0..next
      BY <1>1, <1>4
    <2>2. CASE i = next
      BY <1>1, <1>5, <2>1, <2>2
    <2>3. CASE i # next
      <3>1. i \in 0..next - 1 /\ i \in 0..cap - 1
        BY <1>1, <2>1, <2>3
      <3>2. history[i].number = published - next + 1 + i
        BY <1>1, <3>1 DEF RingHoldsTheLatest
      <3> QED
        BY <1>1, <1>5, <2>1, <2>3, <3>1, <3>2
    <2> QED
      BY <2>2, <2>3
  <1>9. \A i \in history_next_index'..cap - 1 :
          history'[i].number = IF history_count' < cap THEN 0
                               ELSE published' - history_next_index' - cap + 1 + i
    <2> TAKE i \in history_next_index'..cap - 1
    <2>1. CASE next + 1 < cap
      <3>1. history_next_index' = next + 1 /\ i \in next..cap - 1 /\ i # next /\ i \in 0..cap - 1
        BY <1>1, <1>4, <2>1
      <3>2. history[i].number = IF history_count < cap THEN 0 ELSE published - next - cap + 1 + i
        BY <1>1, <3>1 DEF RingHoldsTheLatest
      <3>3. history'[i] = history[i]
        BY <1>5, <3>1
      <3>4. history_count < cap <=> history_count' < cap
        BY <1>1, <1>2, <2>1 DEF RingHoldsTheLatest
      <3>5. published - next - cap + 1 + i = published' - history_next_index' - cap + 1 + i
        BY <1>1, <3>1
      <3> QED
        BY <3>2, <3>3, <3>4, <3>5
    <2>2. CASE next + 1 = cap
      <3>1. history_next_index' = 0 /\ history_count' = cap /\ i \in 0..cap - 1
        BY <1>1, <1>2, <1>4, <2>2 DEF RingHoldsTheLatest
      <3>2. CASE i = next
        BY <1>1, <1>5, <2>2, <3>1, <3>2
      <3>3. CASE i # next
        <4>1. i \in 0..next - 1
          BY <1>1, <2>2, <3>1, <3>3
        <4>2. history[i].number = published - next + 1 + i
          BY <1>1, <4>1 DEF RingHoldsTheLatest
        <4>3. history'[i] = history[i]
          BY <1>5, <3>1, <3>3
        <4>4. published - next + 1 + i = published' - 0 - cap + 1 + i
          BY <1>1, <2>2, <4>1
        <4> QED
          BY <1>1, <3>1, <4>2, <4>3, <4>4
      <3> QED
        BY <3>2, <3>3
    <2> QED
      BY <1>1, <2>1, <2>2
  <1>10. /\ history_count' < cap => history_next_index' = history_count' /\ published' = history_count'
         /\ history_count' = cap => published' >= cap
    BY <1>1, <1>2, <1>4 DEF RingHoldsTheLatest
  <1>11. RingHoldsTheLatest'
    BY <1>8, <1>9, <1>10 DEF RingHoldsTheLatest
  <1>12. history[next].number \in 0..published
    BY <1>1, <1>6 DEF RingHoldsTheLatest
  <1>13. 1..published + 1 - history_count' \subseteq
           (1..published - history_count) \union ({history[next].number} \ {0})
    <2>1. CASE history_count < cap
      BY <1>1, <1>2, <2>1 DEF RingHoldsTheLatest
    <2>2. CASE history_count = cap
      BY <1>1, <1>2, <1>6, <2>2 DEF RingHoldsTheLatest
    <2> QED
      BY <1>1, <2>1, <2>2
  <1> QED
    BY <1>7, <1>11, <1>12, <1>13

(* The replay of a ring, wrapped or not, puts the latest records in the    *)
(* queue in the order they were published.                                 *)
LEMMA ReplayInOrder ==
  ASSUME HubInv, Replay
  PROVE  /\ pending_records' \in [Places -> Place]
         /\ pending_count' \in 0..pending_capacity /\ pending_count' = history_count
         /\ \A i \in 0..history_count - 1 :
              Number(pending_records', i) = published - history_count + 1 + i
              /\ pending_records'[i].delivered = {}
         /\ InOrder(pending_records', pending_count', published)
  <1> DEFINE next == history_next_index
             cap == history_capacity
             from(i) == (Oldest + i) % cap
             place(i) == IF i < history_count
                         THEN [record |-> history[from(i)], delivered |-> {}]
                         ELSE pending_records[i]
  <1>1. /\ published \in Nat /\ cap \in Nat \ {0} /\ cap <= pending_capacity
        /\ pending_capacity \in Nat
        /\ history \in [0..cap - 1 -> Records] /\ history_count \in 0..cap /\ next \in 0..cap - 1
        /\ RingHoldsTheLatest
        /\ pending_records \in [Places -> Place]
    BY HubAssumption DEF HubInv, TypeOK, Places, Place
  <1>2. pending_records' = [i \in Places |-> place(i)] /\ pending_count' = history_count
    BY DEF Replay, Places
  <1>3. history_count <= published
    BY <1>1 DEF RingHoldsTheLatest
  <1>4. ASSUME NEW i \in 0..history_count - 1
        PROVE  from(i) \in 0..cap - 1 /\ history[from(i)].number = published - history_count + 1 + i
    <2>1. CASE history_count < cap
      <3>1. from(i) = i
        <4>1. Oldest + i \in 0..2 * cap - 1 /\ Oldest + i = i /\ i < cap
          BY <1>1, <2>1 DEF Oldest
        <4> QED
          BY <1>1, <4>1, Wrap
      <3>2. i \in 0..next - 1 /\ next = history_count
        BY <1>1, <2>1 DEF RingHoldsTheLatest
      <3> QED
        BY <1>1, <3>1, <3>2 DEF RingHoldsTheLatest
    <2>2. CASE history_count = cap
      <3>1. Oldest + i = next + i /\ next + i \in 0..2 * cap - 1
        BY <1>1, <2>2 DEF Oldest
      <3>2. from(i) = IF next + i < cap THEN next + i ELSE next + i - cap
        <4>1. (next + i) % cap = IF next + i < cap THEN next + i ELSE next + i - cap
          <5>1. PICK x \in 0..2 * cap - 1 : x = next + i
            BY <3>1
          <5>2. x % cap = IF x < cap THEN x ELSE x - cap
            BY <1>1, Wrap
          <5> QED
            BY <1>1, <3>1, <5>1, <5>2
        <4> QED
          BY <3>1, <4>1
      <3>3. CASE next + i < cap
        <4>1. next + i \in next..cap - 1
          BY <1>1, <3>3
        <4>2. history[next + i].number = published - next - cap + 1 + (next + i)
          BY <1>1, <2>2, <4>1 DEF RingHoldsTheLatest
        <4> QED
          BY <1>1, <2>2, <3>2, <3>3, <4>1, <4>2
      <3>4. CASE ~(next + i < cap)
        <4>1. next + i - cap \in 0..next - 1
          BY <1>1, <2>2, <3>4
        <4>2. history[next + i - cap].number = published - next + 1 + (next + i - cap)
          BY <1>1, <4>1 DEF RingHoldsTheLatest
        <4> QED
          BY <1>1, <2>2, <3>2, <3>4, <4>1, <4>2
      <3> QED
        BY <3>3, <3>4
    <2> QED
      BY <1>1, <2>1, <2>2
  <1>5. \A i \in 0..history_count - 1 : i \in Places /\ i < history_count
    BY <1>1 DEF Places
  <1>6. \A i \in Places : place(i) \in Place
    <2> TAKE i \in Places
    <2>1. CASE i < history_count
      <3>1. history[from(i)] \in Records
        BY <1>1, <1>4, <2>1 DEF Places
      <3> QED
        BY <2>1, <3>1 DEF Place
    <2> QED
      BY <1>1, <2>1
  <1>7. \A i \in 0..history_count - 1 :
          pending_records'[i] = [record |-> history[from(i)], delivered |-> {}]
    BY <1>2, <1>5
  <1>8. pending_records' \in [Places -> Place]
    BY <1>2, <1>6
  <1> HIDE DEF from, place
  <1>9. \A i \in 0..history_count - 1 :
          Number(pending_records', i) = published - history_count + 1 + i
          /\ pending_records'[i].delivered = {}
    <2> TAKE i \in 0..history_count - 1
    <2>1. pending_records'[i] = [record |-> history[from(i)], delivered |-> {}]
      BY <1>7
    <2> QED
      BY <1>4, <2>1 DEF Number
  <1>10. InOrder(pending_records', pending_count', published)
    BY <1>1, <1>2, <1>3, <1>9 DEF InOrder
  <1> QED
    <2>1. pending_count' \in 0..pending_capacity
      BY <1>1, <1>2
    <2> QED
      BY <1>2, <1>8, <1>9, <1>10, <2>1
-----------------------------------------------------------------------------
(* HubInv is inductive.                                                    *)

LEMMA IdleInRange ==
  Idle \in PassType /\ Idle.at = "idle" /\ InRange(Idle)
  BY DEF Idle, PassType, InRange, NoRecord, Record, Records, DiagnosticPriority

LEMMA FlushingInRange ==
  ASSUME HubInv, NEW urgent_only \in BOOLEAN, NEW normal_next \in BOOLEAN
  PROVE  LET flush == Flushing(urgent_only, normal_next) IN
         flush \in PassType /\ flush.at = "record" /\ InRange(flush)
         /\ flush.target = 0..sink_count - 1
  <1> DEFINE flush == Flushing(urgent_only, normal_next)
  <1>1. sink_count \in 0..max_sinks /\ max_sinks \in Nat /\ ticking \in BOOLEAN
        /\ due[Level(urgent_only)] \in BOOLEAN
    BY HubAssumption DEF HubInv, TypeOK, Level, DiagnosticPriority
  <1>2. Idle \in PassType
    BY IdleInRange
  <1>3. 0..sink_count - 1 \subseteq AllSinks
    BY <1>1 DEF AllSinks
  <1>4. flush = [Idle EXCEPT !.at = "record", !.urgent_only = urgent_only,
                             !.normal_next = normal_next, !.at_zero = ~ticking,
                             !.open = due[Level(urgent_only)], !.target = 0..sink_count - 1]
    BY DEF Flushing
  <1> HIDE DEF flush
  <1>5. flush \in PassType
    <2>1. (~ticking) \in BOOLEAN
      BY <1>1
    <2> QED
      BY <1>1, <1>2, <1>3, <1>4, <2>1 DEF PassType
  <1>6. flush.at = "record" /\ flush.target = 0..sink_count - 1
    BY <1>2, <1>4 DEF PassType
  <1> QED
    BY <1>5, <1>6 DEF flush, InRange

(* One flush goes on; the other stays where it is.                         *)
LEMMA PassStep ==
  ASSUME HubInv, NEW c \in Contexts, NEW flush \in PassType, InRange(flush),
         pass' = [pass EXCEPT ![c] = flush], sink_count' = sink_count
  PROVE  /\ pass' \in [Contexts -> PassType]
         /\ PassesInRange'
  BY DEF HubInv, TypeOK, PassesInRange, InRange

LEMMA HubInit ==
  ASSUME Init
  PROVE  HubInv
  <1>1. /\ published = 0 /\ history_count = 0 /\ history_next_index = 0
        /\ pending_count = 0 /\ sink_count = 0 /\ accepting = {} /\ ticking = FALSE
        /\ running = FALSE /\ interrupted = FALSE /\ evicted = {} /\ due \in [DiagnosticPriority -> BOOLEAN]
        /\ got \in [AllSinks -> Seq(Nat)]
        /\ history = [i \in 0..history_capacity - 1 |-> NoRecord]
        /\ pending_records = [i \in 0..pending_capacity - 1 |-> EmptyPlace]
        /\ pass = [c \in Contexts |-> Idle]
    BY DEF Init
  <1>2. NoRecord \in Records /\ NoRecord.number = 0
        /\ EmptyPlace \in [record : Records, delivered : SUBSET AllSinks]
    BY DEF NoRecord, EmptyPlace, Record, Records, DiagnosticPriority
  <1>3. TypeOK
    <2>1. /\ published \in Nat /\ history_count \in 0..history_capacity
          /\ history_next_index \in 0..history_capacity - 1
          /\ pending_count \in 0..pending_capacity /\ sink_count \in 0..max_sinks
      BY <1>1, HubAssumption
    <2>2. /\ history \in [0..history_capacity - 1 -> Records]
          /\ pending_records \in
               [0..pending_capacity - 1 -> [record : Records, delivered : SUBSET AllSinks]]
      BY <1>1, <1>2
    <2>3. /\ accepting \subseteq AllSinks /\ ticking \in BOOLEAN /\ running \in BOOLEAN
          /\ evicted \subseteq Nat /\ interrupted \in BOOLEAN
          /\ pass \in [Contexts -> PassType]
      BY <1>1, IdleInRange
    <2> QED
      BY <1>1, <2>1, <2>2, <2>3 DEF TypeOK
  <1>4. PassesInRange
    BY <1>1, IdleInRange DEF PassesInRange
  <1>5. RingHoldsTheLatest
    BY <1>1, <1>2, HubAssumption DEF RingHoldsTheLatest
  <1> QED
    BY <1>3, <1>4, <1>5 DEF HubInv

LEMMA HubPublish ==
  ASSUME HubInv, NEW c \in Contexts, NEW p \in DiagnosticPriority, Publish(c, p)
  PROVE  HubInv'
  <1>1. /\ published' = published + 1
        /\ PushHistory(Record(published + 1, p))
        /\ UNCHANGED <<pending_records, pending_count, sink_count, accepting, due, ticking,
                        running, got>>
        /\ interrupted' \in BOOLEAN
    BY DEF Publish, environment, queue, HubInv, TypeOK
  <1>2. /\ published' \in Nat
        /\ history' \in [0..history_capacity - 1 -> Records]
        /\ history_count' \in 0..history_capacity
        /\ history_next_index' \in 0..history_capacity - 1
        /\ RingHoldsTheLatest'
        /\ history[history_next_index].number \in 0..published
    BY <1>1, PushHistoryKeeps DEF HubInv, TypeOK
  <1>3. evicted' \subseteq Nat
    <2>1. 0..published \subseteq Nat /\ evicted \subseteq Nat
      BY DEF HubInv, TypeOK
    <2> QED
      BY <1>2, <2>1 DEF Publish
  <1>4. pass' \in [Contexts -> PassType] /\ PassesInRange'
    <2> DEFINE call == [Idle EXCEPT !.at = "queueing", !.record = Record(published + 1, p)]
    <2>1. Record(published + 1, p) \in Records
      BY DEF HubInv, TypeOK, Record, Records
    <2>2. call \in PassType /\ InRange(call)
      BY <2>1, IdleInRange DEF PassType, InRange
    <2>3. pass' = [pass EXCEPT ![c] = call]
      BY DEF Publish
    <2> QED
      BY <1>1, <2>2, <2>3, PassStep
  <1>5. TypeOK'
    BY <1>1, <1>2, <1>3, <1>4 DEF HubInv, TypeOK
  <1> QED
    BY <1>2, <1>4, <1>5 DEF HubInv

LEMMA HubEnqueue ==
  ASSUME HubInv, NEW c \in Contexts, Enqueue(c)
  PROVE  HubInv'
  <1> DEFINE r == pass[c].record
             call == IF r.priority = "URGENT" THEN Flushing(TRUE, FALSE) ELSE Idle
  <1>1. /\ UNCHANGED <<published, ring, sink_count, environment, got, interrupted>>
        /\ pass' = [pass EXCEPT ![c] = call]
    BY DEF Enqueue
  <1>2. r \in Records
    BY DEF HubInv, TypeOK, PassType
  <1>3. /\ pending_records' \in [Places -> Place] /\ pending_count' \in 0..pending_capacity
        /\ evicted' \subseteq Nat
    <2>1. CASE sink_count > 0
      <3>1. PushPending(r)
        BY <2>1 DEF Enqueue
      <3>2. pending_count' \in 1..pending_capacity
        BY <1>2, <3>1, PushKeepsType
      <3> QED
        BY <1>2, <3>1, <3>2, PushKeepsType, HubAssumption
    <2>2. CASE ~(sink_count > 0)
      BY <2>2 DEF Enqueue, queue, HubInv, TypeOK, Places, Place
    <2> QED
      BY <2>1, <2>2
  <1>4. call \in PassType /\ InRange(call)
    BY FlushingInRange, IdleInRange
  <1> HIDE DEF call
  <1>5. pass' \in [Contexts -> PassType] /\ PassesInRange'
    BY <1>1, <1>4, PassStep
  <1>6. TypeOK' /\ RingHoldsTheLatest'
    BY <1>1, <1>3, <1>5 DEF HubInv, TypeOK, ring, environment, Places, Place, RingHoldsTheLatest
  <1> QED
    BY <1>5, <1>6 DEF HubInv

LEMMA HubEmplace ==
  ASSUME HubInv, EmplaceSink
  PROVE  HubInv'
  <1>1. /\ pass["main"].at = "idle" /\ pass["isr"].at = "idle"
        /\ sink_count' = sink_count + 1 /\ sink_count < max_sinks
        /\ UNCHANGED <<published, ring, queue, environment, got, evicted, interrupted>>
    BY DEF EmplaceSink, CanStep
  <1>2. sink_count' \in 0..max_sinks /\ sink_count' > 0
    BY <1>1, HubAssumption DEF HubInv, TypeOK
  <1> DEFINE call == [Idle EXCEPT !.at = "replaying"]
  <1>3. call \in PassType /\ call.at = "replaying"
    BY IdleInRange DEF PassType
  <1>4. pass' = pass \/ pass' = [pass EXCEPT !["main"] = call]
    BY DEF EmplaceSink
  <1> HIDE DEF call
  <1>5. pass' \in [Contexts -> PassType]
    BY <1>3, <1>4 DEF HubInv, TypeOK
  <1>6. \A c \in Contexts : pass'[c].at \in {"idle", "replaying"}
    BY <1>1, <1>3, <1>4 DEF HubInv, TypeOK, Contexts
  <1>7. PassesInRange'
    BY <1>2, <1>6 DEF PassesInRange, InRange
  <1>8. TypeOK' /\ RingHoldsTheLatest'
    BY <1>1, <1>2, <1>5 DEF HubInv, TypeOK, ring, queue, environment, RingHoldsTheLatest
  <1> QED
    BY <1>7, <1>8 DEF HubInv

LEMMA HubReplay ==
  ASSUME HubInv, ReplayHistory
  PROVE  HubInv'
  <1>1. /\ UNCHANGED <<published, ring, sink_count, environment, got, evicted, interrupted>>
        /\ pass' = [pass EXCEPT !["main"] = Idle] /\ "main" \in Contexts
    BY DEF ReplayHistory, Contexts
  <1>2. pending_records' \in [Places -> Place] /\ pending_count' \in 0..pending_capacity
    <2>1. CASE pending_count = 0
      BY <2>1, ReplayInOrder DEF ReplayHistory
    <2>2. CASE pending_count # 0
      BY <2>2 DEF ReplayHistory, queue, HubInv, TypeOK, Places, Place
    <2> QED
      BY <2>1, <2>2
  <1>3. pass' \in [Contexts -> PassType] /\ PassesInRange'
    BY <1>1, IdleInRange, PassStep
  <1>4. TypeOK' /\ RingHoldsTheLatest'
    BY <1>1, <1>2, <1>3 DEF HubInv, TypeOK, ring, environment, Places, Place, RingHoldsTheLatest
  <1> QED
    BY <1>3, <1>4 DEF HubInv

(* A step of a flush that changes nothing else.                            *)
LEMMA HubOnlyPass ==
  ASSUME HubInv, pass' \in [Contexts -> PassType], PassesInRange',
         UNCHANGED <<published, ring, queue, sink_count, environment, got, evicted, interrupted>>
  PROVE  HubInv'
  BY DEF HubInv, TypeOK, ring, queue, environment, RingHoldsTheLatest

LEMMA HubFlush ==
  ASSUME HubInv, Flush
  PROVE  HubInv'
  <1>1. pass' = [pass EXCEPT !["main"] = Flushing(TRUE, TRUE)] /\ sink_count' = sink_count
        /\ "main" \in Contexts
    BY DEF Flush, Contexts
  <1>2. pass' \in [Contexts -> PassType] /\ PassesInRange'
    BY <1>1, PassStep, FlushingInRange
  <1> QED
    BY <1>2, HubOnlyPass DEF Flush

LEMMA HubNextRecord ==
  ASSUME HubInv, NEW c \in Contexts, NextRecord(c)
  PROVE  HubInv'
  <1> DEFINE p == pass[c]
             flush == IF p.record_index >= pending_count
                      THEN IF p.normal_next THEN Flushing(FALSE, FALSE) ELSE Idle
                      ELSE IF Offered(p) THEN [p EXCEPT !.at = "sink", !.sink_index = 0]
                           ELSE [p EXCEPT !.record_index = Behind(@)]
  <1>1. pass' = [pass EXCEPT ![c] = flush] /\ p.at = "record" /\ sink_count' = sink_count
    BY DEF NextRecord
  <1>2. p \in PassType /\ InRange(p) /\ pending_count \in 0..pending_capacity
    BY DEF HubInv, TypeOK, PassesInRange
  <1>3. flush \in PassType /\ InRange(flush)
    <2>1. CASE p.record_index >= pending_count
      BY <2>1, FlushingInRange, IdleInRange
    <2>2. CASE ~(p.record_index >= pending_count) /\ Offered(p)
      <3>1. p.record_index < pending_capacity /\ p.record_index \in Nat
        BY <1>2, <2>2, HubAssumption DEF PassType
      <3>2. flush = [p EXCEPT !.at = "sink", !.sink_index = 0]
        BY <2>2
      <3> HIDE DEF flush
      <3> QED
        BY <1>1, <1>2, <3>1, <3>2 DEF PassType, InRange
    <2>3. CASE ~(p.record_index >= pending_count) /\ ~Offered(p)
      <3>1. flush = [p EXCEPT !.record_index = p.record_index + 1]
        BY <2>3 DEF Behind
      <3> HIDE DEF flush
      <3> QED
        BY <1>1, <1>2, <3>1 DEF PassType, InRange
    <2> QED
      BY <2>1, <2>2, <2>3
  <1>4. pass' \in [Contexts -> PassType] /\ PassesInRange'
    BY <1>1, <1>3, PassStep
  <1> QED
    BY <1>4, HubOnlyPass DEF NextRecord

(* The four ways of the loop over the sinks: go on, call a sink, remove    *)
(* the record, leave it.                                                   *)
Skips(c) ==
  /\ pass[c].sink_index < sink_count
  /\ pass[c].sink_index \in pending_records[pass[c].record_index].delivered
  /\ pass' = [pass EXCEPT ![c].sink_index = @ + 1]
  /\ UNCHANGED <<queue, got>>

Calls(c) ==
  /\ pass[c].sink_index < sink_count
  /\ pass[c].sink_index \notin pending_records[pass[c].record_index].delivered
  /\ pass' = [pass EXCEPT ![c].at = "published",
                          ![c].accepted = pass[c].sink_index \in accepting]
  /\ got' = IF pass[c].sink_index \in accepting
              THEN [got EXCEPT ![pass[c].sink_index] =
                      Append(@, pending_records[pass[c].record_index].record.number)] ELSE got
  /\ UNCHANGED queue

Removes(c) ==
  /\ pass[c].sink_index >= sink_count
  /\ pending_records[pass[c].record_index].delivered = pass[c].target
  /\ pass' = [pass EXCEPT ![c].at = "record"]
  /\ IF pass[c].record_index < pending_count
      THEN /\ pending_records' = RemovePending(pending_records, pending_count, pass[c].record_index)
           /\ pending_count' = pending_count - 1
      ELSE UNCHANGED queue
  /\ UNCHANGED got

Leaves(c) ==
  /\ pass[c].sink_index >= sink_count
  /\ pass' = [pass EXCEPT ![c].at = "record", ![c].record_index = @ + 1]
  /\ UNCHANGED <<queue, got>>

LEMMA NextSinkCases ==
  ASSUME NEW c \in Contexts, NextSink(c)
  PROVE  /\ pass[c].at = "sink"
         /\ Skips(c) \/ Calls(c) \/ Removes(c) \/ Leaves(c)
         /\ UNCHANGED <<published, ring, sink_count, environment, evicted, interrupted>>
  BY DEF NextSink, Skips, Calls, Removes, Leaves, Complete, Behind

LEMMA HubNextSink ==
  ASSUME HubInv, NEW c \in Contexts, NextSink(c)
  PROVE  HubInv'
  <1> DEFINE p == pass[c]
  <1>1. /\ p.at = "sink"
        /\ Skips(c) \/ Calls(c) \/ Removes(c) \/ Leaves(c)
        /\ UNCHANGED <<published, ring, sink_count, environment, evicted, interrupted>>
    BY NextSinkCases
  <1>2. /\ p \in PassType /\ InRange(p)
        /\ pass \in [Contexts -> PassType]
        /\ p.record_index \in 0..pending_capacity - 1 /\ p.sink_index \in Nat
        /\ sink_count \in 0..max_sinks
    BY <1>1, HubAssumption DEF HubInv, TypeOK, PassesInRange, InRange, PassType
  <1>3. pass' \in [Contexts -> PassType] /\ PassesInRange'
    <2>1. CASE Skips(c)
      <3> DEFINE flush == [p EXCEPT !.sink_index = p.sink_index + 1]
      <3>1. flush \in PassType /\ InRange(flush)
        BY <1>1, <1>2 DEF PassType, InRange
      <3>2. pass' = [pass EXCEPT ![c] = flush]
        BY <1>2, <2>1 DEF Skips
      <3> QED
        BY <1>1, <3>1, <3>2, PassStep
    <2>2. CASE Calls(c)
      <3> DEFINE takes == p.sink_index \in accepting
                 flush == [p EXCEPT !.at = "published", !.accepted = takes]
      <3>1. takes \in BOOLEAN
        OBVIOUS
      <3>2. pass' = [pass EXCEPT ![c] = flush] /\ p.sink_index < sink_count
        BY <1>2, <2>2 DEF Calls
      <3> HIDE DEF takes
      <3>3. flush \in PassType /\ InRange(flush)
        BY <1>1, <1>2, <3>1, <3>2 DEF PassType, InRange
      <3> QED
        BY <1>1, <3>2, <3>3, PassStep
    <2>3. CASE Removes(c)
      <3> DEFINE flush == [p EXCEPT !.at = "record"]
      <3>1. flush \in PassType /\ InRange(flush)
        BY <1>1, <1>2 DEF PassType, InRange
      <3>2. pass' = [pass EXCEPT ![c] = flush]
        BY <1>2, <2>3 DEF Removes
      <3> QED
        BY <1>1, <3>1, <3>2, PassStep
    <2>4. CASE Leaves(c)
      <3> DEFINE flush == [p EXCEPT !.at = "record", !.record_index = p.record_index + 1]
      <3>1. flush \in PassType /\ InRange(flush)
        <4>1. p.record_index + 1 \in Nat
          BY <1>2, HubAssumption
        <4>2. flush \in PassType
          BY <1>2, <4>1 DEF PassType
        <4>3. flush.at = "record" /\ flush.target = p.target
          BY <1>2 DEF PassType
        <4> HIDE DEF flush
        <4> QED
          BY <1>1, <1>2, <4>2, <4>3 DEF InRange
      <3>2. pass' = [pass EXCEPT ![c] = flush]
        BY <1>2, <2>4 DEF Leaves
      <3> QED
        BY <1>1, <3>1, <3>2, PassStep
    <2> QED
      BY <1>1, <2>1, <2>2, <2>3, <2>4
  <1>4. /\ pending_records \in [Places -> Place] /\ pending_count \in 0..pending_capacity
        /\ got \in [AllSinks -> Seq(Nat)] /\ pending_capacity \in Nat
    BY HubAssumption DEF HubInv, TypeOK, Places, Place
  <1>5. /\ pending_records' \in [Places -> Place] /\ pending_count' \in 0..pending_capacity
    <2>1. CASE Removes(c) /\ p.record_index < pending_count
      <3>1. /\ pending_records' = RemovePending(pending_records, pending_count, p.record_index)
            /\ pending_count' = pending_count - 1
        BY <2>1 DEF Removes
      <3>2. pending_count \in 1..pending_capacity /\ p.record_index \in 0..pending_count - 1
        BY <1>2, <1>4, <2>1
      <3>3. pending_records' \in [Places -> Place]
        BY <1>4, <3>1, <3>2, RemoveOne
      <3> QED
        BY <1>1, <1>4, <3>1, <3>2, <3>3
    <2>2. CASE ~(Removes(c) /\ p.record_index < pending_count)
      <3>1. pending_records' = pending_records /\ pending_count' = pending_count
        BY <1>1, <2>2 DEF Skips, Calls, Removes, Leaves, queue
      <3> QED
        BY <1>1, <1>4, <3>1
    <2> QED
      BY <2>1, <2>2
  <1>6. got' \in [AllSinks -> Seq(Nat)]
    <2>1. CASE Calls(c) /\ p.sink_index \in accepting
      <3> DEFINE number == pending_records[p.record_index].record.number
      <3>1. number \in Nat
        BY <1>2, <1>4 DEF Places, Place, Records
      <3>2. got' = [got EXCEPT ![p.sink_index] = Append(@, number)]
        BY <2>1 DEF Calls
      <3> HIDE DEF number
      <3>3. \A s \in Seq(Nat) : Append(s, number) \in Seq(Nat)
        BY <3>1
      <3>4. \A s \in AllSinks : got'[s] = got[s] \/ got'[s] = Append(got[s], number)
        BY <1>4, <3>2
      <3>5. DOMAIN got' = AllSinks /\ got' = [s \in AllSinks |-> got'[s]]
        BY <1>4, <3>2
      <3>6. \A s \in AllSinks : got'[s] \in Seq(Nat)
        BY <1>4, <3>3, <3>4
      <3> HIDE DEF number
      <3> QED
        BY <3>5, <3>6
    <2>2. CASE ~(Calls(c) /\ p.sink_index \in accepting)
      BY <1>1, <1>4, <2>2 DEF Skips, Calls, Removes, Leaves
    <2> QED
      BY <2>1, <2>2
  <1>7. TypeOK'
    BY <1>1, <1>3, <1>5, <1>6 DEF HubInv, TypeOK, ring, environment, Places, Place
  <1>8. RingHoldsTheLatest'
    BY <1>1 DEF HubInv, ring, RingHoldsTheLatest
  <1> QED
    BY <1>3, <1>7, <1>8 DEF HubInv

Mark(places, k, s) == [places EXCEPT ![k].delivered = @ \union {s}]

LEMMA MarkPlace ==
  ASSUME NEW places \in [Places -> Place], NEW k \in Places, NEW s \in AllSinks
  PROVE  LET marked == Mark(places, k, s) IN
         /\ marked \in [Places -> Place]
         /\ \A i \in Places : Number(marked, i) = Number(places, i)
         /\ \A i \in Places :
              marked[i].delivered = IF i = k THEN places[i].delivered \union {s}
                                    ELSE places[i].delivered
  <1> DEFINE marked == Mark(places, k, s)
             place == [places[k] EXCEPT !.delivered = places[k].delivered \union {s}]
  <1>1. /\ place \in Place /\ place.record = places[k].record
        /\ place.delivered = places[k].delivered \union {s}
    BY DEF Place
  <1>2. marked = [places EXCEPT ![k] = place]
    BY DEF Mark
  <1> HIDE DEF place, marked
  <1>3. /\ marked \in [Places -> Place]
        /\ \A i \in Places : Number(marked, i) = Number(places, i)
        /\ \A i \in Places :
             marked[i].delivered = IF i = k THEN places[i].delivered \union {s}
                                   ELSE places[i].delivered
    BY <1>1, <1>2 DEF Number
  <1> QED
    BY <1>3 DEF marked

(* A sink has returned.  What a handler's flush leaves of the pass it      *)
(* interrupted stays in range.                                             *)
LEMMA HubSinkReturns ==
  ASSUME HubInv, NEW c \in Contexts, SinkReturns(c)
  PROVE  HubInv'
  <1> DEFINE p == pass[c]
             returned == [p EXCEPT !.at = "sink", !.sink_index = @ + 1]
  <1>1. /\ p.at = "published"
        /\ UNCHANGED <<published, ring, sink_count, accepting, ticking, running, got, evicted,
                        interrupted>>
    BY DEF SinkReturns
  <1>2. /\ p \in PassType /\ InRange(p)
        /\ pass \in [Contexts -> PassType] /\ \A d \in Contexts : InRange(pass[d])
        /\ p.record_index \in Places /\ p.sink_index \in AllSinks
    BY <1>1, HubAssumption
    DEF HubInv, TypeOK, PassesInRange, InRange, PassType, Places, AllSinks
  <1>3. returned \in PassType /\ InRange(returned)
    <2>1. p.sink_index + 1 \in Nat
      BY <1>2, HubAssumption DEF AllSinks
    <2> QED
      BY <1>1, <1>2, <2>1 DEF PassType, InRange
  <1>4. /\ pending_records \in [Places -> Place] /\ pending_count \in 0..pending_capacity
        /\ due \in [DiagnosticPriority -> BOOLEAN]
    BY DEF HubInv, TypeOK, Places, Place
  <1>5. CASE ~Succeeded(p)
    <2>1. pass' = [pass EXCEPT ![c] = returned] /\ UNCHANGED <<queue, due>>
      BY <1>5 DEF SinkReturns
    <2> HIDE DEF returned
    <2>2. pass' \in [Contexts -> PassType] /\ PassesInRange'
      BY <1>1, <1>3, <2>1, PassStep
    <2> QED
      BY <1>1, <2>1, <2>2, HubOnlyPass DEF environment
  <1>6. CASE Succeeded(p)
    <2> DEFINE opened == [returned EXCEPT !.open = p.at_zero]
               between == [pass EXCEPT ![c] = opened]
    <2>1. /\ pending_records' = Mark(pending_records, p.record_index, p.sink_index)
          /\ pending_count' = pending_count
          /\ due' = [due EXCEPT ![Level(p.urgent_only)] = p.at_zero]
      BY <1>6 DEF SinkReturns, Mark
    <2>2. p.at_zero \in BOOLEAN /\ pass["main"].at_zero \in BOOLEAN
      BY <1>2 DEF PassType, Contexts
    <2>3. \/ pass' = between
          \/ c = "isr" /\ \E open \in BOOLEAN : pass' = [between EXCEPT !["main"].open = open]
      <3>1. CASE c = "isr" /\ pass["main"].at # "idle" /\ pass["main"].urgent_only
        <4>1. PICK again \in BOOLEAN :
                pass' = [pass EXCEPT ![c] = opened,
                                     !["main"].open = again \/ pass["main"].at_zero]
          BY <1>6, <3>1 DEF SinkReturns
        <4>2. (again \/ pass["main"].at_zero) \in BOOLEAN
          BY <2>2
        <4> HIDE DEF opened
        <4> QED
          BY <3>1, <4>1, <4>2
      <3>2. CASE ~(c = "isr" /\ pass["main"].at # "idle" /\ pass["main"].urgent_only)
        BY <1>6, <3>2 DEF SinkReturns
      <3> QED
        BY <3>1, <3>2
    <2> HIDE DEF returned
    <2>4. opened \in PassType /\ InRange(opened)
      BY <1>3, <2>2 DEF PassType, InRange
    <2> HIDE DEF opened
    <2>5. between \in [Contexts -> PassType] /\ \A d \in Contexts : InRange(between[d])
      BY <1>2, <2>4
    <2> HIDE DEF between
    <2>6. pass' \in [Contexts -> PassType] /\ \A d \in Contexts : InRange(pass'[d])
      <3>1. CASE pass' = between
        BY <2>5, <3>1
      <3>2. ASSUME NEW open \in BOOLEAN, pass' = [between EXCEPT !["main"].open = open]
            PROVE  pass' \in [Contexts -> PassType] /\ \A d \in Contexts : InRange(pass'[d])
        <4> DEFINE resumed == [between["main"] EXCEPT !.open = open]
        <4>1. between["main"] \in PassType /\ InRange(between["main"])
          BY <2>5 DEF Contexts
        <4>2. resumed \in PassType /\ InRange(resumed)
          BY <4>1 DEF PassType, InRange
        <4>3. pass' = [between EXCEPT !["main"] = resumed]
          BY <3>2
        <4> HIDE DEF resumed
        <4> QED
          BY <2>5, <4>2, <4>3
      <3> QED
        BY <2>3, <3>1, <3>2
    <2>7. PassesInRange'
      BY <1>1, <2>6 DEF PassesInRange, InRange
    <2>8. pending_records' \in [Places -> Place]
      BY <1>2, <1>4, <2>1, MarkPlace
    <2>9. due' \in [DiagnosticPriority -> BOOLEAN]
      BY <1>4, <2>1, <2>2
    <2>10. TypeOK'
      BY <1>1, <2>1, <2>6, <2>8, <2>9 DEF HubInv, TypeOK, ring, Places, Place
    <2>11. RingHoldsTheLatest'
      BY <1>1 DEF HubInv, ring, RingHoldsTheLatest
    <2> QED
      BY <2>7, <2>10, <2>11 DEF HubInv
  <1> QED
    BY <1>5, <1>6

LEMMA HubEnvironment ==
  ASSUME HubInv, Environment \/ UNCHANGED vars
  PROVE  HubInv'
  <1>1. /\ UNCHANGED <<published, ring, queue, sink_count, pass, got, evicted, interrupted>>
        /\ accepting' \subseteq AllSinks /\ ticking' \in BOOLEAN /\ running' \in BOOLEAN
        /\ due' \in [DiagnosticPriority -> BOOLEAN]
    BY DEF HubInv, TypeOK, Environment, StartTicking, TimerToggles, Elapse, Toggle, vars, environment
  <1> QED
    BY <1>1 DEF HubInv, TypeOK, ring, queue, PassesInRange, InRange, RingHoldsTheLatest

LEMMA HubNext ==
  ASSUME HubInv, [Next]_vars
  PROVE  HubInv'
  <1>1. ASSUME NEW c \in Contexts, Run(c) PROVE HubInv'
    BY <1>1, HubEnqueue, HubNextRecord, HubNextSink, HubSinkReturns DEF Run
  <1>2. ASSUME NEW c \in Contexts, NEW p \in DiagnosticPriority, Publish(c, p) PROVE HubInv'
    BY <1>2, HubPublish
  <1> QED
    BY <1>1, <1>2, HubEmplace, HubReplay, HubFlush, HubEnvironment DEF Next

LEMMA HubInvariant == Spec => []HubInv
  BY HubInit, HubNext, PTL DEF Spec

(* Whatever interrupt handlers publish and flush while a sink transmits,   *)
(* or between the two halves of publish, no place outside the arrays is    *)
(* spoken of, and the ring holds the latest records.                       *)
THEOREM HubStaysInRange == Spec => [](TypeOK /\ RingHoldsTheLatest)
  <1>1. HubInv => TypeOK /\ RingHoldsTheLatest
    BY DEF HubInv
  <1> QED
    BY <1>1, HubInvariant, PTL
-----------------------------------------------------------------------------
(* CallInv is inductive until a handler publishes in the middle of a call. *)

LEMMA CallInit ==
  ASSUME Init
  PROVE  CallInv
  <1>1. /\ \A c \in Contexts : pass[c].at = "idle"
        /\ pending_count = 0 /\ sink_count = 0 /\ published = 0 /\ history_count = 0
        /\ \A s \in AllSinks : got[s] = <<>>
    BY DEF Init, Idle
  <1>2. \A s \in AllSinks : Taken(s) = {}
    BY <1>1 DEF Taken
  <1>3. Alone /\ QueueingTheLatest /\ OffersWhatWaits
    BY <1>1 DEF Alone, QueueingTheLatest, OffersWhatWaits
  <1>4. InOrder(pending_records, pending_count, Entered) /\ MarksAreExact /\ AllAccounted
    BY <1>1 DEF InOrder, MarksAreExact, AllAccounted
  <1>5. BeforeTheReplay
    BY <1>1 DEF BeforeTheReplay
  <1>6. TakenHaveEntered /\ NeverTwice
    BY <1>1, <1>2 DEF TakenHaveEntered, NeverTwice
  <1> QED
    BY <1>3, <1>4, <1>5, <1>6 DEF CallInv

(* The step of one context while the other is in no call.                  *)
OthersIdle(c) == \A d \in Contexts : d # c => pass[d].at = "idle"

LEMMA OneCall ==
  ASSUME HubInv, NEW c \in Contexts, NEW call, OthersIdle(c), pass' = [pass EXCEPT ![c] = call]
  PROVE  /\ pass'[c] = call /\ Alone'
         /\ QueueingTheLatest' <=>
              (call.at = "queueing" => call.record.number = published' /\ published' > 0)
         /\ OffersWhatWaits' <=>
              (call.at \in {"sink", "published"} => call.record_index < pending_count')
         /\ Entered = IF pass[c].at = "queueing" THEN published - 1 ELSE published
         /\ Entered' = IF call.at = "queueing" THEN published' - 1 ELSE published'
         /\ pass["main"].at = "replaying" <=> c = "main" /\ pass[c].at = "replaying"
         /\ pass'["main"].at = "replaying" <=> c = "main" /\ call.at = "replaying"
         /\ \A i, s : BeingTaken(i, s) <=>
              Taking(c) /\ pass[c].record_index = i /\ pass[c].sink_index = s
         /\ \A i, s : BeingTaken(i, s)' <=>
              /\ call.at = "published" /\ call.accepted = TRUE
              /\ call.record_index = i /\ call.sink_index = s
  <1>1. /\ pass'[c] = call
        /\ \A d \in Contexts : d # c => pass'[d] = pass[d] /\ pass[d].at = "idle"
    BY DEF HubInv, TypeOK, OthersIdle
  <1>2. "main" \in Contexts
    BY DEF Contexts
  <1>3. Alone'
    BY <1>1 DEF Alone
  <1>4. QueueingTheLatest' <=>
          (call.at = "queueing" => call.record.number = published' /\ published' > 0)
    BY <1>1 DEF QueueingTheLatest
  <1>5. OffersWhatWaits' <=>
          (call.at \in {"sink", "published"} => call.record_index < pending_count')
    BY <1>1 DEF OffersWhatWaits
  <1>6. /\ Entered = IF pass[c].at = "queueing" THEN published - 1 ELSE published
        /\ Entered' = IF call.at = "queueing" THEN published' - 1 ELSE published'
    BY <1>1 DEF Entered
  <1>7. /\ \A i, s : BeingTaken(i, s) <=>
             Taking(c) /\ pass[c].record_index = i /\ pass[c].sink_index = s
        /\ \A i, s : BeingTaken(i, s)' <=>
             /\ call.at = "published" /\ call.accepted = TRUE
             /\ call.record_index = i /\ call.sink_index = s
    BY <1>1 DEF BeingTaken, Taking
  <1>8. /\ pass["main"].at = "replaying" <=> c = "main" /\ pass[c].at = "replaying"
        /\ pass'["main"].at = "replaying" <=> c = "main" /\ call.at = "replaying"
    BY <1>1, <1>2
  <1> QED
    BY <1>1, <1>3, <1>4, <1>5, <1>6, <1>7, <1>8

LEMMA InRanges ==
  ASSUME HubInv
  PROVE  /\ pass \in [Contexts -> PassType]
         /\ \A c \in Contexts : /\ pass[c] \in PassType /\ pass[c].record_index \in Nat
                                /\ pass[c].sink_index \in Nat
         /\ pending_count \in Nat /\ sink_count \in Nat /\ published \in Nat
         /\ history_count \in Nat
         /\ pending_records \in [Places -> Place]
         /\ \A i \in 0..pending_count - 1 : i \in Places
         /\ \A s \in AllSinks : s \in Nat
         /\ got \in [AllSinks -> Seq(Nat)]
  <1>1. /\ pass \in [Contexts -> PassType] /\ got \in [AllSinks -> Seq(Nat)]
        /\ pending_count \in 0..pending_capacity /\ pending_capacity \in Nat
        /\ sink_count \in 0..max_sinks /\ max_sinks \in Nat /\ published \in Nat
        /\ history_count \in 0..history_capacity
        /\ pending_records \in [Places -> Place]
    BY HubAssumption DEF HubInv, TypeOK, Places, Place
  <1> QED
    BY <1>1, HubAssumption DEF PassType, Places, AllSinks

(* Who is in a call, or may begin one, is alone.                           *)
LEMMA OthersAreIdle ==
  ASSUME HubInv, CallInv, NEW c \in Contexts
  PROVE  /\ pass[c].at # "idle" => OthersIdle(c)
         /\ CanStep("main") => OthersIdle("main")
  BY DEF CallInv, Alone, OthersIdle, CanStep, Contexts

(* A step that takes, marks and removes nothing.                           *)
LEMMA CallQuiet ==
  ASSUME HubInv, CallInv, NEW c \in Contexts, NEW call, OthersIdle(c),
         pass' = [pass EXCEPT ![c] = call],
         pass[c].at \notin {"queueing", "replaying"}, ~Taking(c),
         call.at \notin {"queueing", "replaying"},
         ~(call.at = "published" /\ call.accepted = TRUE),
         call.at \in {"sink", "published"} => call.record_index < pending_count,
         UNCHANGED <<published, ring, queue, sink_count, got, evicted>>
  PROVE  CallInv'
  <1>1. /\ Alone' /\ QueueingTheLatest' /\ OffersWhatWaits' /\ Entered' = Entered
        /\ OnlyTheRing' <=> OnlyTheRing
        /\ \A i, s : ~BeingTaken(i, s) /\ ~BeingTaken(i, s)'
    BY OneCall DEF queue, OnlyTheRing
  <1>2. /\ InOrder(pending_records', pending_count', Entered') /\ BeforeTheReplay'
    BY <1>1 DEF CallInv, queue, ring, BeforeTheReplay
  <1>3. MarksAreExact'
    BY <1>1 DEF CallInv, MarksAreExact, Taken, Number, queue
  <1>4. TakenHaveEntered' /\ NeverTwice'
    BY <1>1 DEF CallInv, TakenHaveEntered, NeverTwice, Taken
  <1>5. AllAccounted'
    BY <1>1 DEF CallInv, AllAccounted, Waiting, Taken, queue, OnlyTheRing
  <1> QED
    BY <1>1, <1>2, <1>3, <1>4, <1>5 DEF CallInv

LEMMA LastPlace ==
  ASSUME NEW n \in Nat \ {0}
  PROVE  /\ n - 1 \in 0..n - 1
         /\ \A i \in 0..n - 1 : i = n - 1 \/ i \in 0..n - 2
         /\ \A i \in 0..n - 2 : i \in 0..n - 1
  OBVIOUS

LEMMA CallPublish ==
  ASSUME HubInv, CallInv, NEW c \in Contexts, NEW p \in DiagnosticPriority, Publish(c, p),
         OthersIdle(c)
  PROVE  CallInv'
  <1> DEFINE call == [Idle EXCEPT !.at = "queueing", !.record = Record(published + 1, p)]
  <1>1. /\ pass[c].at = "idle" /\ published' = published + 1 /\ published \in Nat
        /\ PushHistory(Record(published + 1, p))
        /\ pass' = [pass EXCEPT ![c] = call]
        /\ UNCHANGED <<pending_records, pending_count, sink_count, got>>
    BY InRanges DEF Publish, queue
  <1>2. call.at = "queueing" /\ call.record = Record(published + 1, p)
    BY DEF Idle
  <1> HIDE DEF call
  <1>3. /\ Alone' /\ QueueingTheLatest' /\ OffersWhatWaits' /\ Entered' = Entered
        /\ pass["main"].at # "replaying" /\ pass'["main"].at # "replaying"
        /\ \A i, s : ~BeingTaken(i, s) /\ ~BeingTaken(i, s)'
    <2>1. call.record.number = published' /\ published' > 0 /\ published' \in Nat
      BY <1>1, <1>2 DEF Record
    <2>4. Entered' = published' - 1
      BY <1>1, <1>2, OneCall
    <2>2. Alone' /\ QueueingTheLatest' /\ OffersWhatWaits' /\ Entered = published
      BY <1>1, <1>2, <2>1, OneCall
    <2>3. /\ pass["main"].at # "replaying" /\ pass'["main"].at # "replaying"
          /\ \A i, s : ~BeingTaken(i, s) /\ ~BeingTaken(i, s)'
      BY <1>1, <1>2, OneCall DEF Taking
    <2> QED
      BY <1>1, <2>1, <2>2, <2>3, <2>4
  <1>4. InOrder(pending_records', pending_count', Entered')
    BY <1>1, <1>3 DEF CallInv
  <1>5. BeforeTheReplay'
    <2>1. SUFFICES ASSUME sink_count = 0
                   PROVE  /\ pending_count = 0 /\ 1..published' - history_count' \subseteq evicted'
                          /\ \A s \in AllSinks : got[s] = <<>>
      BY <1>1, <1>3 DEF BeforeTheReplay, OnlyTheRing
    <2>2. pending_count = 0 /\ 1..published - history_count \subseteq evicted
          /\ \A s \in AllSinks : got[s] = <<>>
      BY <2>1 DEF CallInv, BeforeTheReplay, OnlyTheRing
    <2>3. 1..published + 1 - history_count' \subseteq
            (1..published - history_count) \union ({history[history_next_index].number} \ {0})
      BY <1>1, PushHistoryKeeps
    <2>4. evicted' = evicted \union ({history[history_next_index].number} \ {0})
      BY <2>1 DEF Publish
    <2>5. published' - history_count' = published + 1 - history_count'
      <3>1. history_count' \in 0..history_capacity
        BY <1>1, PushHistoryKeeps
      <3> QED
        BY <1>1, <3>1, HubAssumption
    <2> QED
      BY <2>2, <2>3, <2>4, <2>5
  <1>6. MarksAreExact' /\ TakenHaveEntered' /\ NeverTwice'
    BY <1>1, <1>3 DEF CallInv, MarksAreExact, TakenHaveEntered, NeverTwice, Taken, Number
  <1>7. AllAccounted'
    <2>1. sink_count > 0 => evicted' = evicted
      BY DEF Publish
    <2> QED
      BY <1>1, <1>3, <2>1 DEF CallInv, AllAccounted, Waiting, Taken
  <1> QED
    BY <1>3, <1>4, <1>5, <1>6, <1>7 DEF CallInv

LEMMA CallEnqueue ==
  ASSUME HubInv, CallInv, NEW c \in Contexts, Enqueue(c)
  PROVE  CallInv'
  <1> DEFINE r == pass[c].record
             top == published - 1
             call == IF r.priority = "URGENT" THEN Flushing(TRUE, FALSE) ELSE Idle
  <1>1. /\ pass[c].at = "queueing" /\ OthersIdle(c) /\ published' = published
        /\ sink_count' = sink_count /\ got' = got /\ history_count' = history_count
        /\ pass' = [pass EXCEPT ![c] = call]
    BY OthersAreIdle DEF Enqueue, ring
  <1>2. /\ r \in Records /\ r.number = published /\ top \in Nat /\ published \in Nat
        /\ r.priority \in DiagnosticPriority /\ r = Record(top + 1, r.priority)
        /\ top + 1 = published
    <2>1. r \in Records /\ published \in Nat
      BY InRanges DEF PassType
    <2>2. r.number = published /\ published > 0
      BY <1>1 DEF CallInv, QueueingTheLatest
    <2> QED
      BY <2>1, <2>2 DEF Records, Record
  <1>3. call.at \in {"record", "idle"}
    BY FlushingInRange, IdleInRange
  <1> HIDE DEF call, r, top
  <1>4. /\ Alone' /\ QueueingTheLatest' /\ OffersWhatWaits' /\ Entered = top /\ Entered' = top + 1
        /\ pass["main"].at # "replaying" /\ pass'["main"].at # "replaying"
        /\ \A i, s : ~BeingTaken(i, s) /\ ~BeingTaken(i, s)'
    BY <1>1, <1>2, <1>3, OneCall DEF Taking, top
  <1>5. \A s \in AllSinks \union {0} : Taken(s)' = Taken(s)
    BY <1>1 DEF Taken
  <1>6. \A s \in AllSinks : Taken(s) \subseteq 1..top
    BY <1>4 DEF CallInv, TakenHaveEntered
  <1>7. TakenHaveEntered' /\ NeverTwice'
    <2>1. 1..top \subseteq 1..top + 1
      BY <1>2
    <2>2. NeverTwice'
      BY <1>1 DEF CallInv, NeverTwice
    <2> QED
      BY <1>4, <1>5, <1>6, <2>1, <2>2 DEF TakenHaveEntered
  <1>8. CASE sink_count > 0
    <2>1. PushPending(Record(top + 1, r.priority))
      BY <1>2, <1>8 DEF Enqueue, r
    <2>2. /\ pending_count' \in 1..pending_capacity
          /\ InOrder(pending_records', pending_count', top + 1)
          /\ evicted \subseteq evicted'
          /\ pending_records'[pending_count' - 1] =
               [record |-> Record(top + 1, r.priority), delivered |-> {}]
          /\ \A i \in 0..pending_count' - 2 : \E j \in 0..pending_count - 1 :
               pending_records'[i] = pending_records[j]
          /\ \A j \in 0..pending_count - 1 :
               \/ Number(pending_records, j) \in evicted'
               \/ \E i \in 0..pending_count' - 2 : pending_records'[i] = pending_records[j]
      <3>1. InOrder(pending_records, pending_count, top)
        BY <1>4 DEF CallInv
      <3> QED
        BY <1>2, <2>1, <3>1, PushKeepsOrder
    <2>3. /\ pending_count' - 1 \in 0..pending_count' - 1
          /\ \A i \in 0..pending_count' - 1 : i = pending_count' - 1 \/ i \in 0..pending_count' - 2
          /\ \A i \in 0..pending_count' - 2 : i \in 0..pending_count' - 1
      <3>1. pending_count' \in Nat \ {0}
        BY <2>2, HubAssumption
      <3> QED
        BY <3>1, LastPlace
    <2>4. Number(pending_records', pending_count' - 1) = top + 1
      BY <2>2 DEF Number, Record
    <2>5. MarksAreExact'
      <3>1. SUFFICES ASSUME NEW i \in 0..pending_count' - 1, NEW s \in AllSinks
                     PROVE  Number(pending_records', i) \in Taken(s)
                              <=> s \in pending_records'[i].delivered
        BY <1>4, <1>5 DEF MarksAreExact
      <3>2. CASE i = pending_count' - 1
        <4>1. top + 1 \notin Taken(s)
          BY <1>2, <1>6
        <4>2. pending_records'[i].delivered = {}
          BY <2>2, <3>2
        <4> QED
          BY <2>4, <3>2, <4>1, <4>2
      <3>3. CASE i \in 0..pending_count' - 2
        <4>1. PICK j \in 0..pending_count - 1 : pending_records'[i] = pending_records[j]
          BY <2>2, <3>3
        <4>2. Number(pending_records, j) \in Taken(s) <=> s \in pending_records[j].delivered
          BY <1>4 DEF CallInv, MarksAreExact
        <4> QED
          BY <4>1, <4>2 DEF Number
      <3> QED
        BY <2>3, <3>2, <3>3
    <2>6. AllAccounted'
      <3>1. 1..top \subseteq Waiting \union Taken(0) \union evicted
        BY <1>4, <1>8 DEF CallInv, AllAccounted
      <3>2. top + 1 \in Waiting'
        BY <2>3, <2>4 DEF Waiting, Number
      <3>3. ASSUME NEW m \in Waiting PROVE m \in Waiting' \union evicted'
        <4>1. PICK j \in 0..pending_count - 1 : m = Number(pending_records, j)
          BY DEF Waiting, Number
        <4>2. CASE \E i \in 0..pending_count' - 2 : pending_records'[i] = pending_records[j]
          <5>1. PICK i \in 0..pending_count' - 2 : pending_records'[i] = pending_records[j]
            BY <4>2
          <5>2. i \in 0..pending_count' - 1
            BY <2>3
          <5> QED
            BY <4>1, <5>1, <5>2 DEF Waiting, Number
        <4> QED
          BY <2>2, <4>1, <4>2
      <3>4. \A m \in 1..top + 1 : m = top + 1 \/ m \in 1..top
        BY <1>2
      <3> QED
        BY <1>4, <1>5, <2>2, <3>1, <3>2, <3>3, <3>4 DEF AllAccounted
    <2>7. BeforeTheReplay'
      BY <1>1, <1>4, <1>8 DEF BeforeTheReplay, OnlyTheRing
    <2> QED
      BY <1>4, <1>7, <2>2, <2>5, <2>6, <2>7 DEF CallInv
  <1>9. CASE ~(sink_count > 0)
    <2>1. /\ sink_count = 0 /\ UNCHANGED <<pending_records, pending_count, evicted>>
      BY <1>9, InRanges DEF Enqueue, queue
    <2>2. OnlyTheRing /\ pending_count = 0
      BY <2>1 DEF CallInv, BeforeTheReplay, OnlyTheRing
    <2>3. BeforeTheReplay'
      BY <1>1, <2>1, <2>2 DEF CallInv, BeforeTheReplay
    <2>4. /\ InOrder(pending_records', pending_count', Entered') /\ MarksAreExact'
          /\ AllAccounted'
      BY <1>1, <2>1, <2>2 DEF InOrder, MarksAreExact, AllAccounted
    <2> QED
      BY <1>4, <1>7, <2>3, <2>4 DEF CallInv
  <1> QED
    BY <1>8, <1>9

LEMMA CallEmplace ==
  ASSUME HubInv, CallInv, EmplaceSink
  PROVE  CallInv'
  <1> DEFINE call == IF HadNoSinks THEN [Idle EXCEPT !.at = "replaying"] ELSE pass["main"]
  <1>1. /\ "main" \in Contexts /\ OthersIdle("main") /\ pass["main"].at = "idle"
        /\ sink_count' = sink_count + 1 /\ sink_count \in Nat
        /\ UNCHANGED <<published, pending_records, pending_count, history_count, got, evicted>>
    BY OthersAreIdle, InRanges DEF EmplaceSink, Contexts, ring, queue
  <1>2. pass' = [pass EXCEPT !["main"] = call]
    BY InRanges DEF EmplaceSink
  <1>3. /\ HadNoSinks => call.at = "replaying"
        /\ ~HadNoSinks => call.at = "idle"
    BY <1>1 DEF Idle
  <1> HIDE DEF call
  <1>4. /\ Alone' /\ QueueingTheLatest' /\ OffersWhatWaits' /\ Entered' = Entered
        /\ \A i, s : ~BeingTaken(i, s) /\ ~BeingTaken(i, s)'
        /\ pass["main"].at # "replaying"
        /\ pass'["main"].at = "replaying" <=> HadNoSinks
    BY <1>1, <1>2, <1>3, OneCall DEF Taking
  <1>5. OnlyTheRing' <=> OnlyTheRing
    BY <1>1, <1>4 DEF OnlyTheRing, HadNoSinks
  <1>6. BeforeTheReplay' /\ InOrder(pending_records', pending_count', Entered')
    BY <1>1, <1>4, <1>5 DEF CallInv, BeforeTheReplay
  <1>7. MarksAreExact' /\ TakenHaveEntered' /\ NeverTwice'
    BY <1>1, <1>4 DEF CallInv, MarksAreExact, TakenHaveEntered, NeverTwice, Taken, Number
  <1>8. AllAccounted'
    <2>1. SUFFICES ASSUME ~OnlyTheRing'
                   PROVE  1..Entered' \subseteq Waiting' \union Taken(0)' \union evicted'
      BY <1>1 DEF AllAccounted, OnlyTheRing
    <2>2. sink_count > 0 /\ pass["main"].at # "replaying"
      BY <1>1, <1>4, <1>5, <2>1 DEF OnlyTheRing
    <2> QED
      BY <1>1, <1>4, <2>2 DEF CallInv, AllAccounted, Waiting, Taken
  <1> QED
    BY <1>4, <1>6, <1>7, <1>8 DEF CallInv

(* The replay gives the first sink what the ring still holds; the rest     *)
(* has been evicted, and no sink has taken anything.                       *)
LEMMA CallReplay ==
  ASSUME HubInv, CallInv, ReplayHistory
  PROVE  CallInv'
  <1>1. /\ "main" \in Contexts /\ pass["main"].at = "replaying" /\ OthersIdle("main")
        /\ pass' = [pass EXCEPT !["main"] = Idle]
        /\ UNCHANGED <<published, history_count, sink_count, got, evicted>>
    BY OthersAreIdle DEF ReplayHistory, Contexts, ring
  <1>2. /\ pending_count = 0 /\ 1..published - history_count \subseteq evicted
        /\ \A s \in AllSinks : got[s] = <<>>
    BY <1>1 DEF CallInv, BeforeTheReplay, OnlyTheRing
  <1>3. /\ pending_count' = history_count
        /\ \A i \in 0..history_count - 1 :
             Number(pending_records', i) = published - history_count + 1 + i
             /\ pending_records'[i].delivered = {}
        /\ InOrder(pending_records', pending_count', published)
    BY <1>2, ReplayInOrder DEF ReplayHistory
  <1>4. /\ Alone' /\ QueueingTheLatest' /\ OffersWhatWaits'
        /\ Entered = published /\ Entered' = published
        /\ \A i, s : ~BeingTaken(i, s)'
        /\ pass'["main"].at # "replaying"
    BY <1>1, IdleInRange, OneCall
  <1>5. \A s \in AllSinks : Taken(s)' = {} /\ Taken(s) = {}
    BY <1>1, <1>2 DEF Taken
  <1>6. MarksAreExact' /\ TakenHaveEntered' /\ NeverTwice'
    BY <1>1, <1>2, <1>3, <1>4, <1>5 DEF MarksAreExact, TakenHaveEntered, NeverTwice
  <1>7. BeforeTheReplay'
    <2>1. sink_count > 0
      BY <1>1 DEF HubInv, PassesInRange, InRange
    <2> QED
      BY <1>1, <1>4, <2>1 DEF BeforeTheReplay, OnlyTheRing
  <1>8. AllAccounted'
    <2>1. published \in Nat /\ history_count \in Nat /\ history_count <= published
      BY HubAssumption DEF HubInv, TypeOK, RingHoldsTheLatest
    <2>2. ASSUME NEW m \in 1..published PROVE m \in Waiting' \union evicted'
      <3>1. CASE m <= published - history_count
        BY <1>1, <1>2, <2>1, <3>1
      <3>2. CASE m > published - history_count
        <4> DEFINE i == m - (published - history_count) - 1
        <4>1. i \in 0..history_count - 1 /\ published - history_count + 1 + i = m
          BY <2>1, <3>2
        <4> HIDE DEF i
        <4>2. m = Number(pending_records', i)
          BY <1>3, <4>1
        <4> QED
          BY <1>3, <4>1, <4>2 DEF Waiting, Number
      <3> QED
        BY <2>1, <3>1, <3>2
    <2> QED
      BY <1>4, <2>2 DEF AllAccounted
  <1> QED
    BY <1>3, <1>4, <1>6, <1>7, <1>8 DEF CallInv

LEMMA CallFlush ==
  ASSUME HubInv, CallInv, Flush
  PROVE  CallInv'
  <1>1. /\ "main" \in Contexts /\ OthersIdle("main") /\ pass["main"].at = "idle"
        /\ pass' = [pass EXCEPT !["main"] = Flushing(TRUE, TRUE)]
        /\ UNCHANGED <<published, ring, queue, sink_count, got, evicted>>
    BY OthersAreIdle DEF Flush, Contexts
  <1>2. Flushing(TRUE, TRUE).at = "record"
    BY FlushingInRange
  <1> QED
    BY <1>1, <1>2, CallQuiet DEF Taking

LEMMA CallNextRecord ==
  ASSUME HubInv, CallInv, NEW c \in Contexts, NextRecord(c)
  PROVE  CallInv'
  <1> DEFINE p == pass[c]
             call == IF p.record_index >= pending_count
                     THEN IF p.normal_next THEN Flushing(FALSE, FALSE) ELSE Idle
                     ELSE IF Offered(p) THEN [p EXCEPT !.at = "sink", !.sink_index = 0]
                          ELSE [p EXCEPT !.record_index = Behind(@)]
  <1>1. /\ p.at = "record" /\ OthersIdle(c)
        /\ pass' = [pass EXCEPT ![c] = call]
        /\ UNCHANGED <<published, ring, queue, sink_count, got, evicted>>
    BY OthersAreIdle DEF NextRecord
  <1>2. call.at \in {"record", "idle"} \/ (call.at = "sink" /\ call.record_index < pending_count)
    <2>1. CASE p.record_index >= pending_count
      BY <2>1, FlushingInRange, IdleInRange
    <2>2. CASE ~(p.record_index >= pending_count)
      <3>1. p \in PassType /\ p.record_index < pending_count
        BY <2>2, InRanges
      <3> QED
        BY <1>1, <2>2, <3>1 DEF PassType
    <2> QED
      BY <2>1, <2>2
  <1> HIDE DEF call
  <1> QED
    BY <1>1, <1>2, CallQuiet DEF Taking

(* What a sink takes is one more record at the end of what it has.         *)
LEMMA TakenAppend ==
  ASSUME NEW s \in Seq(Nat), NEW t, NEW n \in Nat, t = Append(s, n)
  PROVE  /\ {t[i] : i \in DOMAIN t} = {s[i] : i \in DOMAIN s} \union {n}
         /\ n \notin {s[i] : i \in DOMAIN s} =>
              ((\A i, j \in DOMAIN s : s[i] = s[j] => i = j) =>
                 (\A i, j \in DOMAIN t : t[i] = t[j] => i = j))
  <1>1. /\ DOMAIN s = 1..Len(s) /\ Len(s) \in Nat /\ DOMAIN t = 1..Len(s) + 1
        /\ \A i \in 1..Len(s) : t[i] = s[i]
        /\ t[Len(s) + 1] = n
    OBVIOUS
  <1>2. \A i \in 1..Len(s) + 1 : i \in 1..Len(s) \/ i = Len(s) + 1
    BY <1>1
  <1>3. \A i \in 1..Len(s) : i \in 1..Len(s) + 1
    BY <1>1
  <1>4. Len(s) + 1 \in 1..Len(s) + 1
    BY <1>1
  <1>5. {t[i] : i \in DOMAIN t} = {s[i] : i \in DOMAIN s} \union {n}
    BY <1>1, <1>2, <1>3, <1>4
  <1>6. ASSUME n \notin {s[i] : i \in DOMAIN s}, \A i, j \in DOMAIN s : s[i] = s[j] => i = j,
               NEW i \in DOMAIN t, NEW j \in DOMAIN t, t[i] = t[j]
        PROVE  i = j
    <2>1. CASE i \in 1..Len(s) /\ j \in 1..Len(s)
      BY <1>1, <1>6, <2>1
    <2>2. CASE i = Len(s) + 1 /\ j \in 1..Len(s)
      BY <1>1, <1>6, <2>2
    <2>3. CASE j = Len(s) + 1 /\ i \in 1..Len(s)
      BY <1>1, <1>6, <2>3
    <2> QED
      BY <1>1, <1>2, <2>1, <2>2, <2>3
  <1> QED
    BY <1>5, <1>6

(* A sink is called for a record it has not taken; a record is removed     *)
(* when the marks, which are true, name every sink.                        *)
LEMMA CallNextSink ==
  ASSUME HubInv, CallInv, NEW c \in Contexts, NextSink(c)
  PROVE  CallInv'
  <1> DEFINE p == pass[c]
             k == p.record_index
  <1>1. /\ p.at = "sink" /\ OthersIdle(c)
        /\ Skips(c) \/ Calls(c) \/ Removes(c) \/ Leaves(c)
        /\ UNCHANGED <<published, ring, sink_count, evicted>>
    BY NextSinkCases, OthersAreIdle
  <1>2. /\ p \in PassType /\ k \in 0..pending_count - 1 /\ k \in Places /\ p.sink_index \in Nat
        /\ pending_count \in Nat /\ k < pending_count
    BY <1>1, InRanges DEF CallInv, OffersWhatWaits
  <1>3. ~Taking(c)
    BY <1>1 DEF Taking
  <1>4. CASE Skips(c)
    <2> DEFINE call == [p EXCEPT !.sink_index = p.sink_index + 1]
    <2>1. pass' = [pass EXCEPT ![c] = call] /\ UNCHANGED <<queue, got>>
      BY <1>4, InRanges DEF Skips
    <2>2. call.at = "sink" /\ call.record_index = k
      BY <1>1, <1>2 DEF PassType
    <2> HIDE DEF call
    <2> QED
      BY <1>1, <1>2, <1>3, <2>1, <2>2, CallQuiet
  <1>5. CASE Leaves(c)
    <2> DEFINE call == [p EXCEPT !.at = "record", !.record_index = p.record_index + 1]
    <2>1. pass' = [pass EXCEPT ![c] = call] /\ UNCHANGED <<queue, got>>
      BY <1>5, InRanges DEF Leaves
    <2>2. call.at = "record"
      BY <1>2 DEF PassType
    <2> HIDE DEF call
    <2> QED
      BY <1>1, <1>3, <2>1, <2>2, CallQuiet
  <1>6. CASE Removes(c)
    <2> DEFINE call == [p EXCEPT !.at = "record"]
    <2>1. /\ pass' = [pass EXCEPT ![c] = call]
          /\ pending_records[k].delivered = p.target
          /\ pending_records' = RemovePending(pending_records, pending_count, k)
          /\ pending_count' = pending_count - 1 /\ got' = got
      BY <1>2, <1>6, InRanges DEF Removes
    <2>11. call.at = "record"
      BY <1>2 DEF PassType
    <2> HIDE DEF call
    <2>2. /\ Alone' /\ QueueingTheLatest' /\ OffersWhatWaits'
          /\ Entered = published /\ Entered' = published
          /\ \A i, s : ~BeingTaken(i, s) /\ ~BeingTaken(i, s)'
          /\ pass["main"].at # "replaying" /\ pass'["main"].at # "replaying"
      BY <1>1, <1>3, <2>1, <2>11, OneCall
    <2>3. pending_count \in 1..pending_capacity /\ k \in 0..pending_count - 1
          /\ pending_records \in [Places -> Place] /\ published \in Nat
      BY <1>2, InRanges, HubAssumption DEF HubInv, TypeOK
    <2>4. \A i \in 0..pending_count - 2 :
            \E j \in 0..pending_count - 1 : pending_records'[i] = pending_records[j]
      <3> TAKE i \in 0..pending_count - 2
      <3>1. (IF i < k THEN i ELSE i + 1) \in 0..pending_count - 1
        BY <1>2
      <3>2. pending_records'[i] = pending_records[IF i < k THEN i ELSE i + 1]
        BY <2>1, <2>3, RemoveOne
      <3> QED
        BY <3>1, <3>2
    <2>5. \A j \in 0..pending_count - 1 : j # k =>
            \E i \in 0..pending_count - 2 : pending_records'[i] = pending_records[j]
      BY <2>1, <2>3, RemoveOne
    <2>6. pending_count' - 1 = pending_count - 2
      BY <1>2, <2>1
    <2>7. \A s \in AllSinks \union {0} : Taken(s)' = Taken(s)
      BY <2>1 DEF Taken
    <2>8. MarksAreExact'
      <3>1. SUFFICES ASSUME NEW i \in 0..pending_count - 2, NEW s \in AllSinks
                     PROVE  Number(pending_records', i) \in Taken(s)
                              <=> s \in pending_records'[i].delivered
        BY <2>2, <2>6, <2>7 DEF MarksAreExact
      <3>2. PICK j \in 0..pending_count - 1 : pending_records'[i] = pending_records[j]
        BY <2>4
      <3>3. Number(pending_records, j) \in Taken(s) <=> s \in pending_records[j].delivered
        BY <2>2 DEF CallInv, MarksAreExact
      <3> QED
        BY <3>2, <3>3 DEF Number
    <2>9. AllAccounted'
      <3>1. SUFFICES ASSUME sink_count > 0
                     PROVE  1..published \subseteq Waiting' \union Taken(0) \union evicted
        BY <1>1, <2>2, <2>7 DEF AllAccounted
      <3>2. 1..published \subseteq Waiting \union Taken(0) \union evicted
        BY <2>2, <3>1 DEF CallInv, AllAccounted
      <3>3. Number(pending_records, k) \in Taken(0)
        <4>1. 0 \in p.target /\ 0 \in AllSinks
          <5>1. p.target = 0..sink_count - 1
            BY <1>1 DEF HubInv, PassesInRange, InRange, Contexts
          <5>2. sink_count \in 0..max_sinks /\ max_sinks \in Nat
            BY HubAssumption DEF HubInv, TypeOK
          <5> QED
            BY <3>1, <5>1, <5>2 DEF AllSinks
        <4> QED
          BY <1>2, <2>1, <4>1 DEF CallInv, MarksAreExact
      <3>4. ASSUME NEW m \in Waiting PROVE m \in Waiting' \union Taken(0)
        <4>1. PICK j \in 0..pending_count - 1 : m = Number(pending_records, j)
          BY DEF Waiting, Number
        <4>2. CASE j = k
          BY <3>3, <4>1, <4>2
        <4>3. CASE j # k
          <5>1. PICK i \in 0..pending_count - 2 : pending_records'[i] = pending_records[j]
            BY <2>5, <4>3
          <5> QED
            BY <2>6, <4>1, <5>1 DEF Waiting, Number
        <4> QED
          BY <4>2, <4>3
      <3> QED
        BY <3>2, <3>4
    <2>10. TakenHaveEntered' /\ NeverTwice'
      BY <2>1, <2>2, <2>7 DEF CallInv, TakenHaveEntered, NeverTwice
    <2>12. BeforeTheReplay'
      BY <1>1, <1>2, <2>2 DEF CallInv, BeforeTheReplay, OnlyTheRing
    <2>13. InOrder(pending_records', pending_count', Entered')
      BY <2>1, <2>2, <2>3, RemoveKeepsOrder DEF CallInv
    <2> QED
      BY <2>2, <2>8, <2>9, <2>10, <2>12, <2>13 DEF CallInv
  <1>7. CASE Calls(c)
    <2> DEFINE takes == p.sink_index \in accepting
               call == [p EXCEPT !.at = "published", !.accepted = takes]
    <2>1. /\ p.sink_index < sink_count
          /\ p.sink_index \notin pending_records[k].delivered
          /\ pass' = [pass EXCEPT ![c] = call]
          /\ got' = IF takes THEN [got EXCEPT ![p.sink_index] = Append(@, Number(pending_records, k))]
                     ELSE got
          /\ pending_records' = pending_records /\ pending_count' = pending_count
      BY <1>7, InRanges DEF Calls, queue, Number
    <2>2. PICK s \in AllSinks : s = p.sink_index /\ sink_count # 0
      BY <1>2, <2>1, HubAssumption DEF HubInv, TypeOK, AllSinks
    <2>5. /\ call.at = "published" /\ call.record_index = k /\ call.sink_index = s
          /\ call.accepted = takes
      <3> HIDE DEF takes
      <3> QED
        BY <1>2, <2>2 DEF PassType
    <2> HIDE DEF call
    <2>6. /\ Alone' /\ QueueingTheLatest' /\ OffersWhatWaits'
          /\ Entered = published /\ Entered' = published
          /\ \A i, t : ~BeingTaken(i, t)
          /\ pass["main"].at # "replaying" /\ pass'["main"].at # "replaying"
      BY <1>1, <1>2, <1>3, <2>1, <2>5, OneCall
    <2>3. PICK n \in Nat : n = Number(pending_records, k) /\ n \in 1..published
      BY <1>2, <2>6, InRanges DEF CallInv, InOrder
    <2>4. n \notin Taken(s)
      BY <1>2, <2>1, <2>2, <2>3, <2>6 DEF CallInv, MarksAreExact
    <2>7. CASE ~takes
      <3>1. got' = got /\ UNCHANGED queue
        BY <2>1, <2>7 DEF queue
      <3> QED
        BY <1>1, <1>2, <1>3, <2>1, <2>5, <2>7, <3>1, CallQuiet
    <2>8. CASE takes
      <3>1. \A i, t : BeingTaken(i, t)' <=> i = k /\ t = s
        <4>1. call.accepted = TRUE
          BY <2>5, <2>8
        <4>2. pass' = [pass EXCEPT ![c] = call]
          BY <2>1
        <4>3. \A i, t : BeingTaken(i, t)' <=>
                 /\ call.at = "published" /\ call.accepted = TRUE
                 /\ call.record_index = i /\ call.sink_index = t
          BY <1>1, <4>2, OneCall
        <4> QED
          BY <2>5, <4>1, <4>3
      <3>2. /\ got' = [got EXCEPT ![s] = Append(got[s], n)] /\ got \in [AllSinks -> Seq(Nat)]
        BY <2>1, <2>2, <2>3, <2>8, InRanges
      <3>3. /\ got'[s] = Append(got[s], n) /\ got[s] \in Seq(Nat)
            /\ \A t \in AllSinks : t # s => got'[t] = got[t]
        BY <2>2, <3>2
      <3>4. /\ Taken(s)' = Taken(s) \union {n}
            /\ \A t \in AllSinks : t # s => Taken(t)' = Taken(t)
        <4>1. {got'[s][i] : i \in DOMAIN got'[s]} = {got[s][i] : i \in DOMAIN got[s]} \union {n}
          BY <3>3, TakenAppend
        <4>2. \A t \in AllSinks : t # s => Taken(t)' = Taken(t)
          BY <3>3 DEF Taken
        <4> QED
          BY <4>1, <4>2 DEF Taken
      <3>5. \A i \in 0..pending_count - 1 : i # k => Number(pending_records, i) # n
        <4> SUFFICES ASSUME NEW i \in 0..pending_count - 1, i # k
                     PROVE  Number(pending_records, i) # n
          OBVIOUS
        <4>1. i < k \/ k < i
          BY <1>2
        <4>2. /\ i < k => Number(pending_records, i) < Number(pending_records, k)
              /\ k < i => Number(pending_records, k) < Number(pending_records, i)
          BY <1>2 DEF CallInv, InOrder
        <4> QED
          BY <2>3, <4>1, <4>2
      <3>6. MarksAreExact'
        <4>1. SUFFICES ASSUME NEW i \in 0..pending_count - 1, NEW t \in AllSinks
                       PROVE  Number(pending_records, i) \in Taken(t)'
                                <=> t \in pending_records[i].delivered \/ (i = k /\ t = s)
          BY <2>1, <3>1 DEF MarksAreExact, Number
        <4>2. Number(pending_records, i) \in Taken(t) <=> t \in pending_records[i].delivered
          BY <2>6 DEF CallInv, MarksAreExact
        <4>3. CASE i = k /\ t = s
          BY <2>3, <3>4, <4>3
        <4>4. CASE i # k /\ t = s
          BY <3>4, <3>5, <4>2, <4>4
        <4>5. CASE t # s
          BY <3>4, <4>2, <4>5
        <4> QED
          BY <4>3, <4>4, <4>5
      <3>7. TakenHaveEntered'
        BY <2>2, <2>3, <2>6, <3>4 DEF CallInv, TakenHaveEntered
      <3>8. NeverTwice'
        <4>1. SUFFICES ASSUME NEW t \in AllSinks
                       PROVE  \A i, j \in DOMAIN got'[t] : got'[t][i] = got'[t][j] => i = j
          BY DEF NeverTwice
        <4>2. \A i, j \in DOMAIN got[t] : got[t][i] = got[t][j] => i = j
          BY DEF CallInv, NeverTwice
        <4>3. CASE t = s
          BY <2>3, <2>4, <3>3, <4>2, <4>3, TakenAppend DEF Taken
        <4>4. CASE t # s
          BY <3>3, <4>2, <4>4
        <4> QED
          BY <4>3, <4>4
      <3>9. AllAccounted'
        <4>1. Taken(0) \subseteq Taken(0)'
          <5>1. 0 \in AllSinks
            BY <2>2, HubAssumption DEF HubInv, TypeOK, AllSinks
          <5> QED
            BY <3>4, <5>1
        <4>2. Waiting' = Waiting
          BY <2>1 DEF Waiting
        <4> QED
          BY <1>1, <2>6, <4>1, <4>2 DEF CallInv, AllAccounted
      <3>10. BeforeTheReplay'
        BY <1>1, <2>2, <2>6 DEF BeforeTheReplay, OnlyTheRing
      <3>11. InOrder(pending_records', pending_count', Entered')
        BY <2>1, <2>6 DEF CallInv
      <3> QED
        BY <2>6, <3>6, <3>7, <3>8, <3>9, <3>10, <3>11 DEF CallInv
    <2> QED
      BY <2>7, <2>8
  <1> QED
    BY <1>1, <1>4, <1>5, <1>6, <1>7

(* What the sink took is noted at the place it was taken from: the record  *)
(* has not moved meanwhile.                                                *)
LEMMA CallSinkReturns ==
  ASSUME HubInv, CallInv, NEW c \in Contexts, SinkReturns(c)
  PROVE  CallInv'
  <1> DEFINE p == pass[c]
             k == p.record_index
             returned == [p EXCEPT !.at = "sink", !.sink_index = @ + 1]
  <1>1. /\ p.at = "published" /\ OthersIdle(c)
        /\ UNCHANGED <<published, ring, sink_count, got, evicted>>
    BY OthersAreIdle DEF SinkReturns
  <1>2. /\ p \in PassType /\ k \in 0..pending_count - 1 /\ k \in Places
        /\ pending_count \in Nat /\ k < pending_count
    BY <1>1, InRanges DEF CallInv, OffersWhatWaits
  <1>3. p.sink_index \in AllSinks
    BY <1>1, InRanges, HubAssumption DEF HubInv, TypeOK, PassesInRange, InRange, AllSinks
  <1>6. returned \in PassType /\ returned.at = "sink" /\ returned.record_index = k
    <2>1. p.sink_index + 1 \in Nat
      BY <1>3, HubAssumption DEF AllSinks
    <2> QED
      BY <1>2, <2>1 DEF PassType
  <1>4. CASE ~p.accepted
    <2>1. /\ pass' = [pass EXCEPT ![c] = returned] /\ UNCHANGED queue
      BY <1>4 DEF SinkReturns, Succeeded
    <2> HIDE DEF returned
    <2> QED
      BY <1>1, <1>2, <1>4, <1>6, <2>1, CallQuiet DEF Taking
  <1>5. CASE p.accepted
    <2> DEFINE call == [returned EXCEPT !.open = p.at_zero]
    <2>1. pass' = [pass EXCEPT ![c] = call]
      <3>1. ~(c = "isr" /\ pass["main"].at # "idle")
        BY <1>1 DEF OthersIdle, Contexts
      <3> QED
        BY <1>5, <3>1 DEF SinkReturns, Succeeded
    <2> HIDE DEF returned
    <2>2. call.at = "sink" /\ call.record_index = k
      BY <1>6 DEF PassType
    <2> HIDE DEF call
    <2>3. /\ pending_records' = Mark(pending_records, k, p.sink_index)
          /\ pending_count' = pending_count
      BY <1>5 DEF SinkReturns, Succeeded, Mark
    <2>4. /\ Alone' /\ QueueingTheLatest' /\ OffersWhatWaits'
          /\ Entered = published /\ Entered' = published
          /\ \A i, s : ~BeingTaken(i, s)'
          /\ pass["main"].at # "replaying" /\ pass'["main"].at # "replaying"
      BY <1>1, <1>2, <2>1, <2>2, <2>3, OneCall
    <2>5. \A i \in Places :
            /\ Number(pending_records', i) = Number(pending_records, i)
            /\ pending_records'[i].delivered =
                 IF i = k THEN pending_records[i].delivered \union {p.sink_index}
                 ELSE pending_records[i].delivered
      <3> DEFINE marked == Mark(pending_records, k, p.sink_index)
      <3>1. pending_records \in [Places -> Place]
        BY InRanges
      <3>2. /\ \A i \in Places : Number(marked, i) = Number(pending_records, i)
            /\ \A i \in Places :
                 marked[i].delivered =
                   IF i = k THEN pending_records[i].delivered \union {p.sink_index}
                   ELSE pending_records[i].delivered
        BY <1>2, <1>3, <3>1, MarkPlace
      <3> HIDE DEF marked
      <3>3. pending_records' = marked
        BY <2>3 DEF marked
      <3> QED
        BY <3>2, <3>3 DEF Number
    <2>6. \A s \in AllSinks \union {0} : Taken(s)' = Taken(s)
      BY <1>1 DEF Taken
    <2>7. p.accepted = TRUE
      BY <1>2, <1>5 DEF PassType
    <2>8. \A i, s : BeingTaken(i, s) <=> i = k /\ s = p.sink_index
      BY <1>1, <2>1, <2>7, OneCall DEF Taking
    <2>9. MarksAreExact'
      <3>1. SUFFICES ASSUME NEW i \in 0..pending_count - 1, NEW s \in AllSinks
                     PROVE  Number(pending_records', i) \in Taken(s)
                              <=> s \in pending_records'[i].delivered
        BY <2>3, <2>4, <2>6 DEF MarksAreExact
      <3>2. i \in Places
        BY InRanges
      <3>3. Number(pending_records, i) \in Taken(s)
              <=> s \in pending_records[i].delivered \/ (i = k /\ s = p.sink_index)
        BY <2>8 DEF CallInv, MarksAreExact
      <3> QED
        BY <2>5, <3>2, <3>3
    <2>10. TakenHaveEntered' /\ NeverTwice'
      BY <1>1, <2>4, <2>6 DEF CallInv, TakenHaveEntered, NeverTwice
    <2>14. \A i \in 0..pending_count - 1 : Number(pending_records', i) = Number(pending_records, i)
      BY <2>5, InRanges
    <2>11. AllAccounted'
      <3>1. Waiting' = Waiting
        BY <2>3, <2>14 DEF Waiting, Number
      <3> QED
        BY <1>1, <2>4, <2>6, <3>1 DEF CallInv, AllAccounted
    <2>12. BeforeTheReplay'
      BY <1>1, <1>2, <2>3, <2>4 DEF CallInv, BeforeTheReplay, OnlyTheRing
    <2>13. InOrder(pending_records', pending_count', Entered')
      BY <2>3, <2>4, <2>14 DEF CallInv, InOrder
    <2> QED
      BY <2>4, <2>9, <2>10, <2>11, <2>12, <2>13 DEF CallInv
  <1> QED
    BY <1>4, <1>5

LEMMA CallEnvironment ==
  ASSUME HubInv, CallInv, Environment \/ UNCHANGED vars
  PROVE  CallInv'
  <1>1. UNCHANGED <<published, history_count, pending_records, pending_count, sink_count, pass,
                    got, evicted>>
    BY DEF Environment, StartTicking, TimerToggles, Elapse, Toggle, vars, queue, ring
  <1> QED
    BY <1>1 DEF CallInv, Alone, QueueingTheLatest, OffersWhatWaits, InOrder, BeforeTheReplay,
                OnlyTheRing, MarksAreExact, BeingTaken, Taking, Taken, Number, Entered,
                TakenHaveEntered, NeverTwice, AllAccounted, Waiting

(* A handler that publishes while the main context is in a call is the one *)
(* that ends it: every other step is taken alone.                          *)
LEMMA CallNext ==
  ASSUME HubInv, CallInv, [Next]_vars, ~interrupted'
  PROVE  CallInv'
  <1>1. ASSUME NEW c \in Contexts, Run(c) PROVE CallInv'
    BY <1>1, CallEnqueue, CallNextRecord, CallNextSink, CallSinkReturns DEF Run
  <1>2. ASSUME NEW c \in Contexts, NEW p \in DiagnosticPriority, Publish(c, p) PROVE CallInv'
    <2>1. OthersIdle(c)
      BY <1>2, OthersAreIdle DEF Publish, OthersIdle, Contexts
    <2> QED
      BY <1>2, <2>1, CallPublish
  <1> QED
    BY <1>1, <1>2, CallEmplace, CallReplay, CallFlush, CallEnvironment DEF Next

LEMMA OnceInterrupted ==
  ASSUME HubInv, [Next]_vars
  PROVE  interrupted => interrupted'
  BY DEF Next, Run, Publish, Enqueue, NextRecord, NextSink, SinkReturns, EmplaceSink, ReplayHistory,
         Flush, Environment, StartTicking, TimerToggles, Elapse, Toggle, vars

LEMMA CallInvariant == Spec => [](~interrupted => CallInv)
  <1>1. HubInv /\ (~interrupted => CallInv) /\ [Next]_vars => (~interrupted => CallInv)'
    BY CallNext, OnceInterrupted
  <1>2. Init => (~interrupted => CallInv)
    BY CallInit
  <1> QED
    BY <1>1, <1>2, HubInvariant, PTL DEF Spec

(* Until a handler publishes in the middle of a call of the main context   *)
(* (MDMA.cpp:250 does), the queue is in order and a place names no sink    *)
(* that has not taken its record: no sink is passed over, whichever sinks  *)
(* refuse and whatever is evicted or removed around it.                    *)
THEOREM QueueIsSoundBetweenCalls == Spec => []QueueIsSound
  <1>1. HubInv /\ (~interrupted => CallInv) => QueueIsSound
    <2>1. HubInv => TypeOK
      BY DEF HubInv
    <2>2. CallInv => QueueInOrder
      BY DEF CallInv, InOrder, Number, QueueInOrder
    <2>3. ASSUME HubInv, CallInv, NEW i \in 0..pending_count - 1,
                 NEW s \in pending_records[i].delivered
          PROVE  Number(pending_records, i) \in Taken(s)
      <3>1. s \in AllSinks
        BY <2>3, InRanges DEF Place
      <3> QED
        BY <2>3, <3>1 DEF CallInv, MarksAreExact
    <2>4. HubInv /\ CallInv => MarksAreTrue
      BY <2>3 DEF MarksAreTrue, Number
    <2> QED
      BY <2>1, <2>2, <2>4 DEF QueueIsSound
  <1> QED
    BY <1>1, HubInvariant, CallInvariant, PTL

(* ... no sink takes a record twice, also when another one refuses it and  *)
(* it is offered again ...                                                 *)
THEOREM NoSinkTakesTwice == Spec => []TakenOnce
  <1>1. (~interrupted => CallInv) => TakenOnce
    BY DEF CallInv, TakenOnce
  <1> QED
    BY <1>1, CallInvariant, PTL

(* ... and every record published, before or after the first sink, waits,  *)
(* has been taken by the first sink, or was evicted to make room.          *)
THEOREM NoRecordIsLost == Spec => []NothingLost
  <1>1. (~interrupted => CallInv) => NothingLost
    BY DEF CallInv, NothingLost
  <1> QED
    BY <1>1, CallInvariant, PTL
=============================================================================
