----------------------------- MODULE BoardProofs -----------------------------
(***************************************************************************)
(* What holds of every board, whatever devices the pools hold and however  *)
(* many it takes.  A device only adds to the lists of the context, at      *)
(* their ends and under its own name: what the devices before it were      *)
(* given stays theirs.  The rest is about the constant expressions that    *)
(* make configurations and instances of the lists.                         *)
(***************************************************************************)
EXTENDS Board, FiniteSetTheorems, SequenceTheorems, WellFoundedInduction, TLAPS

-----------------------------------------------------------------------------
(* Ranks count from 0, one for each place.                                 *)
LEMMA RanksCount ==
  ASSUME NEW n \in Nat, NEW S \in SUBSET (1 .. n)
  PROVE  /\ IsFiniteSet(S) /\ Cardinality(S) \in Nat
         /\ \A i \in S : Rank(S, i) \in 0 .. Cardinality(S) - 1
         /\ \A i, j \in S : i < j => Rank(S, i) < Rank(S, j)
         /\ \A k \in 0 .. Cardinality(S) - 1 : \E i \in S : Rank(S, i) = k
  <1> DEFINE Below(i) == {j \in S : j < i}
             c == Cardinality(S)
             f == [i \in S |-> Rank(S, i)]
  <1>1. IsFiniteSet(S) /\ c \in Nat
    <2>1. IsFiniteSet(1 .. n)
      BY FS_Interval
    <2> QED
      BY <2>1, FS_Subset, FS_CardinalityType
  <1>2. \A i \in S : IsFiniteSet(Below(i)) /\ Cardinality(Below(i)) \in Nat
                     /\ Cardinality(Below(i)) < c
    <2> TAKE i \in S
    <2>1. IsFiniteSet(Below(i)) /\ Cardinality(Below(i)) \in Nat
          /\ Cardinality(Below(i)) <= c /\ (c = Cardinality(Below(i)) => S = Below(i))
      BY <1>1, Below(i) \in SUBSET S, FS_Subset, FS_CardinalityType
    <2>2. S # Below(i)
      OBVIOUS
    <2> QED
      BY <1>1, <2>1, <2>2
  <1>3. \A i, j \in S : i < j => Rank(S, i) < Rank(S, j)
    <2> SUFFICES ASSUME NEW i \in S, NEW j \in S, i < j PROVE Rank(S, i) < Rank(S, j)
      OBVIOUS
    <2>1. \A k \in S : k \in Nat
      OBVIOUS
    <2>2. i \in Below(j) /\ i \notin Below(i)
      <3>1. i \in Nat
        BY <2>1
      <3>2. ~(i < i)
        BY <3>1
      <3> QED
        BY <3>2
    <2>3. Below(i) \subseteq Below(j)
      <3> SUFFICES ASSUME NEW k \in S, k < i PROVE k < j
        OBVIOUS
      <3>1. k \in Nat /\ i \in Nat /\ j \in Nat
        BY <2>1
      <3> QED
        BY <3>1
    <2>4. /\ Cardinality(Below(i)) <= Cardinality(Below(j))
          /\ Cardinality(Below(j)) = Cardinality(Below(i)) => Below(i) = Below(j)
      BY <1>2, <2>3, FS_Subset
    <2>5. Cardinality(Below(j)) # Cardinality(Below(i))
      BY <2>2, <2>4
    <2> QED
      BY <1>2, <2>4, <2>5 DEF Rank
  <1>4. \A i \in S : Rank(S, i) \in 0 .. c - 1
    BY <1>1, <1>2 DEF Rank
  <1>5. f \in Injection(S, 0 .. c - 1)
    <2>1. \A i, j \in S : f[i] = f[j] => i = j
      <3> SUFFICES ASSUME NEW i \in S, NEW j \in S, f[i] = f[j], i # j PROVE FALSE
        OBVIOUS
      <3>1. i < j \/ j < i
        OBVIOUS
      <3> QED
        BY <1>1, <1>3, <1>4, <3>1
    <2> QED
      BY <1>4, <2>1 DEF Injection, IsInjective
  <1>6. IsFiniteSet(0 .. c - 1) /\ Cardinality(0 .. c - 1) = c
    BY <1>1, FS_Interval, SMTT(30)
  <1>7. f \in Surjection(S, 0 .. c - 1)
    BY <1>5, <1>6, FS_Injection
  <1>8. \A k \in 0 .. c - 1 : \E i \in S : Rank(S, i) = k
    BY <1>7 DEF Surjection
  <1> QED
    BY <1>1, <1>3, <1>4, <1>8

PickedAt(s, S, k) == \E i \in S : Rank(S, i) = k - 1 /\ Pick(s, S)[k] = s[i]

(* Every element at one of the places has its own in what is picked.        *)
LEMMA PickTakesEach ==
  ASSUME NEW n \in Nat, NEW S \in SUBSET (1 .. n), NEW s
  PROVE  /\ DOMAIN Pick(s, S) = 1 .. Cardinality(S) /\ Cardinality(S) \in Nat
         /\ Len(Pick(s, S)) = Cardinality(S)
         /\ \A i \in S : Rank(S, i) + 1 \in 1 .. Cardinality(S)
                         /\ Pick(s, S)[Rank(S, i) + 1] = s[i]
         /\ \A k \in 1 .. Cardinality(S) : PickedAt(s, S, k)
  <1>1. Cardinality(S) \in Nat
    BY RanksCount
  <1>2. DOMAIN Pick(s, S) = 1 .. Cardinality(S)
    BY DEF Pick
  <1>3. Len(Pick(s, S)) = Cardinality(S)
    BY <1>1, <1>2
  <1>4. \A k \in 1 .. Cardinality(S) :
           \E i \in S : Rank(S, i) = k - 1 /\ Pick(s, S)[k] = s[i]
    <2> TAKE k \in 1 .. Cardinality(S)
    <2>1. k - 1 \in 0 .. Cardinality(S) - 1
      BY <1>1
    <2>2. \E i \in S : Rank(S, i) = k - 1
      BY <2>1, RanksCount
    <2> QED
      BY <2>2 DEF Pick
  <1>5. \A i \in S : Rank(S, i) + 1 \in 1 .. Cardinality(S)
                     /\ Pick(s, S)[Rank(S, i) + 1] = s[i]
    <2> TAKE i \in S
    <2>1. Rank(S, i) \in 0 .. Cardinality(S) - 1
      BY RanksCount
    <2>2. Rank(S, i) + 1 \in 1 .. Cardinality(S)
      BY <1>1, <2>1
    <2>3. PICK j \in S : Rank(S, j) = (Rank(S, i) + 1) - 1 /\ Pick(s, S)[Rank(S, i) + 1] = s[j]
      <3> HIDE DEF Rank
      <3> DEFINE k == Rank(S, i) + 1
      <3>1. k \in 1 .. Cardinality(S)
        BY <2>2
      <3> HIDE DEF k
      <3>2. PICK j \in S : Rank(S, j) = k - 1 /\ Pick(s, S)[k] = s[j]
        BY <1>4, <3>1
      <3> QED
        BY <3>2 DEF k
    <2>4. Rank(S, j) = Rank(S, i)
      BY <2>1, <2>3
    <2>5. j = i
      <3> SUFFICES ASSUME i # j PROVE FALSE
        OBVIOUS
      <3>1. i < j \/ j < i
        OBVIOUS
      <3> QED
        <4>1. Rank(S, i) < Rank(S, j) \/ Rank(S, j) < Rank(S, i)
          BY <3>1, RanksCount
        <4> QED
          BY <1>1, <2>1, <2>4, <4>1
    <2> QED
      BY <2>2, <2>3, <2>5
  <1> QED
    BY <1>1, <1>2, <1>3, <1>4, <1>5 DEF PickedAt

-----------------------------------------------------------------------------
(* A context is a list for every domain.                                   *)
Written(c) == DOMAIN c = Domains /\ \A x \in Domains : IsList(c[x])

(* k is c with n more entries of o in domain d; or with more in any.       *)
Adds(c, k, d, n, o) ==
  /\ Written(k)
  /\ \A x \in Domains \ {d} : k[x] = c[x]
  /\ Len(k[d]) = Len(c[d]) + n
  /\ \A i \in 1 .. Len(c[d]) : k[d][i] = c[d][i]
  /\ \A i \in Len(c[d]) + 1 .. Len(c[d]) + n : k[d][i].owner = o

Grows(c, k, o) ==
  /\ Written(k)
  /\ \A x \in Domains :
        /\ Len(c[x]) <= Len(k[x])
        /\ \A i \in 1 .. Len(c[x]) : k[x][i] = c[x][i]
        /\ \A i \in Len(c[x]) + 1 .. Len(k[x]) : k[x][i].owner = o

LEMMA ListIsAFunction ==
  ASSUME NEW s
  PROVE  IsList(s) <=> Len(s) \in Nat /\ s = [i \in 1 .. Len(s) |-> s[i]]
  <1>1. ASSUME IsList(s) PROVE Len(s) \in Nat /\ s = [i \in 1 .. Len(s) |-> s[i]]
    BY <1>1 DEF IsList
  <1>2. ASSUME Len(s) \in Nat, s = [i \in 1 .. Len(s) |-> s[i]] PROVE IsList(s)
    <2>1. DOMAIN s = 1 .. Len(s)
      BY <1>2
    <2>2. \A i \in 1 .. Len(s) : s[i] \in ToSet(s)
      BY <2>1 DEF ToSet
    <2> QED
      BY <1>2, <2>2 DEF IsList
  <1> QED
    BY <1>1, <1>2

LEMMA ListGrows ==
  ASSUME NEW s, IsList(s), NEW v
  PROVE  /\ IsList(Append(s, v)) /\ Len(Append(s, v)) = Len(s) + 1 /\ Len(s) \in Nat
         /\ \A i \in 1 .. Len(s) : Append(s, v)[i] = s[i]
         /\ Append(s, v)[Len(s) + 1] = v
  <1>1. s \in Seq(ToSet(s) \cup {v})
    BY DEF IsList
  <1>2. /\ Append(s, v) \in Seq(ToSet(s) \cup {v})
        /\ Len(Append(s, v)) = Len(s) + 1 /\ Len(s) \in Nat
        /\ \A i \in 1 .. Len(s) : Append(s, v)[i] = s[i]
        /\ Append(s, v)[Len(s) + 1] = v
    BY <1>1
  <1>3. PICK t : t = Append(s, v)
    OBVIOUS
  <1>4. IsList(t)
    <2>1. t \in Seq(ToSet(s) \cup {v})
      BY <1>2, <1>3
    <2>2. Len(t) \in Nat /\ t = [i \in 1 .. Len(t) |-> t[i]]
      BY <2>1
    <2> QED
      BY <2>2, ListIsAFunction
  <1> QED
    BY <1>2, <1>3, <1>4

LEMMA ListsJoin ==
  ASSUME NEW s, IsList(s), NEW t, IsList(t)
  PROVE  /\ IsList(s \o t) /\ Len(s \o t) = Len(s) + Len(t) /\ Len(s) \in Nat /\ Len(t) \in Nat
         /\ \A i \in 1 .. Len(s) : (s \o t)[i] = s[i]
         /\ \A i \in 1 .. Len(t) : (s \o t)[Len(s) + i] = t[i]
  <1>1. s \in Seq(ToSet(s) \cup ToSet(t)) /\ t \in Seq(ToSet(s) \cup ToSet(t))
    BY DEF IsList
  <1>2. /\ s \o t \in Seq(ToSet(s) \cup ToSet(t))
        /\ Len(s \o t) = Len(s) + Len(t) /\ Len(s) \in Nat /\ Len(t) \in Nat
        /\ \A i \in 1 .. Len(s) : (s \o t)[i] = s[i]
        /\ \A i \in 1 .. Len(t) : (s \o t)[Len(s) + i] = t[i]
    BY <1>1
  <1>3. PICK u : u = s \o t
    OBVIOUS
  <1>4. IsList(u)
    <2>1. u \in Seq(ToSet(s) \cup ToSet(t))
      BY <1>2, <1>3
    <2>2. Len(u) \in Nat /\ u = [i \in 1 .. Len(u) |-> u[i]]
      BY <2>1
    <2> QED
      BY <2>2, ListIsAFunction
  <1> QED
    BY <1>2, <1>3, <1>4

LEMMA AddWrites ==
  ASSUME NEW c, Written(c), NEW d \in Domains, NEW e, NEW o
  PROVE  /\ Adds(c, Add(c, d, e, o), d, 1, o)
         /\ Add(c, d, e, o)[d][Len(c[d]) + 1].e = e
         /\ Len(c[d]) \in Nat
  <1> DEFINE v == [e |-> e, owner |-> o]
  <1>1. Add(c, d, e, o) = [c EXCEPT ![d] = Append(c[d], v)]
    BY DEF Add
  <1> HIDE DEF v
  <1>2. PICK k : k = [c EXCEPT ![d] = Append(c[d], v)]
    OBVIOUS
  <1>3. DOMAIN k = Domains /\ k[d] = Append(c[d], v) /\ \A x \in Domains \ {d} : k[x] = c[x]
    BY <1>2 DEF Written
  <1>4. IsList(c[d])
    BY DEF Written
  <1>5. /\ IsList(k[d]) /\ Len(k[d]) = Len(c[d]) + 1 /\ Len(c[d]) \in Nat
        /\ \A i \in 1 .. Len(c[d]) : k[d][i] = c[d][i]
        /\ k[d][Len(c[d]) + 1] = v
    BY <1>3, <1>4, ListGrows
  <1>6. Written(k)
    BY <1>3, <1>5 DEF Written
  <1>7. \A i \in Len(c[d]) + 1 .. Len(c[d]) + 1 : k[d][i].owner = o
    BY <1>5 DEF v
  <1>8. Adds(c, k, d, 1, o)
    BY <1>3, <1>5, <1>6, <1>7 DEF Adds
  <1> QED
    BY <1>1, <1>2, <1>5, <1>8 DEF v

LEMMA AddAllWrites ==
  ASSUME NEW c, Written(c), NEW d \in Domains, NEW es, IsList(es), NEW o
  PROVE  /\ Adds(c, AddAll(c, d, es, o), d, Len(es), o)
         /\ \A i \in 1 .. Len(es) : AddAll(c, d, es, o)[d][Len(c[d]) + i].e = es[i]
         /\ Len(c[d]) \in Nat /\ Len(es) \in Nat
  <1> DEFINE v == [i \in DOMAIN es |-> [e |-> es[i], owner |-> o]]
  <1>1. AddAll(c, d, es, o) = [c EXCEPT ![d] = c[d] \o v]
    BY DEF AddAll
  <1>2. /\ Len(es) \in Nat /\ DOMAIN v = 1 .. Len(es)
        /\ \A i \in 1 .. Len(es) : v[i].e = es[i] /\ v[i].owner = o
    BY ListIsAFunction
  <1>3. IsList(v) /\ Len(v) = Len(es)
    <2>1. Len(v) = Len(es)
      BY <1>2
    <2>2. v = [i \in 1 .. Len(v) |-> v[i]]
      BY <1>2, <2>1
    <2> QED
      BY <1>2, <2>1, <2>2, ListIsAFunction
  <1> HIDE DEF v
  <1>4. PICK k : k = [c EXCEPT ![d] = c[d] \o v]
    OBVIOUS
  <1>5. DOMAIN k = Domains /\ k[d] = c[d] \o v /\ \A x \in Domains \ {d} : k[x] = c[x]
    BY <1>4 DEF Written
  <1>6. IsList(c[d])
    BY DEF Written
  <1>7. /\ IsList(k[d]) /\ Len(k[d]) = Len(c[d]) + Len(es) /\ Len(c[d]) \in Nat
        /\ \A i \in 1 .. Len(c[d]) : k[d][i] = c[d][i]
        /\ \A i \in 1 .. Len(es) : k[d][Len(c[d]) + i] = v[i]
    <2>1. PICK s, w : s = c[d] /\ w = v
      OBVIOUS
    <2>2. IsList(s) /\ IsList(w)
      BY <1>3, <1>6, <2>1
    <2>3. /\ IsList(s \o w) /\ Len(s \o w) = Len(s) + Len(w) /\ Len(s) \in Nat
          /\ \A i \in 1 .. Len(s) : (s \o w)[i] = s[i]
          /\ \A i \in 1 .. Len(w) : (s \o w)[Len(s) + i] = w[i]
      BY <2>2, ListsJoin
    <2>4. k[d] = s \o w
      BY <1>5, <2>1
    <2> QED
      BY <1>3, <2>1, <2>3, <2>4
  <1>8. Written(k)
    BY <1>5, <1>7 DEF Written
  <1>9. \A i \in Len(c[d]) + 1 .. Len(c[d]) + Len(es) : k[d][i].owner = o
    <2> TAKE i \in Len(c[d]) + 1 .. Len(c[d]) + Len(es)
    <2>1. i - Len(c[d]) \in 1 .. Len(es) /\ Len(c[d]) + (i - Len(c[d])) = i
      BY <1>2, <1>7
    <2> QED
      BY <1>2, <1>7, <2>1
  <1>10. Adds(c, k, d, Len(es), o)
    BY <1>5, <1>7, <1>8, <1>9 DEF Adds
  <1> QED
    BY <1>1, <1>2, <1>4, <1>7, <1>10

(* Growth is what the additions of one device add up to.                   *)
LEMMA GrowsWithEach ==
  /\ \A c, o : Written(c) => Grows(c, c, o)
  /\ \A c, b, k, o : \A d \in Domains : \A n \in Nat :
        Written(c) /\ Grows(c, b, o) /\ Adds(b, k, d, n, o) => Grows(c, k, o)
  <1>0. \A c : Written(c) => \A x \in Domains : Len(c[x]) \in Nat
    BY ListIsAFunction DEF Written
  <1>1. ASSUME NEW c, NEW o, Written(c) PROVE Grows(c, c, o)
    BY <1>0, <1>1 DEF Grows
  <1>2. ASSUME NEW c, NEW b, NEW k, NEW o, NEW d \in Domains, NEW n \in Nat,
               Written(c), Grows(c, b, o), Adds(b, k, d, n, o)
        PROVE  Grows(c, k, o)
    <2>1. Written(b) /\ Written(k)
      BY <1>2 DEF Grows, Adds
    <2>2. ASSUME NEW x \in Domains
          PROVE  /\ Len(c[x]) <= Len(k[x])
                 /\ \A i \in 1 .. Len(c[x]) : k[x][i] = c[x][i]
                 /\ \A i \in Len(c[x]) + 1 .. Len(k[x]) : k[x][i].owner = o
      <3>1. Len(c[x]) \in Nat /\ Len(b[x]) \in Nat /\ Len(k[x]) \in Nat
        BY <1>0, <1>2, <2>1
      <3>2. /\ Len(c[x]) <= Len(b[x])
            /\ \A i \in 1 .. Len(c[x]) : b[x][i] = c[x][i]
            /\ \A i \in Len(c[x]) + 1 .. Len(b[x]) : b[x][i].owner = o
        BY <1>2 DEF Grows
      <3>3. CASE x # d
        <4>1. k[x] = b[x]
          BY <1>2, <3>3 DEF Adds
        <4> QED
          BY <3>2, <4>1
      <3>4. CASE x = d
        <4>1. /\ Len(k[x]) = Len(b[x]) + n
              /\ \A i \in 1 .. Len(b[x]) : k[x][i] = b[x][i]
              /\ \A i \in Len(b[x]) + 1 .. Len(b[x]) + n : k[x][i].owner = o
          BY <1>2, <3>4 DEF Adds
        <4>2. \A i \in 1 .. Len(c[x]) : k[x][i] = c[x][i]
          BY <3>1, <3>2, <4>1
        <4>3. ASSUME NEW i \in Len(c[x]) + 1 .. Len(k[x]) PROVE k[x][i].owner = o
          <5>1. CASE i <= Len(b[x])
            <6>1. i \in Len(c[x]) + 1 .. Len(b[x]) /\ i \in 1 .. Len(b[x])
              BY <3>1, <5>1
            <6> QED
              BY <3>2, <4>1, <6>1
          <5>2. CASE i > Len(b[x])
            <6>1. i \in Len(b[x]) + 1 .. Len(b[x]) + n
              BY <3>1, <4>1, <5>2
            <6> QED
              BY <4>1, <6>1
          <5> QED
            BY <3>1, <5>1, <5>2
        <4> QED
          BY <3>1, <3>2, <4>1, <4>2, <4>3
      <3> QED
        BY <3>3, <3>4
    <2> QED
      BY <2>1, <2>2 DEF Grows
  <1> QED
    BY <1>1, <1>2

-----------------------------------------------------------------------------
(* What the lists hold, whichever devices wrote them: inputs of a real     *)
(* converter, streams with their own interrupt, controllers with two       *)
(* streams of their own, channels of a real filter, and buffers of a real  *)
(* memory.                                                                 *)
AdcOK(s) == \A i \in 1 .. Len(s) : s[i].e.peripheral \in {"ADC_1", "ADC_2", "ADC_3"}
DmaOK(s) == \A i \in 1 .. Len(s) : /\ s[i].e.stream \in Streams \cup {none}
                                   /\ s[i].e.irqn = s[i].e.stream
Uses2(e) == {e.rx, e.tx}
SpiOK(s, n) ==
  /\ \A i \in 1 .. Len(s) : /\ s[i].e.peripheral \in SpiPeripherals
                            /\ s[i].e.rx \in 1 .. n /\ s[i].e.tx \in 1 .. n
                            /\ s[i].e.rx # s[i].e.tx
  /\ \A i, j \in 1 .. Len(s) : i # j => Uses2(s[i].e) \cap Uses2(s[j].e) = {}
FilterOK(s) == \A i \in 1 .. Len(s) : s[i].e.config.filter \in Filters
MpuOK(s) == \A i \in 1 .. Len(s) : /\ s[i].e.memory \in Memories
                                   /\ s[i].e.alignment \in {32, 16, 8, 4, 2, 1}
                                   /\ s[i].e.size \in Nat

EntriesOK(c) ==
  /\ AdcOK(c["ADC"])
  /\ DmaOK(c["DMA"])
  /\ SpiOK(c["SPI"], Len(c["DMA"]))
  /\ FilterOK(c["DFSDM"])
  /\ MpuOK(c["MPU"])

Inscribes(c, k, d) == Grows(c, k, d) /\ (EntriesOK(c) => EntriesOK(k))

(* What a device finds in a context that holds its entry e.                *)
Pinned(c, g, pin) == g \in 1 .. Len(c["GPIO"]) /\ c["GPIO"][g].e.pin = pin
Driven(c, g, pin, af) ==
  Pinned(c, g, pin) /\ c["GPIO"][g].e.mode \in Alternates /\ c["GPIO"][g].e.af = af
InputAt(c, n, pin) == n \in 1 .. Len(c["DIn"]) /\ Pinned(c, c["DIn"][n].e.gpio, pin)
StreamAt(c, n, e) == n \in 1 .. Len(c["DMA"]) /\ c["DMA"][n].e = e
BufferAt(c, n, size) == n \in 1 .. Len(c["MPU"]) /\ c["MPU"][n].e.size = size

AdcHolds(c, d, e) ==
  Pinned(c, e.gpio, d.pin) /\ e.channel = Resolve(d).channel /\ e.bits = d.bits
SpiHolds(c, d, e) ==
  /\ Driven(c, e.sck, d.sck, SpiAf(d.sck, d.peripheral))
  /\ Driven(c, e.miso, d.miso, SpiAf(d.miso, d.peripheral))
  /\ Pinned(c, e.mosi, d.mosi)
  /\ d.nss # NoPin => Pinned(c, e.nss, d.nss)
  /\ StreamAt(c, e.rx, DmaEntry(d.peripheral, d.streams[1], 0))
  /\ StreamAt(c, e.tx, DmaEntry(d.peripheral, d.streams[2], 1))
DfsdmHolds(c, d, e) ==
  Pinned(c, e.gpio, d.pin) /\ e.channel = ChannelOf[d.pin] /\ e.config = d.config
ExtiHolds(c, d, e) == Pinned(c, e.gpio, d.pin) /\ e.action = d.action
PinHolds(c, d, e)  == Pinned(c, e.gpio, d.pin)
MpuHolds(c, d, e)  == e.memory = d.memory /\ e.size = d.size
EthHolds(c, d, e)  ==
  e.reset \in 1 .. Len(c["DOut"]) /\ Pinned(c, c["DOut"][e.reset].e.gpio, d.pins.reset)
SdHolds(c, d, e) ==
  /\ d.blocks \in 1 .. 15
  /\ \A n \in 1 .. 2 : /\ BufferAt(c, e.buffers[n], 512 * d.blocks)
                       /\ c["MPU"][e.buffers[n]].e.memory = <<"D1", "NonCached">>
  /\ e.buffers[1] # e.buffers[2]
  /\ d.cd # <<>> => InputAt(c, e.cd, d.cd)
  /\ d.wp # <<>> => InputAt(c, e.wp, d.wp)
  /\ \A n \in 1 .. 6 : Pinned(c, e.lines[n], SdPins(d)[n])
PacketHolds(c, d, e) == BufferAt(c, e.packet, PacketBytes(d))

Holds(c, d, e) ==
  /\ d.type = "ADC"   => AdcHolds(c, d, e)
  /\ d.type = "SPI"   => SpiHolds(c, d, e)
  /\ d.type = "DFSDM" => DfsdmHolds(c, d, e)
  /\ d.type = "EXTI"  => ExtiHolds(c, d, e)
  /\ d.type \in {"DIn", "DOut"} => PinHolds(c, d, e)
  /\ d.type = "MPU"   => MpuHolds(c, d, e)
  /\ d.type = "Eth"   => EthHolds(c, d, e)
  /\ d.type = "Sd"    => SdHolds(c, d, e)
  /\ d.type = "MdmaPacket" => PacketHolds(c, d, e)

(* A device that is served has one entry of its own, and holds what it     *)
(* refers to.                                                              *)
Claim(c, d) ==
  d.type \in Served =>
    \E i \in 1 .. Len(c[d.type]) :
      /\ Owned(c, d.type, d) = {i}
      /\ Holds(c, d, c[d.type][i].e)

(* What stands at a place stays there, whatever is added.                  *)
LEMMA PlacesLast ==
  ASSUME NEW c, NEW k, NEW o, Written(c), Grows(c, k, o)
  PROVE  /\ \A g, pin : Pinned(c, g, pin) => Pinned(k, g, pin)
         /\ \A g, pin, af : Driven(c, g, pin, af) => Driven(k, g, pin, af)
         /\ \A n, pin : InputAt(c, n, pin) => InputAt(k, n, pin)
         /\ \A n, x : StreamAt(c, n, x) => StreamAt(k, n, x)
         /\ \A n, x : BufferAt(c, n, x) => BufferAt(k, n, x) /\ k["MPU"][n] = c["MPU"][n]
         /\ \A n \in 1 .. Len(c["DOut"]) : n \in 1 .. Len(k["DOut"]) /\ k["DOut"][n] = c["DOut"][n]
  <1>1. \A x \in Domains : Len(c[x]) \in Nat /\ Len(k[x]) \in Nat /\ Len(c[x]) <= Len(k[x])
    BY ListIsAFunction DEF Grows, Written
  <1>2. \A x \in Domains : \A n \in 1 .. Len(c[x]) : n \in 1 .. Len(k[x]) /\ k[x][n] = c[x][n]
    BY <1>1 DEF Grows
  <1>3. /\ \A n \in 1 .. Len(c["GPIO"]) : n \in 1 .. Len(k["GPIO"]) /\ k["GPIO"][n] = c["GPIO"][n]
        /\ \A n \in 1 .. Len(c["DIn"]) : n \in 1 .. Len(k["DIn"]) /\ k["DIn"][n] = c["DIn"][n]
        /\ \A n \in 1 .. Len(c["DOut"]) : n \in 1 .. Len(k["DOut"]) /\ k["DOut"][n] = c["DOut"][n]
        /\ \A n \in 1 .. Len(c["DMA"]) : n \in 1 .. Len(k["DMA"]) /\ k["DMA"][n] = c["DMA"][n]
        /\ \A n \in 1 .. Len(c["MPU"]) : n \in 1 .. Len(k["MPU"]) /\ k["MPU"][n] = c["MPU"][n]
    BY <1>2 DEF Domains
  <1>4. \A g, pin : Pinned(c, g, pin) => Pinned(k, g, pin)
    BY <1>3 DEF Pinned
  <1>5. \A g, pin, af : Driven(c, g, pin, af) => Driven(k, g, pin, af)
    BY <1>3, <1>4 DEF Driven, Pinned
  <1>6. \A n, pin : InputAt(c, n, pin) => InputAt(k, n, pin)
    BY <1>3, <1>4 DEF InputAt
  <1>7. /\ \A n, x : StreamAt(c, n, x) => StreamAt(k, n, x)
        /\ \A n, x : BufferAt(c, n, x) => BufferAt(k, n, x) /\ k["MPU"][n] = c["MPU"][n]
    BY <1>3 DEF StreamAt, BufferAt
  <1> QED
    BY <1>3, <1>4, <1>5, <1>6, <1>7

(* What a device holds stays, whatever another one adds.                   *)
LEMMA HoldsOn ==
  ASSUME NEW c, NEW k, NEW o, NEW d, NEW e, Written(c), Grows(c, k, o), Holds(c, d, e)
  PROVE  Holds(k, d, e)
  <1>1. \A n \in 1 .. Len(c["DOut"]) : n \in 1 .. Len(k["DOut"]) /\ k["DOut"][n] = c["DOut"][n]
    BY PlacesLast
  <1>2. \A g, pin : Pinned(c, g, pin) => Pinned(k, g, pin)
    BY PlacesLast
  <1>3. \A g, pin, af : Driven(c, g, pin, af) => Driven(k, g, pin, af)
    BY PlacesLast
  <1>4. \A n, pin : InputAt(c, n, pin) => InputAt(k, n, pin)
    BY PlacesLast
  <1>5. /\ \A n, x : StreamAt(c, n, x) => StreamAt(k, n, x)
        /\ \A n, x : BufferAt(c, n, x) => BufferAt(k, n, x) /\ k["MPU"][n] = c["MPU"][n]
    BY PlacesLast
  <1>6. EthHolds(c, d, e) => EthHolds(k, d, e)
    BY <1>1, <1>2 DEF EthHolds
  <1>7. SdHolds(c, d, e) => SdHolds(k, d, e)
    <2> SUFFICES ASSUME SdHolds(c, d, e) PROVE SdHolds(k, d, e)
      OBVIOUS
    <2>1. /\ d.blocks \in 1 .. 15 /\ e.buffers[1] # e.buffers[2]
          /\ d.cd # <<>> => InputAt(c, e.cd, d.cd)
          /\ d.wp # <<>> => InputAt(c, e.wp, d.wp)
      BY DEF SdHolds
    <2>2. ASSUME NEW n \in 1 .. 2
          PROVE  /\ BufferAt(k, e.buffers[n], 512 * d.blocks)
                 /\ k["MPU"][e.buffers[n]].e.memory = <<"D1", "NonCached">>
      <3>1. /\ BufferAt(c, e.buffers[n], 512 * d.blocks)
            /\ c["MPU"][e.buffers[n]].e.memory = <<"D1", "NonCached">>
        BY DEF SdHolds
      <3> QED
        BY <1>5, <3>1
    <2>3. ASSUME NEW n \in 1 .. 6 PROVE Pinned(k, e.lines[n], SdPins(d)[n])
      <3>1. Pinned(c, e.lines[n], SdPins(d)[n])
        BY DEF SdHolds
      <3> QED
        BY <1>2, <3>1
    <2>4. /\ d.cd # <<>> => InputAt(k, e.cd, d.cd)
          /\ d.wp # <<>> => InputAt(k, e.wp, d.wp)
      BY <1>4, <2>1
    <2> QED
      BY <2>1, <2>2, <2>3, <2>4 DEF SdHolds
  <1>8. SpiHolds(c, d, e) => SpiHolds(k, d, e)
    BY <1>2, <1>3, <1>5 DEF SpiHolds
  <1>9. PacketHolds(c, d, e) => PacketHolds(k, d, e)
    BY <1>5 DEF PacketHolds
  <1>10. /\ AdcHolds(c, d, e) => AdcHolds(k, d, e)
         /\ DfsdmHolds(c, d, e) => DfsdmHolds(k, d, e)
         /\ ExtiHolds(c, d, e) => ExtiHolds(k, d, e)
         /\ PinHolds(c, d, e) => PinHolds(k, d, e)
         /\ MpuHolds(c, d, e) => MpuHolds(k, d, e)
    BY <1>2 DEF AdcHolds, DfsdmHolds, ExtiHolds, PinHolds, MpuHolds
  <1> QED
    BY <1>6, <1>7, <1>8, <1>9, <1>10 DEF Holds

LEMMA ClaimsLast ==
  ASSUME NEW c, NEW k, NEW o, NEW d, Written(c), Grows(c, k, o), o # d, Claim(c, d)
  PROVE  Claim(k, d)
  <1> SUFFICES ASSUME d.type \in Served
               PROVE  \E i \in 1 .. Len(k[d.type]) :
                        Owned(k, d.type, d) = {i} /\ Holds(k, d, k[d.type][i].e)
    BY DEF Claim
  <1> DEFINE t == d.type
  <1>1. t \in Domains
    BY DEF Served, Domains
  <1>2. PICK i \in 1 .. Len(c[t]) : Owned(c, t, d) = {i} /\ Holds(c, d, c[t][i].e)
    BY DEF Claim
  <1>3. /\ Len(c[t]) \in Nat /\ Len(k[t]) \in Nat /\ Len(c[t]) <= Len(k[t])
        /\ DOMAIN c[t] = 1 .. Len(c[t]) /\ DOMAIN k[t] = 1 .. Len(k[t])
        /\ \A n \in 1 .. Len(c[t]) : k[t][n] = c[t][n]
        /\ \A n \in Len(c[t]) + 1 .. Len(k[t]) : k[t][n].owner = o
    BY <1>1, ListIsAFunction DEF Grows, Written
  <1>4. \A n \in 1 .. Len(k[t]) : k[t][n].owner = d <=> n = i
    <2> TAKE n \in 1 .. Len(k[t])
    <2>1. CASE n <= Len(c[t])
      <3>1. k[t][n] = c[t][n] /\ n \in DOMAIN c[t]
        BY <1>3, <2>1
      <3> QED
        BY <1>2, <3>1 DEF Owned
    <2>2. CASE n > Len(c[t])
      BY <1>2, <1>3, <2>2
    <2> QED
      BY <1>3, <2>1, <2>2
  <1>5. Owned(k, t, d) = {i}
    BY <1>2, <1>3, <1>4 DEF Owned
  <1>6. k[t][i] = c[t][i] /\ i \in 1 .. Len(k[t])
    BY <1>2, <1>3
  <1>7. Holds(k, d, k[t][i].e)
    BY <1>2, <1>6, HoldsOn
  <1> QED
    BY <1>5, <1>6, <1>7

-----------------------------------------------------------------------------
(* One more entry, or several, after those a device has written already.   *)
LEMMA OneMoreEntry ==
  ASSUME NEW c, NEW b, NEW o, Written(c), Grows(c, b, o), NEW d \in Domains, NEW e
  PROVE  /\ Grows(c, Add(b, d, e, o), o)
         /\ Len(b[d]) \in Nat /\ Len(Add(b, d, e, o)[d]) = Len(b[d]) + 1
         /\ Add(b, d, e, o)[d][Len(b[d]) + 1].e = e
         /\ \A i \in 1 .. Len(b[d]) : Add(b, d, e, o)[d][i] = b[d][i]
         /\ \A x \in Domains \ {d} : Add(b, d, e, o)[x] = b[x]
  <1>1. Written(b)
    BY DEF Grows
  <1>2. PICK k : k = Add(b, d, e, o)
    OBVIOUS
  <1>3. Adds(b, k, d, 1, o) /\ k[d][Len(b[d]) + 1].e = e /\ Len(b[d]) \in Nat
    BY <1>1, <1>2, AddWrites
  <1>4. Grows(c, k, o)
    BY <1>3, GrowsWithEach
  <1> QED
    BY <1>2, <1>3, <1>4 DEF Adds

LEMMA MoreEntries ==
  ASSUME NEW c, NEW b, NEW o, Written(c), Grows(c, b, o), NEW d \in Domains, NEW es, IsList(es)
  PROVE  /\ Grows(c, AddAll(b, d, es, o), o)
         /\ Len(b[d]) \in Nat /\ Len(es) \in Nat
         /\ Len(AddAll(b, d, es, o)[d]) = Len(b[d]) + Len(es)
         /\ \A i \in 1 .. Len(es) : AddAll(b, d, es, o)[d][Len(b[d]) + i].e = es[i]
         /\ \A i \in 1 .. Len(b[d]) : AddAll(b, d, es, o)[d][i] = b[d][i]
         /\ \A x \in Domains \ {d} : AddAll(b, d, es, o)[x] = b[x]
  <1>1. Written(b)
    BY DEF Grows
  <1>2. PICK k : k = AddAll(b, d, es, o)
    OBVIOUS
  <1>3. /\ Adds(b, k, d, Len(es), o) /\ Len(b[d]) \in Nat /\ Len(es) \in Nat
        /\ \A i \in 1 .. Len(es) : k[d][Len(b[d]) + i].e = es[i]
    BY <1>1, <1>2, AddAllWrites
  <1>4. Grows(c, k, o)
    BY <1>3, GrowsWithEach
  <1> QED
    BY <1>2, <1>3, <1>4 DEF Adds

(* A list keeps its promise when what is added keeps it.                   *)
LEMMA OneMoreIsOK ==
  ASSUME NEW s, NEW t, Len(s) \in Nat, Len(t) = Len(s) + 1,
         \A i \in 1 .. Len(s) : t[i] = s[i]
  PROVE  /\ AdcOK(s) /\ t[Len(t)].e.peripheral \in {"ADC_1", "ADC_2", "ADC_3"} => AdcOK(t)
         /\ FilterOK(s) /\ t[Len(t)].e.config.filter \in Filters => FilterOK(t)
         /\ /\ MpuOK(s)
            /\ t[Len(t)].e.memory \in Memories /\ t[Len(t)].e.size \in Nat
            /\ t[Len(t)].e.alignment \in {32, 16, 8, 4, 2, 1}
            => MpuOK(t)
  <1>1. \A i \in 1 .. Len(t) : i = Len(t) \/ (i \in 1 .. Len(s) /\ t[i] = s[i])
    OBVIOUS
  <1>2. AdcOK(s) /\ t[Len(t)].e.peripheral \in {"ADC_1", "ADC_2", "ADC_3"} => AdcOK(t)
    BY <1>1 DEF AdcOK
  <1>3. FilterOK(s) /\ t[Len(t)].e.config.filter \in Filters => FilterOK(t)
    BY <1>1 DEF FilterOK
  <1>4. /\ MpuOK(s)
        /\ t[Len(t)].e.memory \in Memories /\ t[Len(t)].e.size \in Nat
        /\ t[Len(t)].e.alignment \in {32, 16, 8, 4, 2, 1}
        => MpuOK(t)
    BY <1>1 DEF MpuOK
  <1> QED
    BY <1>2, <1>3, <1>4

(* Most devices add a pin and an entry that refers to it.                  *)
LEMMA PinThenEntry ==
  ASSUME NEW c, NEW b, NEW o, Written(c), Grows(c, b, o), NEW g, NEW t \in Domains \ {"GPIO"}, NEW e,
         NEW k1, k1 = Add(b, "GPIO", g, o), NEW k, k = Add(k1, t, e, o)
  PROVE  /\ Grows(c, k, o)
         /\ LastIndex(k1, "GPIO") = Len(k["GPIO"]) /\ Len(k["GPIO"]) \in Nat \ {0}
         /\ k["GPIO"][Len(k["GPIO"])].e = g
         /\ Len(b[t]) \in Nat /\ Len(k[t]) = Len(b[t]) + 1
         /\ k[t][Len(k[t])].e = e
         /\ \A i \in 1 .. Len(b[t]) : k[t][i] = b[t][i]
         /\ \A x \in Domains \ {"GPIO", t} : k[x] = b[x]
  <1>0. "GPIO" \in Domains /\ t \in Domains
    BY DEF Domains
  <1>1. /\ Grows(c, k1, o)
        /\ Len(b["GPIO"]) \in Nat /\ Len(k1["GPIO"]) = Len(b["GPIO"]) + 1
        /\ k1["GPIO"][Len(b["GPIO"]) + 1].e = g
        /\ \A x \in Domains \ {"GPIO"} : k1[x] = b[x]
    BY <1>0, OneMoreEntry
  <1>2. /\ Grows(c, k, o)
        /\ Len(k1[t]) \in Nat /\ Len(k[t]) = Len(k1[t]) + 1
        /\ k[t][Len(k1[t]) + 1].e = e
        /\ \A i \in 1 .. Len(k1[t]) : k[t][i] = k1[t][i]
        /\ \A x \in Domains \ {t} : k[x] = k1[x]
    BY <1>0, <1>1, OneMoreEntry
  <1>3. k["GPIO"] = k1["GPIO"] /\ k1[t] = b[t]
    BY <1>0, <1>1, <1>2
  <1> QED
    <2>1. /\ LastIndex(k1, "GPIO") = Len(k["GPIO"]) /\ Len(k["GPIO"]) \in Nat \ {0}
          /\ k["GPIO"][Len(k["GPIO"])].e = g
      BY <1>1, <1>3 DEF LastIndex
    <2>2. /\ Len(b[t]) \in Nat /\ Len(k[t]) = Len(b[t]) + 1
          /\ k[t][Len(k[t])].e = e
          /\ \A i \in 1 .. Len(b[t]) : k[t][i] = b[t][i]
      BY <1>2, <1>3
    <2>3. \A x \in Domains \ {"GPIO", t} : k[x] = b[x]
      BY <1>1, <1>2
    <2> QED
      BY <1>2, <2>1, <2>2, <2>3

(* A converter's name or the wish for any becomes a converter's name.      *)
LEMMA ResolvesToAConverter ==
  ASSUME NEW d, d.peripheral \in ToSet(Converters) \cup {AUTO}, Resolve(d) # Unresolved
  PROVE  Resolve(d).peripheral \in {"ADC_1", "ADC_2", "ADC_3"}
  <1> DEFINE C == {"ADC_1", "ADC_2", "ADC_3"}
             named == [peripheral |-> IF d.peripheral = AUTO THEN "ADC_3" ELSE d.peripheral,
                       channel |-> d.channel]
             found == {m.peripheral : m \in Mappings(d)}
             pref  == Preference(d.bits)
             first == CHOOSE i \in 1 .. 3 : pref[i] \in found /\ \A j \in 1 .. i - 1 : pref[j] \notin found
             direct == \/ d.channel \in InternalChannels
                       \/ d.peripheral # AUTO /\ d.channel # AUTO_CHANNEL
             allowed == /\ InternalAllowed(named.peripheral, d.channel)
                        /\ d.bits <= MaxBits(named.peripheral)
                        /\ d.channel \in AdcChannels
             searched == [peripheral |-> pref[first],
                          channel |-> (CHOOSE m \in Mappings(d) : m.peripheral = pref[first]).channel]
  <1>1. named.peripheral \in C
    BY DEF ToSet, Converters
  <1>2. Resolve(d) = IF direct THEN IF allowed THEN named ELSE Unresolved
                     ELSE IF found = {} THEN Unresolved ELSE searched
    BY DEF Resolve
  <1>3. ASSUME found # {} PROVE pref[first] \in C
    <2>1. \A p : ConvertersOf(p) \subseteq C
      BY DEF ConvertersOf
    <2>2. found \subseteq C
      <3>1. ASSUME NEW m \in PinMap PROVE m.peripheral \in C
        <4>1. PICK x \in PinChannel : \E p \in ConvertersOf(<<x[1], x[2]>>) :
                m = [peripheral |-> p, channel |-> x[3], pin |-> <<x[1], x[2]>>]
          BY DEF PinMap
        <4>2. m.peripheral \in ConvertersOf(<<x[1], x[2]>>)
          BY <4>1
        <4> QED
          BY <2>1, <4>2
      <3> QED
        BY <3>1 DEF Mappings
    <2>3. DOMAIN pref = 1 .. 3 /\ \A p \in C : \E i \in 1 .. 3 : pref[i] = p
      BY DEF Preference
    <2> HIDE DEF found, pref, C
    <2>4. \E i \in 1 .. 3 : pref[i] \in found
      BY <1>3, <2>2, <2>3
    <2>5. \E i \in 1 .. 3 : pref[i] \in found /\ \A j \in 1 .. i - 1 : pref[j] \notin found
      <3>1. CASE pref[1] \in found
        BY <3>1
      <3>2. CASE pref[1] \notin found /\ pref[2] \in found
        <4>1. \A j \in 1 .. 2 - 1 : j = 1
          OBVIOUS
        <4> QED
          BY <3>2, <4>1
      <3>3. CASE pref[1] \notin found /\ pref[2] \notin found
        <4>1. \A i \in 1 .. 3 : i \in {1, 2, 3}
          OBVIOUS
        <4>2. pref[3] \in found
          BY <2>4, <3>3, <4>1
        <4>3. \A j \in 1 .. 3 - 1 : j \in {1, 2}
          OBVIOUS
        <4> QED
          BY <3>3, <4>2, <4>3
      <3> QED
        BY <3>1, <3>2, <3>3
    <2>6. pref[first] \in found
      BY <2>5
    <2> QED
      BY <2>2, <2>6
  <1> HIDE DEF named, found, pref, first, direct, allowed
  <1> QED
    BY <1>1, <1>2, <1>3

-----------------------------------------------------------------------------
(* What each kind of device does to a context.                             *)
Joins(c, k, d, t) == Inscribes(c, k, d) /\ Len(c[t]) \in Nat /\ Len(k[t]) = Len(c[t]) + 1

LEMMA AdcJoins ==
  ASSUME NEW c, Written(c), NEW d, d.peripheral \in ToSet(Converters) \cup {AUTO},
         AdcCompiles(d), NEW k, k = InscribeAdc(c, d)
  PROVE  Joins(c, k, d, "ADC") /\ AdcHolds(k, d, k["ADC"][Len(k["ADC"])].e)
  <1> DEFINE g == Gpio(d.pin, "ANALOG", NO_AF)
             E(n) == [gpio |-> n, peripheral |-> Resolve(d).peripheral,
                      channel |-> Resolve(d).channel, bits |-> d.bits,
                      prescaler |-> d.prescaler, rate |-> d.rate]
  <1>1. PICK k1 : k1 = Add(c, "GPIO", g, d)
    OBVIOUS
  <1>2. PICK e : e = E(LastIndex(k1, "GPIO"))
    OBVIOUS
  <1>3. k = Add(k1, "ADC", e, d)
    BY <1>1, <1>2 DEF InscribeAdc
  <1>4. g.pin = d.pin
    BY DEF Gpio
  <1> HIDE DEF g
  <1>5. Grows(c, c, d) /\ "ADC" \in Domains \ {"GPIO"}
    BY GrowsWithEach DEF Domains
  <1>6. /\ Grows(c, k, d)
        /\ LastIndex(k1, "GPIO") = Len(k["GPIO"]) /\ Len(k["GPIO"]) \in Nat \ {0}
        /\ k["GPIO"][Len(k["GPIO"])].e = g
        /\ Len(c["ADC"]) \in Nat /\ Len(k["ADC"]) = Len(c["ADC"]) + 1
        /\ k["ADC"][Len(k["ADC"])].e = e
        /\ \A i \in 1 .. Len(c["ADC"]) : k["ADC"][i] = c["ADC"][i]
        /\ \A x \in Domains \ {"GPIO", "ADC"} : k[x] = c[x]
    BY <1>1, <1>3, <1>5, PinThenEntry
  <1>7. e.peripheral \in {"ADC_1", "ADC_2", "ADC_3"}
    <2>1. Resolve(d).peripheral \in {"ADC_1", "ADC_2", "ADC_3"}
      BY ResolvesToAConverter DEF AdcCompiles
    <2> QED
      BY <1>2, <2>1
  <1>8. e.gpio = Len(k["GPIO"]) /\ e.channel = Resolve(d).channel /\ e.bits = d.bits
    BY <1>2, <1>6
  <1>9. EntriesOK(c) => EntriesOK(k)
    <2>1. k["DMA"] = c["DMA"] /\ k["SPI"] = c["SPI"] /\ k["DFSDM"] = c["DFSDM"] /\ k["MPU"] = c["MPU"]
      BY <1>6 DEF Domains
    <2>2. AdcOK(c["ADC"]) => AdcOK(k["ADC"])
      BY <1>6, <1>7, OneMoreIsOK
    <2> QED
      BY <2>1, <2>2 DEF EntriesOK
  <1>10. AdcHolds(k, d, e)
    BY <1>4, <1>6, <1>8 DEF AdcHolds, Pinned
  <1> QED
    BY <1>6, <1>9, <1>10 DEF Joins, Inscribes

LEMMA DfsdmJoins ==
  ASSUME NEW c, Written(c), NEW d, DfsdmCompiles(d), NEW k, k = InscribeDfsdm(c, d)
  PROVE  Joins(c, k, d, "DFSDM") /\ DfsdmHolds(k, d, k["DFSDM"][Len(k["DFSDM"])].e)
  <1> DEFINE g == Gpio(d.pin, "ALT_PP", ChannelAf(d.pin))
             E(n) == [gpio |-> n, config |-> d.config, channel |-> ChannelOf[d.pin],
                      size |-> d.size]
  <1>1. PICK k1 : k1 = Add(c, "GPIO", g, d)
    OBVIOUS
  <1>2. PICK e : e = E(LastIndex(k1, "GPIO"))
    OBVIOUS
  <1>3. k = Add(k1, "DFSDM", e, d)
    BY <1>1, <1>2 DEF InscribeDfsdm
  <1>4. g.pin = d.pin
    BY DEF Gpio
  <1> HIDE DEF g
  <1>5. Grows(c, c, d) /\ "DFSDM" \in Domains \ {"GPIO"}
    BY GrowsWithEach DEF Domains
  <1>6. /\ Grows(c, k, d)
        /\ LastIndex(k1, "GPIO") = Len(k["GPIO"]) /\ Len(k["GPIO"]) \in Nat \ {0}
        /\ k["GPIO"][Len(k["GPIO"])].e = g
        /\ Len(c["DFSDM"]) \in Nat /\ Len(k["DFSDM"]) = Len(c["DFSDM"]) + 1
        /\ k["DFSDM"][Len(k["DFSDM"])].e = e
        /\ \A i \in 1 .. Len(c["DFSDM"]) : k["DFSDM"][i] = c["DFSDM"][i]
        /\ \A x \in Domains \ {"GPIO", "DFSDM"} : k[x] = c[x]
    BY <1>1, <1>3, <1>5, PinThenEntry
  <1>7. e.config = d.config /\ e.gpio = Len(k["GPIO"]) /\ e.channel = ChannelOf[d.pin]
    BY <1>2, <1>6
  <1>8. e.config.filter \in Filters
    BY <1>7 DEF DfsdmCompiles
  <1>9. EntriesOK(c) => EntriesOK(k)
    <2>1. k["DMA"] = c["DMA"] /\ k["SPI"] = c["SPI"] /\ k["ADC"] = c["ADC"] /\ k["MPU"] = c["MPU"]
      BY <1>6 DEF Domains
    <2>2. FilterOK(c["DFSDM"]) => FilterOK(k["DFSDM"])
      BY <1>6, <1>8, OneMoreIsOK
    <2> QED
      BY <2>1, <2>2 DEF EntriesOK
  <1>10. DfsdmHolds(k, d, e)
    BY <1>4, <1>6, <1>7 DEF DfsdmHolds, Pinned
  <1> QED
    BY <1>6, <1>9, <1>10 DEF Joins, Inscribes

(* A pin and an entry outside the five lists.                              *)
LEMMA PinAndEntryJoin ==
  ASSUME NEW c, NEW b, NEW o, Written(c), Inscribes(c, b, o), NEW g,
         NEW t \in Domains \ {"GPIO", "ADC", "DMA", "SPI", "DFSDM", "MPU"}, NEW e,
         NEW k1, k1 = Add(b, "GPIO", g, o), NEW k, k = Add(k1, t, e, o)
  PROVE  /\ Inscribes(c, k, o)
         /\ LastIndex(k1, "GPIO") = Len(k["GPIO"]) /\ Len(k["GPIO"]) \in Nat \ {0}
         /\ k["GPIO"][Len(k["GPIO"])].e = g
         /\ Len(b[t]) \in Nat /\ Len(k[t]) = Len(b[t]) + 1
         /\ k[t][Len(k[t])].e = e
         /\ \A x \in Domains \ {"GPIO", t} : k[x] = b[x]
  <1>1. Grows(c, b, o) /\ t \in Domains \ {"GPIO"}
    BY DEF Inscribes
  <1>2. /\ Grows(c, k, o)
        /\ LastIndex(k1, "GPIO") = Len(k["GPIO"]) /\ Len(k["GPIO"]) \in Nat \ {0}
        /\ k["GPIO"][Len(k["GPIO"])].e = g
        /\ Len(b[t]) \in Nat /\ Len(k[t]) = Len(b[t]) + 1
        /\ k[t][Len(k[t])].e = e
        /\ \A x \in Domains \ {"GPIO", t} : k[x] = b[x]
    BY <1>1, PinThenEntry
  <1>3. \A x \in {"ADC", "DMA", "SPI", "DFSDM", "MPU"} : k[x] = b[x]
    BY <1>2 DEF Domains
  <1>4. EntriesOK(b) => EntriesOK(k)
    BY <1>3 DEF EntriesOK
  <1> QED
    BY <1>2, <1>4 DEF Inscribes

LEMMA StartsEmpty == \A c, o : Written(c) => Inscribes(c, c, o)
  BY GrowsWithEach DEF Inscribes

LEMMA ExtiJoins ==
  ASSUME NEW c, Written(c), NEW d, NEW k, k = InscribeExti(c, d)
  PROVE  Joins(c, k, d, "EXTI") /\ ExtiHolds(k, d, k["EXTI"][Len(k["EXTI"])].e)
  <1>1. PICK g : g = ExtiGpio(d)
    OBVIOUS
  <1>2. PICK k1 : k1 = Add(c, "GPIO", g, d)
    OBVIOUS
  <1>3. PICK e : e = [gpio |-> LastIndex(k1, "GPIO"), pin |-> d.pin, action |-> d.action]
    OBVIOUS
  <1>4. k = Add(k1, "EXTI", e, d)
    BY <1>1, <1>2, <1>3 DEF InscribeExti
  <1>5. g.pin = d.pin
    BY <1>1 DEF ExtiGpio, Gpio
  <1>6. "EXTI" \in Domains \ {"GPIO", "ADC", "DMA", "SPI", "DFSDM", "MPU"} /\ Inscribes(c, c, d)
    BY StartsEmpty DEF Domains
  <1>7. /\ Inscribes(c, k, d)
        /\ LastIndex(k1, "GPIO") = Len(k["GPIO"]) /\ Len(k["GPIO"]) \in Nat \ {0}
        /\ k["GPIO"][Len(k["GPIO"])].e = g
        /\ Len(c["EXTI"]) \in Nat /\ Len(k["EXTI"]) = Len(c["EXTI"]) + 1
        /\ k["EXTI"][Len(k["EXTI"])].e = e
    BY <1>2, <1>4, <1>6, PinAndEntryJoin
  <1>8. e.gpio = Len(k["GPIO"]) /\ e.action = d.action
    BY <1>3, <1>7
  <1> QED
    BY <1>5, <1>7, <1>8 DEF Joins, ExtiHolds, Pinned

(* An input is inscribed by a card as well as on its own.                  *)
LEMMA DinJoins ==
  ASSUME NEW c, NEW b, NEW d, Written(c), Inscribes(c, b, d), NEW pin,
         NEW k, k = InscribeDin(b, pin, d)
  PROVE  /\ Inscribes(c, k, d) /\ Len(b["DIn"]) \in Nat /\ Len(k["DIn"]) = Len(b["DIn"]) + 1
         /\ Pinned(k, k["DIn"][Len(k["DIn"])].e.gpio, pin)
         /\ \A x \in Domains \ {"GPIO", "DIn"} : k[x] = b[x]
  <1>1. PICK g : g = DinGpio(pin)
    OBVIOUS
  <1>2. PICK k1 : k1 = Add(b, "GPIO", g, d)
    OBVIOUS
  <1>3. PICK e : e = [gpio |-> LastIndex(k1, "GPIO")]
    OBVIOUS
  <1>4. k = Add(k1, "DIn", e, d)
    BY <1>1, <1>2, <1>3 DEF InscribeDin
  <1>5. g.pin = pin
    BY <1>1 DEF DinGpio, Gpio
  <1>6. "DIn" \in Domains \ {"GPIO", "ADC", "DMA", "SPI", "DFSDM", "MPU"}
    BY DEF Domains
  <1>7. /\ Inscribes(c, k, d)
        /\ LastIndex(k1, "GPIO") = Len(k["GPIO"]) /\ Len(k["GPIO"]) \in Nat \ {0}
        /\ k["GPIO"][Len(k["GPIO"])].e = g
        /\ Len(b["DIn"]) \in Nat /\ Len(k["DIn"]) = Len(b["DIn"]) + 1
        /\ k["DIn"][Len(k["DIn"])].e = e
        /\ \A x \in Domains \ {"GPIO", "DIn"} : k[x] = b[x]
    BY <1>2, <1>4, <1>6, PinAndEntryJoin
  <1>8. e.gpio = Len(k["GPIO"])
    BY <1>3, <1>7
  <1> QED
    BY <1>5, <1>7, <1>8 DEF Pinned

LEMMA DoutJoins ==
  ASSUME NEW c, NEW b, NEW d, Written(c), Inscribes(c, b, d), NEW pin,
         NEW k, k = InscribeDout(b, pin, d)
  PROVE  /\ Inscribes(c, k, d) /\ Len(b["DOut"]) \in Nat /\ Len(k["DOut"]) = Len(b["DOut"]) + 1
         /\ Pinned(k, k["DOut"][Len(k["DOut"])].e.gpio, pin)
         /\ \A x \in Domains \ {"GPIO", "DOut"} : k[x] = b[x]
  <1>1. PICK g : g = DoutGpio(pin)
    OBVIOUS
  <1>2. PICK k1 : k1 = Add(b, "GPIO", g, d)
    OBVIOUS
  <1>3. PICK e : e = [gpio |-> LastIndex(k1, "GPIO")]
    OBVIOUS
  <1>4. k = Add(k1, "DOut", e, d)
    BY <1>1, <1>2, <1>3 DEF InscribeDout
  <1>5. g.pin = pin
    BY <1>1 DEF DoutGpio, Gpio
  <1>6. "DOut" \in Domains \ {"GPIO", "ADC", "DMA", "SPI", "DFSDM", "MPU"}
    BY DEF Domains
  <1>7. /\ Inscribes(c, k, d)
        /\ LastIndex(k1, "GPIO") = Len(k["GPIO"]) /\ Len(k["GPIO"]) \in Nat \ {0}
        /\ k["GPIO"][Len(k["GPIO"])].e = g
        /\ Len(b["DOut"]) \in Nat /\ Len(k["DOut"]) = Len(b["DOut"]) + 1
        /\ k["DOut"][Len(k["DOut"])].e = e
        /\ \A x \in Domains \ {"GPIO", "DOut"} : k[x] = b[x]
    BY <1>2, <1>4, <1>6, PinAndEntryJoin
  <1>8. e.gpio = Len(k["GPIO"])
    BY <1>3, <1>7
  <1> QED
    BY <1>5, <1>7, <1>8 DEF Pinned

LEMMA ClkJoins ==
  ASSUME NEW c, Written(c), NEW d, NEW k, k = InscribeClk(c, d)
  PROVE  Inscribes(c, k, d)
  <1>1. PICK g : g = Gpio(d.pin, "ALT_PP", ClkAf(d.pin))
    OBVIOUS
  <1>2. PICK k1 : k1 = Add(c, "GPIO", g, d)
    OBVIOUS
  <1>3. PICK e : e = [gpio |-> LastIndex(k1, "GPIO"), divider |-> d.divider]
    OBVIOUS
  <1>4. k = Add(k1, "DFSDMClk", e, d)
    BY <1>1, <1>2, <1>3 DEF InscribeClk
  <1>5. "DFSDMClk" \in Domains \ {"GPIO", "ADC", "DMA", "SPI", "DFSDM", "MPU"} /\ Inscribes(c, c, d)
    BY StartsEmpty DEF Domains
  <1> QED
    BY <1>2, <1>4, <1>5, PinAndEntryJoin

(* One more buffer; one more entry outside the five lists.                 *)
LEMMA BufferJoins ==
  ASSUME NEW c, NEW b, NEW o, Written(c), Inscribes(c, b, o), NEW e,
         e.memory \in Memories, e.alignment \in {32, 16, 8, 4, 2, 1}, e.size \in Nat,
         NEW k, k = Add(b, "MPU", e, o)
  PROVE  /\ Inscribes(c, k, o)
         /\ Len(b["MPU"]) \in Nat /\ Len(k["MPU"]) = Len(b["MPU"]) + 1
         /\ k["MPU"][Len(k["MPU"])].e = e
         /\ \A i \in 1 .. Len(b["MPU"]) : k["MPU"][i] = b["MPU"][i]
         /\ \A x \in Domains \ {"MPU"} : k[x] = b[x]
  <1>1. Grows(c, b, o) /\ "MPU" \in Domains
    BY DEF Inscribes, Domains
  <1>2. /\ Grows(c, k, o)
        /\ Len(b["MPU"]) \in Nat /\ Len(k["MPU"]) = Len(b["MPU"]) + 1
        /\ k["MPU"][Len(b["MPU"]) + 1].e = e
        /\ \A i \in 1 .. Len(b["MPU"]) : k["MPU"][i] = b["MPU"][i]
        /\ \A x \in Domains \ {"MPU"} : k[x] = b[x]
    BY <1>1, OneMoreEntry
  <1>3. MpuOK(b["MPU"]) => MpuOK(k["MPU"])
    BY <1>2, OneMoreIsOK
  <1>4. \A x \in {"ADC", "DMA", "SPI", "DFSDM"} : k[x] = b[x]
    BY <1>2 DEF Domains
  <1>5. EntriesOK(b) => EntriesOK(k)
    BY <1>3, <1>4 DEF EntriesOK
  <1> QED
    BY <1>2, <1>5 DEF Inscribes

LEMMA EntryJoins ==
  ASSUME NEW c, NEW b, NEW o, Written(c), Inscribes(c, b, o),
         NEW t \in Domains \ {"ADC", "DMA", "SPI", "DFSDM", "MPU"}, NEW e,
         NEW k, k = Add(b, t, e, o)
  PROVE  /\ Inscribes(c, k, o)
         /\ Len(b[t]) \in Nat /\ Len(k[t]) = Len(b[t]) + 1
         /\ k[t][Len(k[t])].e = e
         /\ \A i \in 1 .. Len(b[t]) : k[t][i] = b[t][i]
         /\ \A x \in Domains \ {t} : k[x] = b[x]
  <1>1. Grows(c, b, o) /\ t \in Domains
    BY DEF Inscribes
  <1>2. /\ Grows(c, k, o)
        /\ Len(b[t]) \in Nat /\ Len(k[t]) = Len(b[t]) + 1
        /\ k[t][Len(b[t]) + 1].e = e
        /\ \A i \in 1 .. Len(b[t]) : k[t][i] = b[t][i]
        /\ \A x \in Domains \ {t} : k[x] = b[x]
    BY <1>1, OneMoreEntry
  <1>3. \A x \in {"ADC", "DMA", "SPI", "DFSDM", "MPU"} : k[x] = b[x]
    BY <1>2 DEF Domains
  <1>4. EntriesOK(b) => EntriesOK(k)
    BY <1>3 DEF EntriesOK
  <1> QED
    BY <1>2, <1>4 DEF Inscribes

LEMMA PinsJoin ==
  ASSUME NEW c, NEW b, NEW o, Written(c), Inscribes(c, b, o), NEW es, IsList(es),
         NEW k, k = AddAll(b, "GPIO", es, o)
  PROVE  /\ Inscribes(c, k, o)
         /\ Len(b["GPIO"]) \in Nat /\ Len(es) \in Nat /\ Len(k["GPIO"]) = Len(b["GPIO"]) + Len(es)
         /\ \A i \in 1 .. Len(es) : k["GPIO"][Len(b["GPIO"]) + i].e = es[i]
         /\ \A x \in Domains \ {"GPIO"} : k[x] = b[x]
  <1>1. Grows(c, b, o) /\ "GPIO" \in Domains
    BY DEF Inscribes, Domains
  <1>2. /\ Grows(c, k, o)
        /\ Len(b["GPIO"]) \in Nat /\ Len(es) \in Nat /\ Len(k["GPIO"]) = Len(b["GPIO"]) + Len(es)
        /\ \A i \in 1 .. Len(es) : k["GPIO"][Len(b["GPIO"]) + i].e = es[i]
        /\ \A x \in Domains \ {"GPIO"} : k[x] = b[x]
    BY <1>1, MoreEntries
  <1>3. \A x \in {"ADC", "DMA", "SPI", "DFSDM", "MPU"} : k[x] = b[x]
    BY <1>2 DEF Domains
  <1>4. EntriesOK(b) => EntriesOK(k)
    BY <1>3 DEF EntriesOK
  <1> QED
    BY <1>2, <1>4 DEF Inscribes

LEMMA MpuJoins ==
  ASSUME NEW c, Written(c), NEW d, d.memory \in Memories, d.size \in Nat, MpuCompiles(d),
         NEW k, k = InscribeMpu(c, d)
  PROVE  Joins(c, k, d, "MPU") /\ MpuHolds(k, d, k["MPU"][Len(k["MPU"])].e)
  <1>1. PICK e : e = [memory |-> d.memory, alignment |-> d.alignment, size |-> d.size]
    OBVIOUS
  <1>2. k = Add(c, "MPU", e, d)
    BY <1>1 DEF InscribeMpu
  <1>3. e.memory = d.memory /\ e.size = d.size /\ e.alignment = d.alignment
    BY <1>1
  <1>4. e.alignment \in {32, 16, 8, 4, 2, 1}
    BY <1>3 DEF MpuCompiles, ToSet, Alignments
  <1>5. /\ Inscribes(c, k, d)
        /\ Len(c["MPU"]) \in Nat /\ Len(k["MPU"]) = Len(c["MPU"]) + 1
        /\ k["MPU"][Len(k["MPU"])].e = e
    <2>1. Inscribes(c, c, d)
      BY StartsEmpty
    <2>2. e.memory \in Memories /\ e.size \in Nat
      BY <1>3
    <2> QED
      BY <1>2, <1>4, <2>1, <2>2, BufferJoins
  <1> QED
    BY <1>3, <1>5 DEF Joins, MpuHolds

LEMMA TimerJoins ==
  ASSUME NEW c, Written(c), NEW d, IsList(d.pins), NEW k, k = InscribeTimer(c, d)
  PROVE  Inscribes(c, k, d)
  <1>1. PICK es : es = [i \in DOMAIN d.pins |-> TimerGpio(d.request, d.pins[i])]
    OBVIOUS
  <1>2. IsList(es)
    <2>1. Len(d.pins) \in Nat /\ DOMAIN d.pins = 1 .. Len(d.pins)
      BY ListIsAFunction
    <2>2. DOMAIN es = 1 .. Len(d.pins) /\ es = [i \in 1 .. Len(d.pins) |-> es[i]]
      BY <1>1, <2>1
    <2>3. Len(es) = Len(d.pins)
      BY <2>1, <2>2
    <2> QED
      BY <2>1, <2>2, <2>3, ListIsAFunction
  <1>3. PICK k1 : k1 = AddAll(c, "GPIO", es, d)
    OBVIOUS
  <1>4. PICK e : k = Add(k1, "TIM", e, d)
    BY <1>1, <1>3 DEF InscribeTimer
  <1>5. Inscribes(c, k1, d)
    BY <1>2, <1>3, StartsEmpty, PinsJoin
  <1>6. "TIM" \in Domains \ {"ADC", "DMA", "SPI", "DFSDM", "MPU"}
    BY DEF Domains
  <1> QED
    BY <1>4, <1>5, <1>6, EntryJoins

LEMMA EthJoins ==
  ASSUME NEW c, Written(c), NEW d, IsList(d.pins.rmii), NEW k, k = InscribeEthernet(c, d)
  PROVE  Joins(c, k, d, "Eth") /\ EthHolds(k, d, k["Eth"][Len(k["Eth"])].e)
  <1>1. PICK es : es = [i \in DOMAIN d.pins.rmii |-> RmiiGpio(d, i)]
    OBVIOUS
  <1>2. IsList(es)
    <2>1. PICK rmii : rmii = d.pins.rmii
      OBVIOUS
    <2>2. Len(rmii) \in Nat /\ DOMAIN rmii = 1 .. Len(rmii)
      BY <2>1, ListIsAFunction
    <2>3. DOMAIN es = 1 .. Len(rmii) /\ es = [i \in 1 .. Len(rmii) |-> es[i]]
      BY <1>1, <2>1, <2>2
    <2>4. Len(es) = Len(rmii)
      BY <2>2, <2>3
    <2> QED
      BY <2>2, <2>3, <2>4, ListIsAFunction
  <1>3. PICK k1 : k1 = AddAll(c, "GPIO", es, d)
    OBVIOUS
  <1>4. PICK k2 : k2 = InscribeDout(k1, d.pins.reset, d)
    OBVIOUS
  <1>5. PICK e : e = [reset |-> LastIndex(k2, "DOut")]
    OBVIOUS
  <1>6. k = Add(k2, "Eth", e, d)
    BY <1>1, <1>3, <1>4, <1>5 DEF InscribeEthernet
  <1>7. Inscribes(c, k1, d) /\ k1["Eth"] = c["Eth"]
    <2>1. "Eth" \in Domains \ {"GPIO"}
      BY DEF Domains
    <2>2. Inscribes(c, c, d)
      BY StartsEmpty
    <2>3. Inscribes(c, k1, d) /\ \A x \in Domains \ {"GPIO"} : k1[x] = c[x]
      BY <1>2, <1>3, <2>2, PinsJoin
    <2> QED
      BY <2>1, <2>3
  <1>8. /\ Inscribes(c, k2, d) /\ Len(k2["DOut"]) \in Nat \ {0}
        /\ Pinned(k2, k2["DOut"][Len(k2["DOut"])].e.gpio, d.pins.reset)
        /\ k2["Eth"] = k1["Eth"]
    <2>1. /\ Inscribes(c, k2, d) /\ Len(k1["DOut"]) \in Nat /\ Len(k2["DOut"]) = Len(k1["DOut"]) + 1
          /\ Pinned(k2, k2["DOut"][Len(k2["DOut"])].e.gpio, d.pins.reset)
          /\ \A x \in Domains \ {"GPIO", "DOut"} : k2[x] = k1[x]
      BY <1>4, <1>7, DoutJoins
    <2> QED
      BY <2>1 DEF Domains
  <1>9. /\ Inscribes(c, k, d)
        /\ Len(k2["Eth"]) \in Nat /\ Len(k["Eth"]) = Len(k2["Eth"]) + 1
        /\ k["Eth"][Len(k["Eth"])].e = e
        /\ k["DOut"] = k2["DOut"] /\ k["GPIO"] = k2["GPIO"]
    <2>1. "Eth" \in Domains \ {"ADC", "DMA", "SPI", "DFSDM", "MPU"}
      BY DEF Domains
    <2>2. /\ Inscribes(c, k, d)
          /\ Len(k2["Eth"]) \in Nat /\ Len(k["Eth"]) = Len(k2["Eth"]) + 1
          /\ k["Eth"][Len(k["Eth"])].e = e
          /\ \A x \in Domains \ {"Eth"} : k[x] = k2[x]
      BY <1>6, <1>8, <2>1, EntryJoins
    <2> QED
      BY <2>2 DEF Domains
  <1>10. e.reset = Len(k2["DOut"])
    BY <1>5 DEF LastIndex
  <1>11. EthHolds(k, d, e)
    BY <1>8, <1>9, <1>10 DEF EthHolds, Pinned
  <1> QED
    BY <1>7, <1>8, <1>9, <1>11 DEF Joins

LEMMA PacketJoins ==
  ASSUME NEW c, Written(c), NEW d, IsList(d.sizes), PacketBytes(d) \in Nat,
         NEW k, k = InscribeMdmaPacket(c, d)
  PROVE  Joins(c, k, d, "MdmaPacket") /\ PacketHolds(k, d, k["MdmaPacket"][Len(k["MdmaPacket"])].e)
  <1> DEFINE nc(align, size) == [memory |-> <<"D1", "NonCached">>, alignment |-> align,
                                 size |-> size]
  <1>1. PICK bytes, space : bytes = PacketBytes(d) /\ space = NodeBytes * PacketNodes(d)
    OBVIOUS
  <1>2. bytes \in Nat /\ space \in Nat
    <2>1. Len(d.sizes) \in Nat
      BY ListIsAFunction
    <2> QED
      BY <1>1, <2>1 DEF NodeBytes, PacketNodes
  <1>3. PICK e1, e2 : e1 = nc(1, bytes) /\ e2 = nc(8, space)
    OBVIOUS
  <1>4. /\ e1.memory \in Memories /\ e1.alignment \in {32, 16, 8, 4, 2, 1} /\ e1.size = bytes
        /\ e2.memory \in Memories /\ e2.alignment \in {32, 16, 8, 4, 2, 1} /\ e2.size = space
    BY <1>3 DEF Memories, MemoryDomains
  <1>5. PICK k1 : k1 = Add(c, "MPU", e1, d)
    OBVIOUS
  <1>6. PICK k2 : k2 = Add(k1, "MPU", e2, d)
    OBVIOUS
  <1>7. PICK e : e = [packet |-> LastIndex(k2, "MPU") - 1, nodes |-> LastIndex(k2, "MPU")]
    OBVIOUS
  <1>8. k = Add(k2, "MdmaPacket", e, d)
    BY <1>1, <1>3, <1>5, <1>6, <1>7 DEF InscribeMdmaPacket
  <1>9. "MdmaPacket" \in Domains \ {"ADC", "DMA", "SPI", "DFSDM", "MPU"}
        /\ "MdmaPacket" \in Domains \ {"MPU"} /\ "MPU" \in Domains \ {"MdmaPacket"}
    BY DEF Domains
  <1>10. /\ Inscribes(c, k1, d)
         /\ Len(c["MPU"]) \in Nat /\ Len(k1["MPU"]) = Len(c["MPU"]) + 1
         /\ k1["MPU"][Len(k1["MPU"])].e = e1
         /\ k1["MdmaPacket"] = c["MdmaPacket"]
    <2>1. Inscribes(c, c, d) /\ e1.size \in Nat
      BY <1>2, <1>4, StartsEmpty
    <2>2. /\ Inscribes(c, k1, d)
          /\ Len(c["MPU"]) \in Nat /\ Len(k1["MPU"]) = Len(c["MPU"]) + 1
          /\ k1["MPU"][Len(k1["MPU"])].e = e1
          /\ \A x \in Domains \ {"MPU"} : k1[x] = c[x]
      BY <1>4, <1>5, <2>1, BufferJoins
    <2> QED
      BY <1>9, <2>2
  <1>11. /\ Inscribes(c, k2, d)
         /\ Len(k2["MPU"]) = Len(k1["MPU"]) + 1
         /\ k2["MPU"][Len(k1["MPU"])] = k1["MPU"][Len(k1["MPU"])]
         /\ k2["MdmaPacket"] = k1["MdmaPacket"]
    <2>1. /\ Inscribes(c, k2, d)
          /\ Len(k2["MPU"]) = Len(k1["MPU"]) + 1
          /\ \A i \in 1 .. Len(k1["MPU"]) : k2["MPU"][i] = k1["MPU"][i]
          /\ \A x \in Domains \ {"MPU"} : k2[x] = k1[x]
      <3>1. e2.size \in Nat
        BY <1>2, <1>4
      <3> QED
        BY <1>4, <1>6, <1>10, <3>1, BufferJoins, SMTT(30)
    <2> QED
      BY <1>9, <1>10, <2>1
  <1>12. /\ Inscribes(c, k, d)
         /\ Len(k2["MdmaPacket"]) \in Nat /\ Len(k["MdmaPacket"]) = Len(k2["MdmaPacket"]) + 1
         /\ k["MdmaPacket"][Len(k["MdmaPacket"])].e = e
         /\ k["MPU"] = k2["MPU"]
    BY <1>8, <1>9, <1>11, EntryJoins
  <1>13. e.packet = Len(k1["MPU"]) /\ e.packet \in 1 .. Len(k["MPU"])
    BY <1>7, <1>10, <1>11, <1>12 DEF LastIndex
  <1>14. PacketHolds(k, d, e)
    BY <1>1, <1>4, <1>10, <1>11, <1>12, <1>13 DEF PacketHolds, BufferAt
  <1> QED
    BY <1>10, <1>11, <1>12, <1>14 DEF Joins

(* k is c with these streams for p after what c holds.                      *)
StreamList(streams) ==
  IsList(streams) /\ \A i \in 1 .. Len(streams) : streams[i] \in Streams \cup {none}
StreamsAdded(c, k, p, streams) ==
  /\ Len(c["DMA"]) \in Nat /\ Len(streams) \in Nat
  /\ Len(k["DMA"]) = Len(c["DMA"]) + Len(streams)
  /\ \A i \in 1 .. Len(streams) :
        k["DMA"][Len(c["DMA"]) + i].e = DmaEntry(p, streams[i], i - 1)
  /\ \A x \in Domains \ {"DMA"} : k[x] = c[x]

(* Streams join with their own interrupts.                                 *)
LEMMA StreamsJoin ==
  ASSUME NEW c, NEW o, Written(c), NEW streams, StreamList(streams),
         NEW p, NEW k, k = InscribeDma(c, p, streams, o)
  PROVE  Inscribes(c, k, o) /\ StreamsAdded(c, k, p, streams)
  <1>0. IsList(streams) /\ \A i \in 1 .. Len(streams) : streams[i] \in Streams \cup {none}
    BY DEF StreamList
  <1>1. PICK es : es = [i \in DOMAIN streams |-> DmaEntry(p, streams[i], i - 1)]
    OBVIOUS
  <1>2. Len(streams) \in Nat /\ DOMAIN streams = 1 .. Len(streams)
    BY <1>0, ListIsAFunction
  <1>3. IsList(es) /\ Len(es) = Len(streams)
    <2>1. DOMAIN es = 1 .. Len(streams) /\ es = [i \in 1 .. Len(streams) |-> es[i]]
      BY <1>1, <1>2
    <2>2. Len(es) = Len(streams)
      BY <1>2, <2>1
    <2> QED
      BY <1>2, <2>1, <2>2, ListIsAFunction
  <1>4. k = AddAll(c, "DMA", es, o)
    BY <1>1 DEF InscribeDma
  <1>5. /\ Grows(c, k, o)
        /\ Len(c["DMA"]) \in Nat /\ Len(k["DMA"]) = Len(c["DMA"]) + Len(es)
        /\ \A i \in 1 .. Len(es) : k["DMA"][Len(c["DMA"]) + i].e = es[i]
        /\ \A i \in 1 .. Len(c["DMA"]) : k["DMA"][i] = c["DMA"][i]
        /\ \A x \in Domains \ {"DMA"} : k[x] = c[x]
    <2>1. Grows(c, c, o) /\ "DMA" \in Domains
      BY GrowsWithEach DEF Domains
    <2>2. IsList(es)
      BY <1>3
    <2>3. Grows(c, k, o)
      BY <1>4, <2>1, <2>2, MoreEntries
    <2>4. Len(c["DMA"]) \in Nat /\ Len(k["DMA"]) = Len(c["DMA"]) + Len(es)
      BY <1>4, <2>1, <2>2, MoreEntries
    <2>5. /\ \A i \in 1 .. Len(es) : k["DMA"][Len(c["DMA"]) + i].e = es[i]
          /\ \A i \in 1 .. Len(c["DMA"]) : k["DMA"][i] = c["DMA"][i]
          /\ \A x \in Domains \ {"DMA"} : k[x] = c[x]
      BY <1>4, <2>1, <2>2, MoreEntries
    <2> QED
      BY <2>3, <2>4, <2>5
  <1>6. \A i \in 1 .. Len(streams) :
           /\ k["DMA"][Len(c["DMA"]) + i].e = DmaEntry(p, streams[i], i - 1)
           /\ k["DMA"][Len(c["DMA"]) + i].e.stream = streams[i]
           /\ k["DMA"][Len(c["DMA"]) + i].e.irqn = streams[i]
    <2> TAKE i \in 1 .. Len(streams)
    <2>1. es[i] = DmaEntry(p, streams[i], i - 1)
      BY <1>1, <1>2
    <2>2. es[i].stream = streams[i] /\ es[i].irqn = streams[i]
      BY <2>1 DEF DmaEntry, Irqn
    <2> QED
      BY <1>3, <1>5, <2>1, <2>2
  <1>7. DmaOK(c["DMA"]) => DmaOK(k["DMA"])
    <2> SUFFICES ASSUME DmaOK(c["DMA"]), NEW i \in 1 .. Len(k["DMA"])
                 PROVE  /\ k["DMA"][i].e.stream \in Streams \cup {none}
                        /\ k["DMA"][i].e.irqn = k["DMA"][i].e.stream
      BY DEF DmaOK
    <2>1. CASE i <= Len(c["DMA"])
      <3>1. i \in 1 .. Len(c["DMA"]) /\ k["DMA"][i] = c["DMA"][i]
        BY <1>5, <2>1
      <3> QED
        BY <3>1 DEF DmaOK
    <2>2. CASE i > Len(c["DMA"])
      <3>1. PICK j \in 1 .. Len(streams) : i = Len(c["DMA"]) + j
        <4>1. i - Len(c["DMA"]) \in 1 .. Len(streams) /\ i = Len(c["DMA"]) + (i - Len(c["DMA"]))
          BY <1>2, <1>3, <1>5, <2>2
        <4> QED
          BY <4>1
      <3> QED
        BY <1>0, <1>6, <3>1
    <2> QED
      BY <1>5, <2>1, <2>2
  <1>8. SpiOK(c["SPI"], Len(c["DMA"])) => SpiOK(c["SPI"], Len(k["DMA"]))
    <2>1. PICK m, n, s : m = Len(c["DMA"]) /\ n = Len(k["DMA"]) /\ s = c["SPI"]
      OBVIOUS
    <2>2. m \in Nat /\ n \in Nat /\ m <= n
      BY <1>2, <1>3, <1>5, <2>1
    <2>3. \A v \in 1 .. m : v \in 1 .. n
      BY <2>2
    <2>4. SpiOK(s, m) => SpiOK(s, n)
      BY <2>3 DEF SpiOK
    <2> QED
      BY <2>1, <2>4
  <1>9. k["SPI"] = c["SPI"] /\ k["DFSDM"] = c["DFSDM"] /\ k["ADC"] = c["ADC"] /\ k["MPU"] = c["MPU"]
    BY <1>5 DEF Domains
  <1>10. EntriesOK(c) => EntriesOK(k)
    BY <1>7, <1>8, <1>9 DEF EntriesOK
  <1>11. StreamsAdded(c, k, p, streams)
    BY <1>2, <1>3, <1>5, <1>6 DEF StreamsAdded
  <1> QED
    BY <1>5, <1>10, <1>11 DEF Inscribes

LEMMA DmaJoins ==
  ASSUME NEW c, Written(c), NEW d, d.streams \in Seq(Streams \cup {none}),
         NEW k, k = InscribeDma(c, d.instance, d.streams, d)
  PROVE  Inscribes(c, k, d)
  <1>1. PICK streams, p : streams = d.streams /\ p = d.instance
    OBVIOUS
  <1>2. streams \in Seq(Streams \cup {none})
    BY <1>1
  <1>3. Len(streams) \in Nat /\ streams = [i \in 1 .. Len(streams) |-> streams[i]]
        /\ \A i \in 1 .. Len(streams) : streams[i] \in Streams \cup {none}
    BY <1>2
  <1>4. StreamList(streams)
    BY <1>3, ListIsAFunction DEF StreamList
  <1>5. k = InscribeDma(c, p, streams, d)
    BY <1>1
  <1> QED
    BY <1>4, <1>5, StreamsJoin

LEMMA SpiJoins ==
  ASSUME NEW c, Written(c), NEW d, d.peripheral \in SpiPeripherals,
         d.streams \in [1 .. 2 -> Streams \cup {none}], NEW k, k = InscribeSpi(c, d)
  PROVE  Joins(c, k, d, "SPI") /\ SpiHolds(k, d, k["SPI"][Len(k["SPI"])].e)
  <1>1. PICK p, streams : p = d.peripheral /\ streams = d.streams
    OBVIOUS
  <1>2. /\ Len(streams) = 2 /\ IsList(streams)
        /\ \A i \in 1 .. Len(streams) : streams[i] \in Streams \cup {none}
    <2>1. streams \in [1 .. 2 -> Streams \cup {none}]
      BY <1>1
    <2>2. Len(streams) = 2
      BY <2>1
    <2>3. streams = [i \in 1 .. Len(streams) |-> streams[i]]
      BY <2>1, <2>2
    <2> QED
      BY <2>1, <2>2, <2>3, ListIsAFunction
  <1>3. PICK c1 : c1 = InscribeDma(c, p, streams, d)
    OBVIOUS
  <1>4. PICK c2 : c2 = IF d.nss = NoPin THEN c1 ELSE Add(c1, "GPIO", SpiGpio(d.nss, p), d)
    OBVIOUS
  <1>5. PICK c3 : c3 = Add(c2, "GPIO", SpiGpio(d.sck, p), d)
    OBVIOUS
  <1>6. PICK c4 : c4 = Add(c3, "GPIO", SpiGpio(d.miso, p), d)
    OBVIOUS
  <1>7. PICK c5 : c5 = Add(c4, "GPIO", SpiGpio(d.mosi, p), d)
    OBVIOUS
  <1>8. PICK n, m : n = LastIndex(c5, "GPIO") /\ m = LastIndex(c1, "DMA")
    OBVIOUS
  <1>9. PICK e : e = [peripheral |-> p, mode |-> d.mode, baudrate |-> d.baudrate,
                      config |-> d.config,
                      nss |-> IF d.nss = NoPin THEN 0 ELSE n - 3,
                      sck |-> n - 2, miso |-> n - 1, mosi |-> n,
                      rx |-> m - 1, tx |-> m]
    OBVIOUS
  <1>10. k = Add(c5, "SPI", e, d)
    BY <1>1, <1>3, <1>4, <1>5, <1>6, <1>7, <1>8, <1>9 DEF InscribeSpi
  <1>11. "GPIO" \in Domains \ {"ADC", "DMA", "SPI", "DFSDM", "MPU"} /\ "SPI" \in Domains
         /\ "DMA" \in Domains \ {"GPIO"} /\ "SPI" \in Domains \ {"GPIO"} /\ "SPI" \in Domains \ {"DMA"}
         /\ {"GPIO", "DMA", "ADC", "DFSDM", "MPU"} \subseteq Domains \ {"SPI"}
    BY DEF Domains
  <1>12. /\ Inscribes(c, c1, d) /\ c1["SPI"] = c["SPI"]
         /\ Len(c["DMA"]) \in Nat /\ Len(c1["DMA"]) = Len(c["DMA"]) + 2
         /\ c1["DMA"][Len(c["DMA"]) + 1].e = DmaEntry(p, streams[1], 0)
         /\ c1["DMA"][Len(c["DMA"]) + 2].e = DmaEntry(p, streams[2], 1)
    <2>1. /\ Inscribes(c, c1, d)
          /\ Len(c["DMA"]) \in Nat /\ Len(c1["DMA"]) = Len(c["DMA"]) + Len(streams)
          /\ \A i \in 1 .. Len(streams) :
                c1["DMA"][Len(c["DMA"]) + i].e = DmaEntry(p, streams[i], i - 1)
          /\ \A x \in Domains \ {"DMA"} : c1[x] = c[x]
      <3>1. StreamList(streams)
        BY <1>2 DEF StreamList
      <3>2. Inscribes(c, c1, d) /\ StreamsAdded(c, c1, p, streams)
        BY <1>3, <3>1, StreamsJoin
      <3> QED
        BY <3>2 DEF StreamsAdded
    <2>2. 1 \in 1 .. Len(streams) /\ 2 \in 1 .. Len(streams) /\ 1 - 1 = 0 /\ 2 - 1 = 1
      BY <1>2
    <2> QED
      BY <1>2, <1>11, <2>1, <2>2
  <1>13. \A pin : LET g == SpiGpio(pin, p)
                  IN  g.pin = pin /\ g.mode \in Alternates /\ g.af = SpiAf(pin, p)
    BY DEF SpiGpio, Gpio, Alternates
  <1>14. /\ Inscribes(c, c2, d) /\ c2["DMA"] = c1["DMA"] /\ c2["SPI"] = c1["SPI"]
         /\ d.nss # NoPin => Len(c2["GPIO"]) \in Nat \ {0} /\ c2["GPIO"][Len(c2["GPIO"])].e = SpiGpio(d.nss, p)
    <2>1. CASE d.nss = NoPin
      BY <1>4, <1>12, <2>1
    <2>2. CASE d.nss # NoPin
      <3>1. c2 = Add(c1, "GPIO", SpiGpio(d.nss, p), d)
        BY <1>4, <2>2
      <3>2. /\ Inscribes(c, c2, d)
            /\ Len(c1["GPIO"]) \in Nat /\ Len(c2["GPIO"]) = Len(c1["GPIO"]) + 1
            /\ c2["GPIO"][Len(c2["GPIO"])].e = SpiGpio(d.nss, p)
            /\ \A x \in Domains \ {"GPIO"} : c2[x] = c1[x]
        BY <1>11, <1>12, <3>1, EntryJoins
      <3> QED
        BY <1>11, <3>2
    <2> QED
      BY <2>1, <2>2
  <1>15. /\ Inscribes(c, c3, d) /\ c3["DMA"] = c1["DMA"] /\ c3["SPI"] = c1["SPI"]
         /\ Len(c2["GPIO"]) \in Nat /\ Len(c3["GPIO"]) = Len(c2["GPIO"]) + 1
         /\ c3["GPIO"][Len(c3["GPIO"])].e = SpiGpio(d.sck, p)
         /\ \A i \in 1 .. Len(c2["GPIO"]) : c3["GPIO"][i] = c2["GPIO"][i]
    <2>1. /\ Inscribes(c, c3, d)
          /\ Len(c2["GPIO"]) \in Nat /\ Len(c3["GPIO"]) = Len(c2["GPIO"]) + 1
          /\ c3["GPIO"][Len(c3["GPIO"])].e = SpiGpio(d.sck, p)
          /\ \A i \in 1 .. Len(c2["GPIO"]) : c3["GPIO"][i] = c2["GPIO"][i]
          /\ \A x \in Domains \ {"GPIO"} : c3[x] = c2[x]
      BY <1>5, <1>11, <1>14, EntryJoins
    <2> QED
      BY <1>11, <1>14, <2>1
  <1>16. /\ Inscribes(c, c4, d) /\ c4["DMA"] = c1["DMA"] /\ c4["SPI"] = c1["SPI"]
         /\ Len(c4["GPIO"]) = Len(c3["GPIO"]) + 1
         /\ c4["GPIO"][Len(c4["GPIO"])].e = SpiGpio(d.miso, p)
         /\ \A i \in 1 .. Len(c3["GPIO"]) : c4["GPIO"][i] = c3["GPIO"][i]
    <2>1. /\ Inscribes(c, c4, d)
          /\ Len(c4["GPIO"]) = Len(c3["GPIO"]) + 1
          /\ c4["GPIO"][Len(c4["GPIO"])].e = SpiGpio(d.miso, p)
          /\ \A i \in 1 .. Len(c3["GPIO"]) : c4["GPIO"][i] = c3["GPIO"][i]
          /\ \A x \in Domains \ {"GPIO"} : c4[x] = c3[x]
      BY <1>6, <1>11, <1>15, EntryJoins, SMTT(30)
    <2> QED
      BY <1>11, <1>15, <2>1
  <1>17. /\ Inscribes(c, c5, d) /\ c5["DMA"] = c1["DMA"] /\ c5["SPI"] = c1["SPI"]
         /\ Len(c5["GPIO"]) = Len(c4["GPIO"]) + 1
         /\ c5["GPIO"][Len(c5["GPIO"])].e = SpiGpio(d.mosi, p)
         /\ \A i \in 1 .. Len(c4["GPIO"]) : c5["GPIO"][i] = c4["GPIO"][i]
    <2>1. /\ Inscribes(c, c5, d)
          /\ Len(c5["GPIO"]) = Len(c4["GPIO"]) + 1
          /\ c5["GPIO"][Len(c5["GPIO"])].e = SpiGpio(d.mosi, p)
          /\ \A i \in 1 .. Len(c4["GPIO"]) : c5["GPIO"][i] = c4["GPIO"][i]
          /\ \A x \in Domains \ {"GPIO"} : c5[x] = c4[x]
      <3>1. "GPIO" \in Domains \ {"ADC", "DMA", "SPI", "DFSDM", "MPU"}
        BY <1>11
      <3>2. Inscribes(c, c4, d)
        BY <1>16
      <3>3. PICK g : g = SpiGpio(d.mosi, p)
        OBVIOUS
      <3>4. c5 = Add(c4, "GPIO", g, d)
        BY <1>7, <3>3
      <3> QED
        BY <3>1, <3>2, <3>3, <3>4, EntryJoins
    <2> QED
      BY <1>11, <1>16, <2>1
  <1>18. /\ Grows(c, k, d)
         /\ Len(c5["SPI"]) \in Nat /\ Len(k["SPI"]) = Len(c5["SPI"]) + 1
         /\ k["SPI"][Len(c5["SPI"]) + 1].e = e
         /\ \A i \in 1 .. Len(c5["SPI"]) : k["SPI"][i] = c5["SPI"][i]
         /\ \A x \in Domains \ {"SPI"} : k[x] = c5[x]
    <2>1. Grows(c, c5, d)
      BY <1>17 DEF Inscribes
    <2> QED
      BY <1>10, <1>11, <2>1, OneMoreEntry
  <1>19. /\ k["GPIO"] = c5["GPIO"] /\ k["DMA"] = c1["DMA"] /\ k["ADC"] = c5["ADC"]
         /\ k["DFSDM"] = c5["DFSDM"] /\ k["MPU"] = c5["MPU"]
    BY <1>11, <1>17, <1>18
  <1>20. /\ n \in Nat /\ n = Len(k["GPIO"]) /\ n - 3 = Len(c2["GPIO"])
         /\ n - 2 = Len(c3["GPIO"]) /\ n - 1 = Len(c4["GPIO"])
         /\ n - 2 \in 1 .. n /\ n - 1 \in 1 .. n /\ n \in 1 .. n
    BY <1>8, <1>15, <1>16, <1>17, <1>19 DEF LastIndex
  <1>21. /\ k["GPIO"][n].e = SpiGpio(d.mosi, p)
         /\ k["GPIO"][n - 1].e = SpiGpio(d.miso, p)
         /\ k["GPIO"][n - 2].e = SpiGpio(d.sck, p)
         /\ d.nss # NoPin => n - 3 \in 1 .. n /\ k["GPIO"][n - 3].e = SpiGpio(d.nss, p)
    <2>1. k["GPIO"][n].e = SpiGpio(d.mosi, p)
      BY <1>17, <1>19, <1>20
    <2>2. k["GPIO"][n - 1] = c4["GPIO"][n - 1]
      BY <1>15, <1>16, <1>17, <1>19, <1>20
    <2>3. k["GPIO"][n - 2] = c3["GPIO"][n - 2]
      <3>1. n - 2 \in 1 .. Len(c3["GPIO"]) /\ n - 2 \in 1 .. Len(c4["GPIO"])
        BY <1>15, <1>16, <1>20
      <3> QED
        BY <1>16, <1>17, <1>19, <3>1
    <2>4. ASSUME d.nss # NoPin PROVE n - 3 \in 1 .. n /\ k["GPIO"][n - 3] = c2["GPIO"][n - 3]
      <3>1. /\ n - 3 \in 1 .. Len(c2["GPIO"]) /\ n - 3 \in 1 .. Len(c3["GPIO"])
            /\ n - 3 \in 1 .. Len(c4["GPIO"]) /\ n - 3 \in 1 .. n
        <4>1. n \in Nat /\ n - 3 \in Nat \ {0}
          BY <1>14, <1>20, <2>4
        <4>2. n - 3 \in 1 .. n - 3 /\ n - 3 \in 1 .. n - 2 /\ n - 3 \in 1 .. n - 1 /\ n - 3 \in 1 .. n
          BY <4>1
        <4> QED
          BY <1>20, <4>2
      <3> QED
        BY <1>15, <1>16, <1>17, <1>19, <3>1
    <2> QED
      BY <1>14, <1>15, <1>16, <1>20, <2>1, <2>2, <2>3, <2>4
  <1>22. /\ e.sck = n - 2 /\ e.miso = n - 1 /\ e.mosi = n /\ (d.nss # NoPin => e.nss = n - 3)
         /\ e.rx = m - 1 /\ e.tx = m /\ e.peripheral = p
    BY <1>9
  <1>23. m \in Nat /\ m = Len(k["DMA"]) /\ m = Len(c["DMA"]) + 2 /\ m - 1 = Len(c["DMA"]) + 1
    BY <1>8, <1>12, <1>19 DEF LastIndex
  <1>24. SpiHolds(k, d, e)
    <2>1. /\ Driven(k, e.sck, d.sck, SpiAf(d.sck, d.peripheral))
          /\ Driven(k, e.miso, d.miso, SpiAf(d.miso, d.peripheral))
          /\ Pinned(k, e.mosi, d.mosi)
          /\ d.nss # NoPin => Pinned(k, e.nss, d.nss)
      BY <1>1, <1>13, <1>20, <1>21, <1>22, SMTT(30) DEF Driven, Pinned
    <2>2. /\ StreamAt(k, e.rx, DmaEntry(d.peripheral, d.streams[1], 0))
          /\ StreamAt(k, e.tx, DmaEntry(d.peripheral, d.streams[2], 1))
      <3>1. e.rx \in 1 .. Len(k["DMA"]) /\ e.tx \in 1 .. Len(k["DMA"])
        BY <1>12, <1>22, <1>23
      <3> QED
        BY <1>1, <1>12, <1>19, <1>22, <1>23, <3>1 DEF StreamAt
    <2> QED
      BY <2>1, <2>2 DEF SpiHolds
  <1>25. SpiOK(c["SPI"], Len(c["DMA"])) => SpiOK(k["SPI"], Len(k["DMA"]))
    <2> SUFFICES ASSUME SpiOK(c["SPI"], Len(c["DMA"])) PROVE SpiOK(k["SPI"], Len(k["DMA"]))
      OBVIOUS
    <2>1. PICK s, t, b, j : s = c["SPI"] /\ t = k["SPI"] /\ b = Len(c["DMA"]) /\ j = Len(c["SPI"])
      OBVIOUS
    <2>2. b \in Nat /\ m = b + 2 /\ j \in Nat /\ SpiOK(s, b) /\ Len(s) = j /\ Len(t) = j + 1
      BY <1>12, <1>17, <1>18, <1>23, <2>1
    <2>3. t[j + 1].e = e /\ \A i \in 1 .. j : t[i] = s[i]
      BY <1>12, <1>17, <1>18, <2>1
    <2>4. \A i \in 1 .. j + 1 : i = j + 1 \/ i \in 1 .. j
      BY <2>2
    <2>5. \A i \in 1 .. j : /\ t[i].e.peripheral \in SpiPeripherals
                            /\ t[i].e.rx \in 1 .. b /\ t[i].e.tx \in 1 .. b /\ t[i].e.rx # t[i].e.tx
      BY <2>2, <2>3 DEF SpiOK
    <2>6. \A i \in 1 .. j : t[i].e.rx \in 1 .. m /\ t[i].e.tx \in 1 .. m
                            /\ t[i].e.rx \notin {e.rx, e.tx} /\ t[i].e.tx \notin {e.rx, e.tx}
      BY <1>22, <2>2, <2>5
    <2>7. e.peripheral \in SpiPeripherals /\ e.rx \in 1 .. m /\ e.tx \in 1 .. m /\ e.rx # e.tx
      BY <1>1, <1>22, <2>2
    <2>8. \A i, l \in 1 .. j : i # l => Uses2(t[i].e) \cap Uses2(t[l].e) = {}
      BY <2>2, <2>3 DEF SpiOK
    <2>9. \A i, l \in 1 .. j + 1 : i # l => Uses2(t[i].e) \cap Uses2(t[l].e) = {}
      <3> SUFFICES ASSUME NEW i \in 1 .. j + 1, NEW l \in 1 .. j + 1, i # l
                   PROVE  Uses2(t[i].e) \cap Uses2(t[l].e) = {}
        OBVIOUS
      <3>1. CASE i \in 1 .. j /\ l \in 1 .. j
        BY <2>8, <3>1
      <3>2. CASE i = j + 1 /\ l \in 1 .. j
        BY <2>3, <2>6, <3>2 DEF Uses2
      <3>3. CASE l = j + 1 /\ i \in 1 .. j
        BY <2>3, <2>6, <3>3 DEF Uses2
      <3> QED
        BY <2>4, <3>1, <3>2, <3>3
    <2>10. \A i \in 1 .. j + 1 : /\ t[i].e.peripheral \in SpiPeripherals
                                 /\ t[i].e.rx \in 1 .. m /\ t[i].e.tx \in 1 .. m
                                 /\ t[i].e.rx # t[i].e.tx
      BY <2>3, <2>4, <2>5, <2>6, <2>7
    <2>11. SpiOK(t, m)
      BY <2>2, <2>9, <2>10 DEF SpiOK
    <2> QED
      BY <1>23, <2>1, <2>11
  <1>26. EntriesOK(c) => EntriesOK(k)
    <2>1. EntriesOK(c) => EntriesOK(c5)
      BY <1>17 DEF Inscribes
    <2> QED
      BY <1>17, <1>19, <1>25, <2>1 DEF EntriesOK
  <1> QED
    BY <1>12, <1>17, <1>18, <1>24, <1>26 DEF Joins, Inscribes

LEMMA InscribesOn ==
  ASSUME NEW c, NEW b, NEW k, NEW o, Written(c), Inscribes(c, b, o), Inscribes(b, k, o)
  PROVE  Inscribes(c, k, o)
  <1>1. Grows(c, b, o) /\ Grows(b, k, o)
    BY DEF Inscribes
  <1>2. Written(b) /\ Written(k)
    BY <1>1 DEF Grows
  <1>3. ASSUME NEW x \in Domains
        PROVE  /\ Len(c[x]) <= Len(k[x])
               /\ \A i \in 1 .. Len(c[x]) : k[x][i] = c[x][i]
               /\ \A i \in Len(c[x]) + 1 .. Len(k[x]) : k[x][i].owner = o
    <2>1. Len(c[x]) \in Nat /\ Len(b[x]) \in Nat /\ Len(k[x]) \in Nat
      BY <1>2, ListIsAFunction DEF Written
    <2>2. /\ Len(c[x]) <= Len(b[x]) /\ Len(b[x]) <= Len(k[x])
          /\ \A i \in 1 .. Len(c[x]) : b[x][i] = c[x][i]
          /\ \A i \in 1 .. Len(b[x]) : k[x][i] = b[x][i]
          /\ \A i \in Len(c[x]) + 1 .. Len(b[x]) : b[x][i].owner = o
          /\ \A i \in Len(b[x]) + 1 .. Len(k[x]) : k[x][i].owner = o
      BY <1>1 DEF Grows
    <2>3. \A i \in 1 .. Len(c[x]) : k[x][i] = c[x][i]
      BY <2>1, <2>2
    <2>4. \A i \in Len(c[x]) + 1 .. Len(k[x]) : k[x][i].owner = o
      <3> TAKE i \in Len(c[x]) + 1 .. Len(k[x])
      <3>1. CASE i <= Len(b[x])
        <4>1. i \in 1 .. Len(b[x]) /\ i \in Len(c[x]) + 1 .. Len(b[x])
          BY <2>1, <3>1
        <4> QED
          BY <2>2, <4>1
      <3>2. CASE i > Len(b[x])
        <4>1. i \in Len(b[x]) + 1 .. Len(k[x])
          BY <2>1, <3>2
        <4> QED
          BY <2>2, <4>1
      <3> QED
        BY <2>1, <3>1, <3>2
    <2> QED
      BY <2>1, <2>2, <2>3, <2>4
  <1>4. Grows(c, k, o)
    BY <1>2, <1>3 DEF Grows
  <1> QED
    BY <1>4 DEF Inscribes

(* A card adds the inputs it has.                                          *)
WithInput(b, pin, d) == IF pin = <<>> THEN b ELSE InscribeDin(b, pin, d)
LEMMA CardInputJoins ==
  ASSUME NEW b, Written(b), NEW d, NEW pin, NEW k, k = WithInput(b, pin, d)
  PROVE  /\ Inscribes(b, k, d)
         /\ pin # <<>> => InputAt(k, LastIndex(k, "DIn"), pin)
         /\ \A x \in Domains \ {"GPIO", "DIn"} : k[x] = b[x]
  <1>1. Inscribes(b, b, d)
    BY StartsEmpty
  <1>2. CASE pin = <<>>
    <2>1. k = b
      BY <1>2 DEF WithInput
    <2> QED
      BY <1>1, <1>2, <2>1
  <1>3. CASE pin # <<>>
    <2>1. k = InscribeDin(b, pin, d)
      BY <1>3 DEF WithInput
    <2>2. /\ Inscribes(b, k, d) /\ Len(b["DIn"]) \in Nat /\ Len(k["DIn"]) = Len(b["DIn"]) + 1
          /\ Pinned(k, k["DIn"][Len(k["DIn"])].e.gpio, pin)
          /\ \A x \in Domains \ {"GPIO", "DIn"} : k[x] = b[x]
      BY <1>1, <2>1, DinJoins
    <2> QED
      BY <2>2 DEF InputAt, LastIndex
  <1> QED
    BY <1>2, <1>3

LEMMA SdJoins ==
  ASSUME NEW c, Written(c), NEW d, SdCompiles(d), NEW k, k = InscribeSd(c, d)
  PROVE  Joins(c, k, d, "Sd") /\ SdHolds(k, d, k["Sd"][Len(k["Sd"])].e)
  <1>1. PICK size : size = 512 * d.blocks
    OBVIOUS
  <1>2. d.blocks \in 1 .. 15 /\ size \in Nat
    <2>1. d.blocks \in 1 .. 15
      BY DEF SdCompiles
    <2> QED
      BY <1>1, <2>1
  <1>3. PICK e1 : e1 = SdBuffer(d)
    OBVIOUS
  <1>4. /\ e1.memory = <<"D1", "NonCached">> /\ e1.memory \in Memories
        /\ e1.alignment \in {32, 16, 8, 4, 2, 1} /\ e1.size = size
    BY <1>1, <1>3 DEF SdBuffer, Memories, MemoryDomains
  <1>5. PICK c0 : c0 = Add(c, "MPU", e1, d)
    OBVIOUS
  <1>6. PICK c1 : c1 = Add(c0, "MPU", e1, d)
    OBVIOUS
  <1>7. PICK c2 : c2 = IF d.cd = <<>> THEN c1 ELSE InscribeDin(c1, d.cd, d)
    OBVIOUS
  <1>8. PICK c3 : c3 = IF d.wp = <<>> THEN c2 ELSE InscribeDin(c2, d.wp, d)
    OBVIOUS
  <1>9. PICK es : es = [i \in 1 .. 6 |-> SdGpio(d, i)]
    OBVIOUS
  <1>10. PICK c4 : c4 = AddAll(c3, "GPIO", es, d)
    OBVIOUS
  <1>11. PICK n : n = LastIndex(c4, "GPIO")
    OBVIOUS
  <1>12. PICK e : e = [peripheral |-> d.peripheral,
                       buffers |-> <<LastIndex(c1, "MPU") - 1, LastIndex(c1, "MPU")>>,
                       cd |-> IF d.cd = <<>> THEN 0 ELSE LastIndex(c2, "DIn"),
                       wp |-> IF d.wp = <<>> THEN 0 ELSE LastIndex(c3, "DIn"),
                       lines |-> <<n - 5, n - 4, n - 3, n - 2, n - 1, n>>]
    OBVIOUS
  <1>13. k = Add(c4, "Sd", e, d)
    BY <1>3, <1>5, <1>6, <1>7, <1>8, <1>9, <1>10, <1>11, <1>12 DEF InscribeSd
  <1>14. /\ "MPU" \in Domains \ {"GPIO", "DIn"} /\ "MPU" \in Domains \ {"GPIO"}
         /\ "MPU" \in Domains \ {"Sd"} /\ "GPIO" \in Domains \ {"Sd"}
         /\ "Sd" \in Domains \ {"ADC", "DMA", "SPI", "DFSDM", "MPU"}
         /\ "Sd" \in Domains \ {"MPU"} /\ "Sd" \in Domains \ {"GPIO"}
         /\ "Sd" \in Domains \ {"GPIO", "DIn"}
    BY DEF Domains
  <1>15. /\ Inscribes(c, c0, d)
         /\ Len(c["MPU"]) \in Nat /\ Len(c0["MPU"]) = Len(c["MPU"]) + 1
         /\ c0["MPU"][Len(c0["MPU"])].e = e1
         /\ \A x \in Domains \ {"MPU"} : c0[x] = c[x]
    <2>1. Inscribes(c, c, d)
      BY StartsEmpty
    <2>2. e1.memory \in Memories /\ e1.alignment \in {32, 16, 8, 4, 2, 1} /\ e1.size \in Nat
      BY <1>2, <1>4
    <2> QED
      BY <1>5, <2>1, <2>2, BufferJoins
  <1>16. /\ Inscribes(c, c1, d)
         /\ Len(c1["MPU"]) = Len(c0["MPU"]) + 1
         /\ c1["MPU"][Len(c1["MPU"])].e = e1
         /\ \A i \in 1 .. Len(c0["MPU"]) : c1["MPU"][i] = c0["MPU"][i]
         /\ \A x \in Domains \ {"MPU"} : c1[x] = c0[x]
    <2>1. e1.memory \in Memories /\ e1.alignment \in {32, 16, 8, 4, 2, 1} /\ e1.size \in Nat
      BY <1>2, <1>4
    <2>2. Inscribes(c, c0, d)
      BY <1>15
    <2> QED
      BY <1>6, <2>1, <2>2, BufferJoins
  <1>17. /\ Inscribes(c1, c2, d)
         /\ d.cd # <<>> => InputAt(c2, LastIndex(c2, "DIn"), d.cd)
         /\ \A x \in Domains \ {"GPIO", "DIn"} : c2[x] = c1[x]
    <2>1. Written(c1)
      BY <1>16 DEF Inscribes, Grows
    <2>2. PICK pin : pin = d.cd
      OBVIOUS
    <2>3. c2 = WithInput(c1, pin, d)
      BY <1>7, <2>2 DEF WithInput
    <2>4. /\ Inscribes(c1, c2, d)
          /\ pin # <<>> => InputAt(c2, LastIndex(c2, "DIn"), pin)
          /\ \A x \in Domains \ {"GPIO", "DIn"} : c2[x] = c1[x]
      BY <2>1, <2>3, CardInputJoins
    <2> QED
      BY <2>2, <2>4
  <1>18. /\ Inscribes(c2, c3, d)
         /\ d.wp # <<>> => InputAt(c3, LastIndex(c3, "DIn"), d.wp)
         /\ \A x \in Domains \ {"GPIO", "DIn"} : c3[x] = c2[x]
    <2>1. Written(c2)
      BY <1>17 DEF Inscribes, Grows
    <2>2. PICK pin : pin = d.wp
      OBVIOUS
    <2>3. c3 = WithInput(c2, pin, d)
      BY <1>8, <2>2 DEF WithInput
    <2>4. /\ Inscribes(c2, c3, d)
          /\ pin # <<>> => InputAt(c3, LastIndex(c3, "DIn"), pin)
          /\ \A x \in Domains \ {"GPIO", "DIn"} : c3[x] = c2[x]
      BY <2>1, <2>3, CardInputJoins
    <2> QED
      BY <2>2, <2>4
  <1>19. Written(c1) /\ Written(c2) /\ Written(c3)
    BY <1>16, <1>17, <1>18 DEF Inscribes, Grows
  <1>20. /\ Inscribes(c3, c4, d)
         /\ Len(c3["GPIO"]) \in Nat /\ Len(c4["GPIO"]) = Len(c3["GPIO"]) + 6
         /\ \A i \in 1 .. 6 : c4["GPIO"][Len(c3["GPIO"]) + i].e = SdGpio(d, i)
         /\ \A x \in Domains \ {"GPIO"} : c4[x] = c3[x]
    <2>1. Len(es) = 6 /\ IsList(es)
      <3>1. Len(es) = 6
        BY <1>9
      <3>2. es = [i \in 1 .. Len(es) |-> es[i]]
        BY <1>9, <3>1
      <3> QED
        BY <3>1, <3>2, ListIsAFunction
    <2>2. Inscribes(c3, c3, d)
      BY <1>19, StartsEmpty
    <2>3. /\ Inscribes(c3, c4, d)
          /\ Len(c3["GPIO"]) \in Nat /\ Len(c4["GPIO"]) = Len(c3["GPIO"]) + Len(es)
          /\ \A i \in 1 .. Len(es) : c4["GPIO"][Len(c3["GPIO"]) + i].e = es[i]
          /\ \A x \in Domains \ {"GPIO"} : c4[x] = c3[x]
      <3>1. IsList(es) /\ Written(c3)
        BY <1>19, <2>1
      <3> QED
        BY <1>10, <2>2, <3>1, PinsJoin
    <2> QED
      BY <1>9, <2>1, <2>3
  <1>21. /\ Inscribes(c4, k, d) /\ Written(c4)
         /\ Len(c4["Sd"]) \in Nat /\ Len(k["Sd"]) = Len(c4["Sd"]) + 1
         /\ k["Sd"][Len(k["Sd"])].e = e
         /\ \A x \in Domains \ {"Sd"} : k[x] = c4[x]
    <2>1. Written(c4)
      BY <1>20 DEF Inscribes, Grows
    <2>2. Inscribes(c4, c4, d)
      BY <2>1, StartsEmpty
    <2> QED
      BY <1>13, <1>14, <2>1, <2>2, EntryJoins
  <1>22. Inscribes(c3, k, d)
    BY <1>19, <1>20, <1>21, InscribesOn
  <1>23. Inscribes(c2, k, d)
    BY <1>18, <1>19, <1>22, InscribesOn
  <1>24. Inscribes(c1, k, d)
    BY <1>17, <1>19, <1>23, InscribesOn
  <1>25. Inscribes(c, k, d)
    BY <1>16, <1>24, InscribesOn
  <1>26. Joins(c, k, d, "Sd")
    <2>1. c4["Sd"] = c["Sd"]
      BY <1>14, <1>15, <1>16, <1>17, <1>18, <1>20
    <2> QED
      BY <1>21, <1>25, <2>1 DEF Joins
  <1>27. k["MPU"] = c1["MPU"] /\ k["GPIO"] = c4["GPIO"]
    BY <1>14, <1>17, <1>18, <1>20, <1>21
  <1>28. /\ e.buffers[1] = Len(c0["MPU"]) /\ e.buffers[2] = Len(c1["MPU"])
         /\ d.cd # <<>> => e.cd = LastIndex(c2, "DIn")
         /\ d.wp # <<>> => e.wp = LastIndex(c3, "DIn")
    BY <1>12, <1>15, <1>16 DEF LastIndex
  <1>29. d.cd # <<>> => InputAt(k, e.cd, d.cd)
    <2>1. Grows(c2, k, d)
      BY <1>23 DEF Inscribes
    <2> QED
      BY <1>17, <1>19, <1>28, <2>1, PlacesLast
  <1>30. d.wp # <<>> => InputAt(k, e.wp, d.wp)
    <2>1. Grows(c3, k, d)
      BY <1>22 DEF Inscribes
    <2> QED
      BY <1>18, <1>19, <1>28, <2>1, PlacesLast
  <1>31. /\ e.buffers[1] # e.buffers[2]
         /\ \A j \in 1 .. 2 : /\ BufferAt(k, e.buffers[j], 512 * d.blocks)
                              /\ k["MPU"][e.buffers[j]].e.memory = <<"D1", "NonCached">>
    <2>1. /\ e.buffers[1] \in 1 .. Len(k["MPU"]) /\ e.buffers[2] \in 1 .. Len(k["MPU"])
          /\ k["MPU"][e.buffers[1]].e = e1 /\ k["MPU"][e.buffers[2]].e = e1
          /\ e.buffers[1] # e.buffers[2]
      BY <1>15, <1>16, <1>27, <1>28, SMTT(30)
    <2>2. \A j \in 1 .. 2 : j = 1 \/ j = 2
      OBVIOUS
    <2> QED
      BY <1>1, <1>4, <2>1, <2>2, SMTT(30) DEF BufferAt
  <1>32. \A j \in 1 .. 6 : Pinned(k, e.lines[j], SdPins(d)[j])
    <2> TAKE j \in 1 .. 6
    <2>1. e.lines[j] = Len(c3["GPIO"]) + j
      <3>1. n = Len(c3["GPIO"]) + 6
        BY <1>11, <1>20 DEF LastIndex
      <3>2. e.lines = <<n - 5, n - 4, n - 3, n - 2, n - 1, n>>
        BY <1>12
      <3>3. j = 1 \/ j = 2 \/ j = 3 \/ j = 4 \/ j = 5 \/ j = 6
        OBVIOUS
      <3> QED
        BY <1>20, <3>1, <3>2, <3>3, SMTT(30)
    <2>2. SdGpio(d, j).pin = SdPins(d)[j]
      BY DEF SdGpio, Gpio
    <2>3. Len(c3["GPIO"]) + j \in 1 .. Len(k["GPIO"])
      BY <1>20, <1>27
    <2> QED
      BY <1>20, <1>27, <2>1, <2>2, <2>3 DEF Pinned
  <1>33. SdHolds(k, d, e)
    BY <1>2, <1>29, <1>30, <1>31, <1>32 DEF SdHolds
  <1> QED
    BY <1>21, <1>26, <1>33

-----------------------------------------------------------------------------
(* Whatever the device: it only adds, and if it is served its own entry is *)
(* the last of its domain and holds what the entry refers to.              *)
Own(c, k, d) ==
  d.type \in Served =>
    /\ Len(c[d.type]) \in Nat /\ Len(k[d.type]) = Len(c[d.type]) + 1
    /\ Holds(k, d, k[d.type][Len(k[d.type])].e)

LEMMA DeviceJoins ==
  ASSUME NEW c, Written(c), NEW d, IsDevice(d), Compiles(d), NEW k, k = Inscribed(c, d)
  PROVE  Inscribes(c, k, d) /\ Own(c, k, d)
  <1>1. CASE d.type = "ADC"
    <2>1. d.peripheral \in ToSet(Converters) \cup {AUTO} /\ AdcCompiles(d) /\ k = InscribeAdc(c, d)
      BY <1>1 DEF IsDevice, Compiles, Inscribed
    <2>2. Joins(c, k, d, "ADC") /\ AdcHolds(k, d, k["ADC"][Len(k["ADC"])].e)
      BY <2>1, AdcJoins
    <2> QED
      BY <1>1, <2>2 DEF Own, Holds, Joins
  <1>2. CASE d.type = "SPI"
    <2>1. d.peripheral \in SpiPeripherals /\ d.streams \in [1 .. 2 -> Streams \cup {none}] /\ k = InscribeSpi(c, d)
      BY <1>2 DEF IsDevice, Compiles, Inscribed
    <2>2. Joins(c, k, d, "SPI") /\ SpiHolds(k, d, k["SPI"][Len(k["SPI"])].e)
      BY <2>1, SpiJoins
    <2> QED
      BY <1>2, <2>2 DEF Own, Holds, Joins
  <1>3. CASE d.type = "TIM"
    <2>1. IsList(d.pins) /\ k = InscribeTimer(c, d)
      BY <1>3 DEF IsDevice, Compiles, Inscribed
    <2>2. Inscribes(c, k, d)
      BY <2>1, TimerJoins
    <2> QED
      BY <1>3, <2>2 DEF Own, Served
  <1>4. CASE d.type = "DFSDM"
    <2>1. DfsdmCompiles(d) /\ k = InscribeDfsdm(c, d)
      BY <1>4 DEF IsDevice, Compiles, Inscribed
    <2>2. Joins(c, k, d, "DFSDM") /\ DfsdmHolds(k, d, k["DFSDM"][Len(k["DFSDM"])].e)
      BY <2>1, DfsdmJoins
    <2> QED
      BY <1>4, <2>2 DEF Own, Holds, Joins
  <1>5. CASE d.type = "DFSDMClk"
    <2>1. k = InscribeClk(c, d)
      BY <1>5 DEF IsDevice, Compiles, Inscribed
    <2>2. Inscribes(c, k, d)
      BY <2>1, ClkJoins
    <2> QED
      BY <1>5, <2>2 DEF Own, Served
  <1>6. CASE d.type = "MPU"
    <2>1. d.memory \in Memories /\ d.size \in Nat /\ MpuCompiles(d) /\ k = InscribeMpu(c, d)
      BY <1>6 DEF IsDevice, Compiles, Inscribed
    <2>2. Joins(c, k, d, "MPU") /\ MpuHolds(k, d, k["MPU"][Len(k["MPU"])].e)
      BY <2>1, MpuJoins
    <2> QED
      BY <1>6, <2>2 DEF Own, Holds, Joins
  <1>7. CASE d.type = "Sd"
    <2>1. SdCompiles(d) /\ k = InscribeSd(c, d)
      BY <1>7 DEF IsDevice, Compiles, Inscribed
    <2>2. Joins(c, k, d, "Sd") /\ SdHolds(k, d, k["Sd"][Len(k["Sd"])].e)
      BY <2>1, SdJoins
    <2> QED
      BY <1>7, <2>2 DEF Own, Holds, Joins
  <1>8. CASE d.type = "Eth"
    <2>1. IsList(d.pins.rmii) /\ k = InscribeEthernet(c, d)
      BY <1>8 DEF IsDevice, Compiles, Inscribed
    <2>2. Joins(c, k, d, "Eth") /\ EthHolds(k, d, k["Eth"][Len(k["Eth"])].e)
      BY <2>1, EthJoins
    <2> QED
      BY <1>8, <2>2 DEF Own, Holds, Joins
  <1>9. CASE d.type = "EXTI"
    <2>1. k = InscribeExti(c, d)
      BY <1>9 DEF IsDevice, Compiles, Inscribed
    <2>2. Joins(c, k, d, "EXTI") /\ ExtiHolds(k, d, k["EXTI"][Len(k["EXTI"])].e)
      BY <2>1, ExtiJoins
    <2> QED
      BY <1>9, <2>2 DEF Own, Holds, Joins
  <1>10. CASE d.type = "DIn"
    <2>1. k = InscribeDin(c, d.pin, d)
      BY <1>10 DEF IsDevice, Compiles, Inscribed
    <2>2. PICK pin : pin = d.pin
      OBVIOUS
    <2>3. k = InscribeDin(c, pin, d) /\ Inscribes(c, c, d)
      BY <2>1, <2>2, StartsEmpty
    <2>4. /\ Inscribes(c, k, d) /\ Len(c["DIn"]) \in Nat /\ Len(k["DIn"]) = Len(c["DIn"]) + 1
          /\ Pinned(k, k["DIn"][Len(k["DIn"])].e.gpio, pin)
      BY <2>3, DinJoins
    <2>5. PinHolds(k, d, k["DIn"][Len(k["DIn"])].e)
      BY <2>2, <2>4 DEF PinHolds
    <2> QED
      BY <1>10, <2>4, <2>5 DEF Own, Holds
  <1>11. CASE d.type = "DOut"
    <2>1. k = InscribeDout(c, d.pin, d)
      BY <1>11 DEF IsDevice, Compiles, Inscribed
    <2>2. PICK pin : pin = d.pin
      OBVIOUS
    <2>3. k = InscribeDout(c, pin, d) /\ Inscribes(c, c, d)
      BY <2>1, <2>2, StartsEmpty
    <2>4. /\ Inscribes(c, k, d) /\ Len(c["DOut"]) \in Nat /\ Len(k["DOut"]) = Len(c["DOut"]) + 1
          /\ Pinned(k, k["DOut"][Len(k["DOut"])].e.gpio, pin)
      BY <2>3, DoutJoins
    <2>5. PinHolds(k, d, k["DOut"][Len(k["DOut"])].e)
      BY <2>2, <2>4 DEF PinHolds
    <2> QED
      BY <1>11, <2>4, <2>5 DEF Own, Holds
  <1>12. CASE d.type = "MdmaPacket"
    <2>1. IsList(d.sizes) /\ PacketBytes(d) \in Nat /\ k = InscribeMdmaPacket(c, d)
      BY <1>12 DEF IsDevice, Compiles, Inscribed
    <2>2. Joins(c, k, d, "MdmaPacket") /\ PacketHolds(k, d, k["MdmaPacket"][Len(k["MdmaPacket"])].e)
      BY <2>1, PacketJoins
    <2> QED
      BY <1>12, <2>2 DEF Own, Holds, Joins
  <1>13. CASE d.type = "DMA"
    <2>1. d.streams \in Seq(Streams \cup {none}) /\ k = InscribeDma(c, d.instance, d.streams, d)
      BY <1>13 DEF IsDevice, Compiles, Inscribed
    <2>2. Inscribes(c, k, d)
      BY <2>1, DmaJoins
    <2> QED
      BY <1>13, <2>2 DEF Own, Served
  <1> QED
    BY <1>1, <1>2, <1>3, <1>4, <1>5, <1>6, <1>7, <1>8, <1>9, <1>10, <1>11, <1>12, <1>13 DEF IsDevice

-----------------------------------------------------------------------------
(* The context of a board is what its devices wrote: every entry is owned  *)
(* by one of them, and each one that is served has its claim.              *)
CtxOK(c, ds) ==
  /\ Written(c) /\ EntriesOK(c)
  /\ IsList(ds) /\ \A d \in ToSet(ds) : IsDevice(d) /\ Claim(c, d)
  /\ \A x \in Domains : \A i \in 1 .. Len(c[x]) : c[x][i].owner \in ToSet(ds)

(* What start-up may leave, of these configurations.                       *)
StartedFrom(g, made) ==
  \E dmaFailed \in AtMostOne(DOMAIN g.DMA), spiFailed \in AtMostOne(DOMAIN g.SPI),
     adcFailed \in AtMostOne(UsedConverters(g.ADC)) :
        made = Started(g, dmaFailed, spiFailed, adcFailed)

BoardInv ==
  /\ CtxOK(ctx, devices)
  /\ phase \in {"built", "running"} => Accepts(ctx) /\ cfg = Built(ctx)
  /\ phase \notin {"built", "running"} => cfg = Nothing
  /\ phase = "running" => StartedFrom(cfg, inst)

LEMMA CtxGrows ==
  ASSUME NEW c, NEW ds, CtxOK(c, ds), NEW d, d \notin ToSet(ds), IsDevice(d), Compiles(d),
         NEW k, k = Inscribed(c, d)
  PROVE  CtxOK(k, Append(ds, d))
  <1>1. Written(c) /\ EntriesOK(c) /\ IsList(ds)
    BY DEF CtxOK
  <1>2. Inscribes(c, k, d) /\ Own(c, k, d)
    BY <1>1, DeviceJoins
  <1>3. Grows(c, k, d) /\ Written(k) /\ EntriesOK(k)
    BY <1>1, <1>2 DEF Inscribes, Grows
  <1>4. PICK es : es = Append(ds, d)
    OBVIOUS
  <1>5. /\ IsList(es) /\ Len(es) = Len(ds) + 1 /\ Len(ds) \in Nat
        /\ \A i \in 1 .. Len(ds) : es[i] = ds[i]
        /\ es[Len(ds) + 1] = d
    BY <1>1, <1>4, ListGrows
  <1>6. ToSet(es) = ToSet(ds) \cup {d}
    <2>1. DOMAIN es = 1 .. Len(ds) + 1 /\ DOMAIN ds = 1 .. Len(ds)
      BY <1>1, <1>5, ListIsAFunction
    <2>2. \A i \in 1 .. Len(ds) + 1 : i = Len(ds) + 1 \/ i \in 1 .. Len(ds)
      BY <1>5
    <2>3. \A i \in 1 .. Len(ds) : i \in 1 .. Len(ds) + 1
      BY <1>5
    <2>4. Len(ds) + 1 \in 1 .. Len(ds) + 1
      BY <1>5
    <2>5. ToSet(es) = {es[i] : i \in 1 .. Len(ds) + 1} /\ ToSet(ds) = {ds[i] : i \in 1 .. Len(ds)}
      BY <2>1 DEF ToSet
    <2>6. ToSet(es) \subseteq ToSet(ds) \cup {d}
      BY <1>5, <2>2, <2>5
    <2>7. ToSet(ds) \cup {d} \subseteq ToSet(es)
      BY <1>5, <2>3, <2>4, <2>5
    <2> QED
      BY <2>6, <2>7
  <1>7. ASSUME NEW x \in Domains, NEW i \in 1 .. Len(k[x])
        PROVE  k[x][i].owner \in ToSet(es)
    <2>1. Len(c[x]) \in Nat /\ Len(k[x]) \in Nat
      BY <1>1, <1>3, ListIsAFunction DEF Written
    <2>2. CASE i <= Len(c[x])
      <3>1. i \in 1 .. Len(c[x]) /\ k[x][i] = c[x][i]
        BY <1>3, <2>1, <2>2 DEF Grows
      <3> QED
        BY <1>6, <3>1 DEF CtxOK
    <2>3. CASE i > Len(c[x])
      <3>1. i \in Len(c[x]) + 1 .. Len(k[x])
        BY <2>1, <2>3
      <3>2. k[x][i].owner = d
        BY <1>3, <3>1 DEF Grows
      <3> QED
        BY <1>6, <3>2
    <2> QED
      BY <2>1, <2>2, <2>3
  <1>8. ASSUME NEW f \in ToSet(ds) PROVE IsDevice(f) /\ Claim(k, f)
    <2>1. IsDevice(f) /\ Claim(c, f) /\ d # f
      BY DEF CtxOK
    <2> QED
      BY <1>1, <1>3, <2>1, ClaimsLast
  <1>9. Claim(k, d)
    <2> SUFFICES ASSUME d.type \in Served
                 PROVE  \E i \in 1 .. Len(k[d.type]) :
                          Owned(k, d.type, d) = {i} /\ Holds(k, d, k[d.type][i].e)
      BY DEF Claim
    <2>1. PICK t : t = d.type
      OBVIOUS
    <2>2. t \in Domains
      BY <2>1 DEF Served, Domains
    <2>3. Len(c[t]) \in Nat /\ Len(k[t]) = Len(c[t]) + 1 /\ Holds(k, d, k[t][Len(k[t])].e)
      BY <1>2, <2>1 DEF Own
    <2>4. /\ \A i \in 1 .. Len(c[t]) : k[t][i] = c[t][i] /\ c[t][i].owner # d
          /\ \A i \in Len(c[t]) + 1 .. Len(k[t]) : k[t][i].owner = d
      BY <1>3, <2>2 DEF Grows, CtxOK
    <2>5. DOMAIN k[t] = 1 .. Len(k[t])
      BY <1>3, <2>2, ListIsAFunction DEF Written
    <2>6. \A i \in 1 .. Len(k[t]) : k[t][i].owner = d <=> i = Len(k[t])
      <3> TAKE i \in 1 .. Len(k[t])
      <3>1. i = Len(k[t]) \/ i \in 1 .. Len(c[t])
        BY <2>3
      <3>2. i = Len(k[t]) => i \in Len(c[t]) + 1 .. Len(k[t]) /\ i \notin 1 .. Len(c[t])
        BY <2>3
      <3> QED
        BY <2>4, <3>1, <3>2
    <2>7. Owned(k, t, d) = {Len(k[t])} /\ Len(k[t]) \in 1 .. Len(k[t])
      BY <2>3, <2>5, <2>6 DEF Owned
    <2> QED
      BY <2>1, <2>3, <2>7
  <1>10. CtxOK(k, es)
    BY <1>3, <1>5, <1>6, <1>7, <1>8, <1>9 DEF CtxOK
  <1> QED
    BY <1>4, <1>10

LEMMA InitBoard == Init => BoardInv
  <1> SUFFICES ASSUME Init PROVE BoardInv
    OBVIOUS
  <1>1. \A x \in Domains : ctx[x] = <<>>
    BY DEF Init, EmptyCtx
  <1>2. IsList(<<>>) /\ Len(<<>>) = 0
    <2>1. PICK s : s = <<>>
      OBVIOUS
    <2>2. Len(s) = 0 /\ s = [i \in 1 .. Len(s) |-> s[i]]
      BY <2>1
    <2> QED
      BY <2>1, <2>2, ListIsAFunction
  <1>3. Written(ctx)
    BY <1>1, <1>2 DEF Written, Init, EmptyCtx
  <1>4. EntriesOK(ctx)
    <2>1. ctx["ADC"] = <<>> /\ ctx["DMA"] = <<>> /\ ctx["SPI"] = <<>> /\ ctx["DFSDM"] = <<>>
          /\ ctx["MPU"] = <<>>
      BY <1>1 DEF Domains
    <2>2. \A i \in 1 .. 0 : FALSE
      OBVIOUS
    <2> QED
      BY <1>2, <2>1, <2>2 DEF EntriesOK, AdcOK, DmaOK, SpiOK, FilterOK, MpuOK
  <1>5. ToSet(devices) = {}
    BY DEF Init, ToSet
  <1>6. CtxOK(ctx, devices)
    BY <1>1, <1>2, <1>3, <1>4, <1>5 DEF CtxOK, Init
  <1> QED
    BY <1>6 DEF BoardInv, Init

LEMMA NextBoard == BoardInv /\ [Next]_vars => BoardInv'
  <1> SUFFICES ASSUME BoardInv, [Next]_vars PROVE BoardInv'
    OBVIOUS
  <1>1. ASSUME NEW d \in UNION Pools, Inscribe(d) PROVE BoardInv'
    <2>1. CASE Compiles(d)
      <3>1. devices' = Append(devices, d) /\ ctx' = Inscribed(ctx, d) /\ phase' = phase
            /\ cfg' = cfg /\ inst' = inst /\ phase = "declare" /\ d \notin ToSet(devices)
        BY <1>1, <2>1 DEF Inscribe
      <3>2. CtxOK(ctx, devices) /\ IsDevice(d) /\ cfg = Nothing
        BY <3>1, PoolsAssumption DEF BoardInv
      <3>3. CtxOK(ctx', devices')
        BY <2>1, <3>1, <3>2, CtxGrows
      <3> QED
        BY <3>1, <3>2, <3>3 DEF BoardInv
    <2>2. CASE ~Compiles(d)
      BY <1>1, <2>2 DEF Inscribe, BoardInv
    <2> QED
      BY <2>1, <2>2
  <1>2. ASSUME Build PROVE BoardInv'
    BY <1>2 DEF Build, BoardInv
  <1>3. ASSUME Start PROVE BoardInv'
    <2>1. phase = "built" /\ phase' = "running" /\ UNCHANGED <<devices, ctx, cfg>>
          /\ StartedFrom(cfg, inst')
      BY <1>3 DEF Start, StartedFrom
    <2> QED
      BY <2>1 DEF BoardInv
  <1>4. ASSUME NEW f \in DOMAIN inst.filters, NEW ch \in Channels, NEW injected \in BOOLEAN,
               Word(f, ch, injected)
        PROVE  BoardInv'
    <2>1. UNCHANGED <<devices, ctx, phase, cfg, inst>>
      BY <1>4 DEF Word
    <2> QED
      BY <2>1 DEF BoardInv
  <1>5. ASSUME UNCHANGED vars PROVE BoardInv'
    BY <1>5 DEF BoardInv, vars
  <1> QED
    BY <1>1, <1>2, <1>3, <1>4, <1>5 DEF Next, Done

(* The context is what the devices wrote, the configurations are built of  *)
(* it, the instances started from those: BoardInv at every state.          *)
LEMMA BoardInvariant == Spec => []BoardInv
  BY InitBoard, NextBoard, PTL DEF Spec

-----------------------------------------------------------------------------
(* The buffers of the converters follow each other, and in each one the    *)
(* inputs stand in the order they were declared in.                        *)
ConverterNames == {"ADC_1", "ADC_2", "ADC_3"}
On(cfgs, p) == {i \in DOMAIN cfgs : cfgs[i].peripheral = p}

LEMMA BuffersFollow ==
  ASSUME NEW n \in Nat, NEW cfgs, DOMAIN cfgs = 1 .. n
  PROVE  /\ \A p : BufferSizeFor(cfgs, p) = Cardinality(On(cfgs, p)) /\ BufferSizeFor(cfgs, p) \in Nat
         /\ \A p \in ConverterNames : BufferOffsetFor(cfgs, p) \in Nat
         /\ \A p, q \in ConverterNames :
              \A k \in 1 .. BufferSizeFor(cfgs, p), l \in 1 .. BufferSizeFor(cfgs, q) :
                 BufferOffsetFor(cfgs, p) + k = BufferOffsetFor(cfgs, q) + l => p = q /\ k = l
  <1>1. \A p : BufferSizeFor(cfgs, p) = Cardinality(On(cfgs, p)) /\ BufferSizeFor(cfgs, p) \in Nat
    <2> TAKE p
    <2>1. On(cfgs, p) \in SUBSET (1 .. n)
      BY DEF On
    <2>2. Len(Pick(cfgs, On(cfgs, p))) = Cardinality(On(cfgs, p)) /\ Cardinality(On(cfgs, p)) \in Nat
      BY <2>1, PickTakesEach
    <2> QED
      BY <2>2 DEF BufferSizeFor, OnConverter, On
  <1>2. PICK a, b, c : /\ a = BufferSizeFor(cfgs, "ADC_1") /\ b = BufferSizeFor(cfgs, "ADC_2")
                       /\ c = BufferSizeFor(cfgs, "ADC_3")
    OBVIOUS
  <1>3. a \in Nat /\ b \in Nat /\ c \in Nat
    BY <1>1, <1>2
  <1>4. /\ BufferOffsetFor(cfgs, "ADC_1") = 0 /\ BufferOffsetFor(cfgs, "ADC_2") = a
        /\ BufferOffsetFor(cfgs, "ADC_3") = a + b
    BY <1>2 DEF BufferOffsetFor
  <1>5. \A p \in ConverterNames : BufferOffsetFor(cfgs, p) \in Nat
    BY <1>3, <1>4 DEF ConverterNames
  <1>6. ASSUME NEW p \in ConverterNames, NEW q \in ConverterNames,
               NEW k \in 1 .. BufferSizeFor(cfgs, p), NEW l \in 1 .. BufferSizeFor(cfgs, q),
               BufferOffsetFor(cfgs, p) + k = BufferOffsetFor(cfgs, q) + l
        PROVE  p = q /\ k = l
    <2>1. k \in Nat /\ l \in Nat
      BY <1>1
    <2>2. CASE p = "ADC_1"
      <3>1. k \in 1 .. a /\ BufferOffsetFor(cfgs, p) = 0
        BY <1>2, <1>4, <2>2
      <3>2. CASE q = "ADC_1"
        BY <1>3, <1>4, <1>6, <2>1, <2>2, <3>1, <3>2
      <3>3. CASE q = "ADC_2"
        BY <1>2, <1>3, <1>4, <1>6, <2>1, <3>1, <3>3
      <3>4. CASE q = "ADC_3"
        BY <1>2, <1>3, <1>4, <1>6, <2>1, <3>1, <3>4
      <3> QED
        BY <3>2, <3>3, <3>4 DEF ConverterNames
    <2>3. CASE p = "ADC_2"
      <3>1. k \in 1 .. b /\ BufferOffsetFor(cfgs, p) = a
        BY <1>2, <1>4, <2>3
      <3>2. CASE q = "ADC_1"
        BY <1>2, <1>3, <1>4, <1>6, <2>1, <3>1, <3>2
      <3>3. CASE q = "ADC_2"
        BY <1>3, <1>4, <1>6, <2>1, <2>3, <3>1, <3>3
      <3>4. CASE q = "ADC_3"
        BY <1>2, <1>3, <1>4, <1>6, <2>1, <3>1, <3>4
      <3> QED
        BY <3>2, <3>3, <3>4 DEF ConverterNames
    <2>4. CASE p = "ADC_3"
      <3>1. k \in 1 .. c /\ BufferOffsetFor(cfgs, p) = a + b
        BY <1>2, <1>4, <2>4
      <3>2. CASE q = "ADC_1"
        BY <1>2, <1>3, <1>4, <1>6, <2>1, <3>1, <3>2
      <3>3. CASE q = "ADC_2"
        BY <1>2, <1>3, <1>4, <1>6, <2>1, <3>1, <3>3
      <3>4. CASE q = "ADC_3"
        BY <1>3, <1>4, <1>6, <2>1, <2>4, <3>1, <3>4
      <3> QED
        BY <3>2, <3>3, <3>4 DEF ConverterNames
    <2> QED
      BY <2>2, <2>3, <2>4 DEF ConverterNames
  <1> QED
    BY <1>1, <1>5, <1>6

(* An input's own cell, whichever converters started.                      *)
SlotMatches(cfgs, insts, pool, i) ==
  LET slot == insts[i].slot
      here == {w \in pool : w.cell = slot}
  IN  IF slot = NoSlot
      THEN insts[i].handle = AUTO /\ \A w \in pool : w.peripheral # cfgs[i].peripheral
      ELSE here = {[cell |-> slot, peripheral |-> cfgs[i].peripheral, channel |-> cfgs[i].channel]}

LEMMA SlotsMatch ==
  ASSUME NEW n \in Nat, NEW cfgs, DOMAIN cfgs = 1 .. n,
         \A i \in 1 .. n : cfgs[i].peripheral \in ConverterNames,
         NEW dma, NEW failed, NEW i \in 1 .. n
  PROVE  SlotMatches(cfgs, AdcInit(cfgs, dma, failed), PoolWrites(cfgs, dma, failed), i)
  <1>1. PICK p, S : p = cfgs[i].peripheral /\ S = On(cfgs, p)
    OBVIOUS
  <1>2. p \in ConverterNames /\ i \in S /\ S \in SUBSET (1 .. n)
    BY <1>1 DEF On
  <1>3. PICK rank : rank = Rank(S, i)
    OBVIOUS
  <1>4. PICK off, size : off = BufferOffsetFor(cfgs, p) /\ size = BufferSizeFor(cfgs, p)
    OBVIOUS
  <1>5. /\ off \in Nat /\ size \in Nat /\ size = Cardinality(S)
        /\ \A q \in ConverterNames : BufferOffsetFor(cfgs, q) \in Nat /\ BufferSizeFor(cfgs, q) \in Nat
        /\ \A q \in ConverterNames : \A k \in 1 .. size, l \in 1 .. BufferSizeFor(cfgs, q) :
              off + k = BufferOffsetFor(cfgs, q) + l => p = q /\ k = l
    BY <1>1, <1>2, <1>4, BuffersFollow
  <1>6. rank \in 0 .. size - 1
    BY <1>2, <1>3, <1>5, RanksCount
  <1>7. rank + 1 \in 1 .. size /\ OnConverter(cfgs, p)[rank + 1] = cfgs[i]
    <2>1. Pick(cfgs, S)[Rank(S, i) + 1] = cfgs[i]
      BY <1>2, PickTakesEach
    <2> QED
      BY <1>1, <1>3, <1>5, <1>6, <2>1 DEF OnConverter, On
  <1>8. InstanceRank(cfgs, i) = rank
    <2>1. {j \in 1 .. i - 1 : cfgs[j].peripheral = cfgs[i].peripheral} = {j \in S : j < i}
      <3>1. \A j : j \in 1 .. i - 1 <=> j \in 1 .. n /\ j < i
        OBVIOUS
      <3> QED
        BY <1>1, <3>1 DEF On
    <2> QED
      BY <1>3, <2>1 DEF InstanceRank, Rank
  <1>9. PICK insts, pool : insts = AdcInit(cfgs, dma, failed) /\ pool = PoolWrites(cfgs, dma, failed)
    OBVIOUS
  <1>10. PICK ready : ready = PeriphReady(cfgs, dma, failed, p)
    OBVIOUS
  <1>11. DmaSlot(cfgs, p, rank) = off + rank + 1
    BY <1>4, <1>5, <1>6 DEF DmaSlot
  <1>12. /\ PeriphReady(cfgs, dma, failed, p) => insts[i].slot = off + rank + 1
         /\ ~PeriphReady(cfgs, dma, failed, p) => insts[i].slot = NoSlot /\ insts[i].handle = AUTO
    <2> DEFINE I(j) == [handle  |-> IF PeriphReady(cfgs, dma, failed, cfgs[j].peripheral)
                                    THEN cfgs[j].peripheral ELSE AUTO,
                        channel |-> cfgs[j].channel,
                        bits    |-> cfgs[j].bits,
                        slot    |-> IF PeriphReady(cfgs, dma, failed, cfgs[j].peripheral)
                                    THEN DmaSlot(cfgs, cfgs[j].peripheral, InstanceRank(cfgs, j))
                                    ELSE NoSlot]
    <2>1. insts = [j \in DOMAIN cfgs |-> I(j)]
      BY <1>9 DEF AdcInit
    <2>2. insts[i] = I(i)
      BY <2>1
    <2> QED
      BY <1>1, <1>8, <1>11, <2>2
  <1>13. \A w \in pool : \E q \in ConverterNames : \E k \in 1 .. BufferSizeFor(cfgs, q) :
            /\ PeriphReady(cfgs, dma, failed, q)
            /\ w = [cell |-> BufferOffsetFor(cfgs, q) + k, peripheral |-> q,
                    channel |-> OnConverter(cfgs, q)[k].channel]
    <2>1. ToSet(Converters) = ConverterNames
      BY DEF ToSet, Converters, ConverterNames
    <2> QED
      BY <1>9, <2>1 DEF PoolWrites
  <1>14. CASE ~PeriphReady(cfgs, dma, failed, p)
    <2>1. \A w \in pool : w.peripheral # p
      BY <1>13, <1>14
    <2>2. insts[i].slot = NoSlot /\ insts[i].handle = AUTO
      BY <1>12, <1>14
    <2> QED
      BY <1>1, <1>9, <2>1, <2>2 DEF SlotMatches
  <1>15. CASE PeriphReady(cfgs, dma, failed, p)
    <2>1. PICK r : r = [cell |-> off + (rank + 1), peripheral |-> p, channel |-> cfgs[i].channel]
      OBVIOUS
    <2>2. insts[i].slot = off + (rank + 1) /\ off + (rank + 1) # NoSlot
      BY <1>5, <1>6, <1>12, <1>15 DEF NoSlot
    <2>3. r \in pool
      <3>1. p \in {q \in ToSet(Converters) : PeriphReady(cfgs, dma, failed, q)}
        BY <1>2, <1>15 DEF ToSet, Converters, ConverterNames
      <3>2. r \in {[cell |-> BufferOffsetFor(cfgs, p) + k, peripheral |-> p,
                    channel |-> OnConverter(cfgs, p)[k].channel] :
                       k \in 1 .. BufferSizeFor(cfgs, p)}
        BY <1>4, <1>7, <2>1
      <3> QED
        BY <1>9, <3>1, <3>2 DEF PoolWrites
    <2>4. \A w \in pool : w.cell = off + (rank + 1) => w = r
      <3> SUFFICES ASSUME NEW w \in pool, w.cell = off + (rank + 1) PROVE w = r
        OBVIOUS
      <3>1. PICK q \in ConverterNames : \E k \in 1 .. BufferSizeFor(cfgs, q) :
                w = [cell |-> BufferOffsetFor(cfgs, q) + k, peripheral |-> q,
                     channel |-> OnConverter(cfgs, q)[k].channel]
        BY <1>13
      <3>2. PICK k \in 1 .. BufferSizeFor(cfgs, q) :
                w = [cell |-> BufferOffsetFor(cfgs, q) + k, peripheral |-> q,
                     channel |-> OnConverter(cfgs, q)[k].channel]
        BY <3>1
      <3>3. off + (rank + 1) = BufferOffsetFor(cfgs, q) + k
        BY <3>2
      <3>4. p = q /\ rank + 1 = k
        BY <1>5, <1>7, <3>3
      <3> QED
        BY <1>4, <1>7, <2>1, <3>2, <3>4
    <2>5. r.cell = off + (rank + 1)
      BY <2>1
    <2>6. {w \in pool : w.cell = off + (rank + 1)} = {r}
      BY <2>3, <2>4, <2>5
    <2> QED
      BY <1>1, <1>9, <2>1, <2>2, <2>6 DEF SlotMatches
  <1> QED
    BY <1>14, <1>15

LEMMA EntriesAre ==
  ASSUME NEW c, Written(c), NEW x \in Domains
  PROVE  /\ Len(c[x]) \in Nat /\ DOMAIN c[x] = 1 .. Len(c[x])
         /\ DOMAIN Entries(c, x) = 1 .. Len(c[x]) /\ Len(Entries(c, x)) = Len(c[x])
         /\ IsList(Entries(c, x))
         /\ \A i \in 1 .. Len(c[x]) : Entries(c, x)[i] = c[x][i].e
  <1>1. Len(c[x]) \in Nat /\ DOMAIN c[x] = 1 .. Len(c[x])
    BY ListIsAFunction DEF Written
  <1>2. PICK es : es = Entries(c, x)
    OBVIOUS
  <1>3. es = [i \in 1 .. Len(c[x]) |-> c[x][i].e]
    BY <1>1, <1>2 DEF Entries
  <1>4. DOMAIN es = 1 .. Len(c[x]) /\ Len(es) = Len(c[x])
    BY <1>1, <1>3
  <1>5. es = [i \in 1 .. Len(es) |-> es[i]]
    BY <1>3, <1>4
  <1>6. IsList(es)
    BY <1>1, <1>4, <1>5, ListIsAFunction
  <1> QED
    BY <1>1, <1>2, <1>3, <1>4, <1>6

(* The parts of what is built and of what start-up leaves.                 *)
LEMMA BuiltParts ==
  ASSUME NEW c, NEW g, g = Built(c)
  PROVE  /\ g.MPU = MpuBuild(Entries(c, "MPU")) /\ g.GPIO = GpioBuild(Entries(c, "GPIO"))
         /\ g.DMA = DmaBuild(MergedDma(c)) /\ g.SPI = Entries(c, "SPI")
         /\ g.DOut = DoutBuild(Entries(c, "DOut")) /\ g.DIn = DinBuild(Entries(c, "DIn"))
         /\ g.MdmaPacket = Entries(c, "MdmaPacket") /\ g.Sd = Entries(c, "Sd")
         /\ g.Eth = Entries(c, "Eth") /\ g.ADC = AdcBuild(Entries(c, "ADC"))
         /\ g.EXTI = ExtiBuild(Entries(c, "EXTI")) /\ g.DFSDM = DfsdmBuild(Entries(c, "DFSDM"))
         /\ g # Nothing
  <1>1. g.MPU = MpuBuild(Entries(c, "MPU")) /\ g.GPIO = GpioBuild(Entries(c, "GPIO"))
    BY DEF Built
  <1>2. g.DMA = DmaBuild(MergedDma(c)) /\ g.SPI = Entries(c, "SPI")
    BY DEF Built, SpiBuild
  <1>3. g.DOut = DoutBuild(Entries(c, "DOut")) /\ g.DIn = DinBuild(Entries(c, "DIn"))
    BY DEF Built
  <1>4. g.MdmaPacket = Entries(c, "MdmaPacket") /\ g.Sd = Entries(c, "Sd") /\ g.Eth = Entries(c, "Eth")
    BY DEF Built
  <1>5. g.ADC = AdcBuild(Entries(c, "ADC"))
    BY DEF Built
  <1>6. g.EXTI = ExtiBuild(Entries(c, "EXTI")) /\ g.DFSDM = DfsdmBuild(Entries(c, "DFSDM"))
    BY DEF Built
  <1>7. "MPU" \in DOMAIN g /\ DOMAIN Nothing = {}
    BY DEF Built, Nothing
  <1> QED
    BY <1>1, <1>2, <1>3, <1>4, <1>5, <1>6, <1>7

LEMMA StartedParts ==
  ASSUME NEW g, NEW dmaFailed, NEW spiFailed, NEW adcFailed, NEW made,
         made = Started(g, dmaFailed, spiFailed, adcFailed)
  PROVE  /\ made.MPU = MpuInit(g.MPU) /\ made.GPIO = GpioInit(g.GPIO)
         /\ made.DMA = DmaInit(g.DMA, dmaFailed)
         /\ made.dmaTable = DmaIrqTable(g.DMA, dmaFailed)
         /\ made.dmaIrqs = DmaIrqsEnabled(g.DMA, dmaFailed)
         /\ made.SPI = SpiInit(g.SPI, spiFailed, SpiFreq)
         /\ made.spiTable = SpiInstances(g.SPI, spiFailed)
         /\ made.spiPanic = SpiPanics(g.SPI, spiFailed, SpiFreq)
         /\ made.widths = SpiDmaWidths(g.SPI, spiFailed, g.DMA)
         /\ made.DOut = DoutInit(g.DOut) /\ made.DIn = DinInit(g.DIn)
         /\ made.MdmaPacket = MdmaPacketInit(g.MdmaPacket, made.MPU)
         /\ made.Sd = SdInit(g.Sd, made.MPU, made.DIn) /\ made.Eth = EthernetInit(g.Eth, made.DOut)
         /\ made.ADC = AdcInit(g.ADC, made.DMA, adcFailed)
         /\ made.pool = PoolWrites(g.ADC, made.DMA, adcFailed)
         /\ made.EXTI = ExtiInit(g.EXTI) /\ made.DFSDM = DfsdmInit(g.DFSDM, made.DMA)
  <1>1. made.MPU = MpuInit(g.MPU) /\ made.GPIO = GpioInit(g.GPIO) /\ made.DMA = DmaInit(g.DMA, dmaFailed)
    BY DEF Started
  <1>2. made.dmaTable = DmaIrqTable(g.DMA, dmaFailed) /\ made.dmaIrqs = DmaIrqsEnabled(g.DMA, dmaFailed)
    BY DEF Started
  <1>3. made.SPI = SpiInit(g.SPI, spiFailed, SpiFreq) /\ made.spiTable = SpiInstances(g.SPI, spiFailed)
    BY DEF Started
  <1>4. /\ made.spiPanic = SpiPanics(g.SPI, spiFailed, SpiFreq)
        /\ made.widths = SpiDmaWidths(g.SPI, spiFailed, g.DMA)
    BY DEF Started
  <1>5. made.DOut = DoutInit(g.DOut) /\ made.DIn = DinInit(g.DIn)
    BY DEF Started
  <1>6. made.MdmaPacket = MdmaPacketInit(g.MdmaPacket, made.MPU)
    BY DEF Started
  <1>7. made.Sd = SdInit(g.Sd, made.MPU, made.DIn) /\ made.Eth = EthernetInit(g.Eth, made.DOut)
    BY DEF Started
  <1>8. made.ADC = AdcInit(g.ADC, made.DMA, adcFailed) /\ made.pool = PoolWrites(g.ADC, made.DMA, adcFailed)
    BY DEF Started
  <1>9. made.EXTI = ExtiInit(g.EXTI) /\ made.DFSDM = DfsdmInit(g.DFSDM, made.DMA)
    BY DEF Started
  <1> QED
    BY <1>1, <1>2, <1>3, <1>4, <1>5, <1>6, <1>7, <1>8, <1>9

LEMMA AdcParts ==
  ASSUME NEW c, Written(c), EntriesOK(c)
  PROVE  /\ Len(c["ADC"]) \in Nat
         /\ DOMAIN AdcBuild(Entries(c, "ADC")) = 1 .. Len(c["ADC"])
         /\ \A i \in 1 .. Len(c["ADC"]) :
              /\ AdcBuild(Entries(c, "ADC"))[i].peripheral = c["ADC"][i].e.peripheral
              /\ AdcBuild(Entries(c, "ADC"))[i].peripheral \in ConverterNames
              /\ AdcBuild(Entries(c, "ADC"))[i].channel = c["ADC"][i].e.channel
              /\ AdcBuild(Entries(c, "ADC"))[i].bits = c["ADC"][i].e.bits
  <1>1. PICK es, n : es = Entries(c, "ADC") /\ n = Len(c["ADC"])
    OBVIOUS
  <1>2. n \in Nat /\ DOMAIN es = 1 .. n /\ \A i \in 1 .. n : es[i] = c["ADC"][i].e
    BY <1>1, EntriesAre DEF Domains
  <1>3. \A i \in 1 .. n : c["ADC"][i].e.peripheral \in ConverterNames
    BY <1>1 DEF EntriesOK, AdcOK, ConverterNames
  <1>4. DOMAIN AdcBuild(es) = 1 .. n
    BY <1>2 DEF AdcBuild
  <1>5. \A i \in 1 .. n : /\ AdcBuild(es)[i].peripheral = es[i].peripheral
                          /\ AdcBuild(es)[i].channel = es[i].channel
                          /\ AdcBuild(es)[i].bits = es[i].bits
    BY <1>2 DEF AdcBuild
  <1> QED
    BY <1>1, <1>2, <1>3, <1>4, <1>5

LEMMA RunningParts ==
  ASSUME BoardInv, phase = "running"
  PROVE  /\ CtxOK(ctx, devices) /\ Written(ctx) /\ EntriesOK(ctx) /\ Accepts(ctx)
         /\ cfg = Built(ctx) /\ StartedFrom(cfg, inst)
  BY DEF BoardInv, CtxOK

LEMMA AdcSlots == BoardInv => AdcSlotsMatch
  <1> SUFFICES ASSUME BoardInv, phase = "running"
               PROVE  AdcSlotsMatch
    BY DEF AdcSlotsMatch, Running
  <1>1. Written(ctx) /\ EntriesOK(ctx) /\ cfg = Built(ctx) /\ StartedFrom(cfg, inst)
    BY RunningParts
  <1>2. PICK dmaFailed, spiFailed, adcFailed : inst = Started(cfg, dmaFailed, spiFailed, adcFailed)
    BY <1>1 DEF StartedFrom
  <1>3. inst.ADC = AdcInit(cfg.ADC, inst.DMA, adcFailed) /\ inst.pool = PoolWrites(cfg.ADC, inst.DMA, adcFailed)
    BY <1>2, StartedParts
  <1>4. PICK n, cfgs : n = Len(ctx["ADC"]) /\ cfgs = cfg.ADC
    OBVIOUS
  <1>5. n \in Nat /\ DOMAIN cfgs = 1 .. n /\ \A i \in 1 .. n : cfgs[i].peripheral \in ConverterNames
    <2>1. cfg.ADC = AdcBuild(Entries(ctx, "ADC"))
      BY <1>1, BuiltParts
    <2> QED
      BY <1>1, <1>4, <2>1, AdcParts
  <1>6. \A i \in 1 .. n : SlotMatches(cfgs, inst.ADC, inst.pool, i)
    BY <1>3, <1>4, <1>5, SlotsMatch
  <1>7. DOMAIN inst.ADC = 1 .. n
    BY <1>3, <1>4, <1>5 DEF AdcInit
  <1> QED
    BY <1>4, <1>6, <1>7 DEF AdcSlotsMatch, SlotMatches

(* The cell an analog input reads is the one its own channel fills, for    *)
(* every board and whatever the HAL refuses (ADCDomain::Init).             *)
THEOREM AdcSlotsAlwaysMatch == Spec => []AdcSlotsMatch
  BY BoardInvariant, AdcSlots, PTL

-----------------------------------------------------------------------------
(* What converters and filters add to the entries of the DMA: one each for *)
(* those that need one and have none, under their own name.                *)
Once(s, p)  == \E j \in 1 .. Len(s) : \A i \in 1 .. Len(s) : s[i].instance = p <=> i = j
Never(s, p) == \A i \in 1 .. Len(s) : s[i].instance # p
Asking(s)   == \A i \in 1 .. Len(s) : s[i].stream = none /\ s[i].irqn = none
Adc123 == {"adc1", "adc2", "adc3"}

LEMMA DmaNames ==
  /\ DmaPeripheral("ADC_1") = "adc1" /\ DmaPeripheral("ADC_2") = "adc2" /\ DmaPeripheral("ADC_3") = "adc3"
  /\ \A n \in 1 .. 3 : Converters[n] \in ConverterNames /\ DmaPeripheral(Converters[n]) \in Adc123
  /\ \A n, m \in 1 .. 3 : DmaPeripheral(Converters[n]) = DmaPeripheral(Converters[m]) => n = m
  /\ \A p \in ConverterNames : \E n \in 1 .. 3 : Converters[n] = p
  /\ \A f, g \in Filters : DmaFilter(f) = DmaFilter(g) => f = g
  /\ \A f \in Filters : DmaFilter(f) \in DfsdmFilters /\ f + 1 \in 1 .. 4
  /\ \A x \in DfsdmFilters : x \notin Adc123
  <1>1. \A n \in 1 .. 3 : n = 1 \/ n = 2 \/ n = 3
    OBVIOUS
  <1>2. PeripheralIndex("ADC_1") = 1 /\ PeripheralIndex("ADC_2") = 2 /\ PeripheralIndex("ADC_3") = 3
    <2>1. ASSUME NEW k \in 1 .. 3 PROVE PeripheralIndex(Converters[k]) = k
      <3>1. \A i \in 1 .. 3 : Converters[i] = Converters[k] => i = k
        BY <1>1 DEF Converters
      <3>2. \E i \in 1 .. 3 : Converters[i] = Converters[k]
        OBVIOUS
      <3> QED
        BY <3>1, <3>2 DEF PeripheralIndex
    <2>2. 1 \in 1 .. 3 /\ 2 \in 1 .. 3 /\ 3 \in 1 .. 3
      OBVIOUS
    <2>3. Converters[1] = "ADC_1" /\ Converters[2] = "ADC_2" /\ Converters[3] = "ADC_3"
      BY DEF Converters
    <2> QED
      BY <2>1, <2>2, <2>3
  <1>3. DmaPeripheral("ADC_1") = "adc1" /\ DmaPeripheral("ADC_2") = "adc2" /\ DmaPeripheral("ADC_3") = "adc3"
    BY <1>2 DEF DmaPeripheral
  <1>4. Converters[1] = "ADC_1" /\ Converters[2] = "ADC_2" /\ Converters[3] = "ADC_3"
    BY DEF Converters
  <1>5. \A n \in 1 .. 3 : Converters[n] \in ConverterNames /\ DmaPeripheral(Converters[n]) \in Adc123
    BY <1>1, <1>3, <1>4 DEF ConverterNames, Adc123
  <1>6. \A n, m \in 1 .. 3 : DmaPeripheral(Converters[n]) = DmaPeripheral(Converters[m]) => n = m
    BY <1>1, <1>3, <1>4
  <1>7. \A p \in ConverterNames : \E n \in 1 .. 3 : Converters[n] = p
    <2>1. 1 \in 1 .. 3 /\ 2 \in 1 .. 3 /\ 3 \in 1 .. 3
      OBVIOUS
    <2> QED
      BY <1>4, <2>1 DEF ConverterNames
  <1>8. \A f \in Filters : f = 0 \/ f = 1 \/ f = 2 \/ f = 3
    BY DEF Filters
  <1>9. /\ DmaFilter(0) = "dfsdm_filter0" /\ DmaFilter(1) = "dfsdm_filter1"
        /\ DmaFilter(2) = "dfsdm_filter2" /\ DmaFilter(3) = "dfsdm_filter3"
    BY DEF DmaFilter
  <1>10. \A f, g \in Filters : DmaFilter(f) = DmaFilter(g) => f = g
    BY <1>8, <1>9
  <1>11. \A f \in Filters : DmaFilter(f) \in DfsdmFilters /\ f + 1 \in 1 .. 4
    BY <1>8, <1>9 DEF DfsdmFilters
  <1>12. \A x \in DfsdmFilters : x \notin Adc123
    BY DEF DfsdmFilters, Adc123
  <1> QED
    BY <1>3, <1>5, <1>6, <1>7, <1>10, <1>11, <1>12

LEMMA ConvertersAsk ==
  ASSUME NEW es, NEW dma, NEW s, s = AdcContributions(es, dma)
  PROVE  /\ IsList(s) /\ Asking(s) /\ \A i \in 1 .. Len(s) : s[i].instance \in Adc123
         /\ \A p \in ConverterNames :
              IF p \in UsedConverters(es) /\ DmaEntriesFor(p, dma) = {}
              THEN Once(s, DmaPeripheral(p)) ELSE Never(s, DmaPeripheral(p))
  <1> DEFINE Q(n) == Converters[n] \in UsedConverters(es) /\ DmaEntriesFor(Converters[n], dma) = {}
  <1>1. PICK S : S = {n \in 1 .. 3 : Q(n)}
    OBVIOUS
  <1>2. S \in SUBSET (1 .. 3) /\ 3 \in Nat
    BY <1>1
  <1>3. PICK m, picked : m = Cardinality(S) /\ picked = Pick(Converters, S)
    OBVIOUS
  <1>4. /\ m \in Nat /\ DOMAIN picked = 1 .. m
        /\ \A i \in S : Rank(S, i) + 1 \in 1 .. m /\ picked[Rank(S, i) + 1] = Converters[i]
        /\ \A k \in 1 .. m : \E i \in S : Rank(S, i) = k - 1 /\ picked[k] = Converters[i]
    BY <1>2, <1>3, PickTakesEach DEF PickedAt
  <1>5. s = [i \in 1 .. m |-> DmaEntry(DmaPeripheral(picked[i]), none, 0)]
    BY <1>1, <1>3, <1>4 DEF AdcContributions
  <1>6. DOMAIN s = 1 .. m /\ Len(s) = m
    BY <1>4, <1>5
  <1>7. IsList(s)
    <2>1. s = [i \in 1 .. Len(s) |-> s[i]]
      BY <1>5, <1>6
    <2> QED
      BY <1>4, <1>6, <2>1, ListIsAFunction
  <1>8. \A k \in 1 .. m : /\ s[k].instance = DmaPeripheral(picked[k])
                          /\ s[k].stream = none /\ s[k].irqn = none
    BY <1>5 DEF DmaEntry, Irqn
  <1>9. \A k \in 1 .. m : s[k].instance \in Adc123
    <2> TAKE k \in 1 .. m
    <2>1. PICK i \in S : picked[k] = Converters[i]
      BY <1>4
    <2>2. i \in 1 .. 3 /\ s[k].instance = DmaPeripheral(Converters[i])
      BY <1>1, <1>8, <2>1
    <2> QED
      BY <2>2, DmaNames
  <1>10. ASSUME NEW p \in ConverterNames, p \in UsedConverters(es) /\ DmaEntriesFor(p, dma) = {}
         PROVE  Once(s, DmaPeripheral(p))
    <2>1. PICK n \in 1 .. 3 : Converters[n] = p
      BY DmaNames
    <2>2. n \in S
      BY <1>1, <1>10, <2>1
    <2>3. PICK j : j = Rank(S, n) + 1
      OBVIOUS
    <2>4. j \in 1 .. m /\ s[j].instance = DmaPeripheral(p)
      BY <1>4, <1>8, <2>1, <2>2, <2>3
    <2>5. ASSUME NEW i \in 1 .. m, s[i].instance = DmaPeripheral(p) PROVE i = j
      <3>1. PICK l \in S : Rank(S, l) = i - 1 /\ picked[i] = Converters[l]
        BY <1>4
      <3>2. DmaPeripheral(Converters[l]) = DmaPeripheral(Converters[n]) /\ l \in 1 .. 3
        BY <1>1, <1>8, <2>1, <2>5, <3>1
      <3>3. l = n
        BY <3>2, DmaNames
      <3>4. PICK r : r = Rank(S, l)
        OBVIOUS
      <3> QED
        BY <2>3, <3>1, <3>3, <3>4
    <2> QED
      BY <1>6, <2>4, <2>5 DEF Once
  <1>11. ASSUME NEW p \in ConverterNames, ~(p \in UsedConverters(es) /\ DmaEntriesFor(p, dma) = {})
         PROVE  Never(s, DmaPeripheral(p))
    <2> SUFFICES ASSUME NEW i \in 1 .. m, s[i].instance = DmaPeripheral(p) PROVE FALSE
      BY <1>6 DEF Never
    <2>1. PICK n \in 1 .. 3 : Converters[n] = p
      BY DmaNames
    <2>2. PICK l \in S : Rank(S, l) = i - 1 /\ picked[i] = Converters[l]
      BY <1>4
    <2>3. DmaPeripheral(Converters[l]) = DmaPeripheral(Converters[n]) /\ l \in 1 .. 3
      BY <1>1, <1>8, <2>1, <2>2
    <2>4. l = n
      BY <2>3, DmaNames
    <2> QED
      BY <1>1, <1>11, <2>1, <2>4
  <1>12. Asking(s) /\ \A i \in 1 .. Len(s) : s[i].instance \in Adc123
    BY <1>6, <1>8, <1>9 DEF Asking
  <1> QED
    BY <1>7, <1>10, <1>11, <1>12

LEMMA FiltersAsk ==
  ASSUME NEW es, NEW dma, NEW s, s = DfsdmContributions(es, dma)
  PROVE  /\ IsList(s) /\ Asking(s) /\ \A i \in 1 .. Len(s) : s[i].instance \in DfsdmFilters
         /\ \A f \in Filters :
              IF UsesFilterDma(es, f) /\ DmaEntriesForFilter(f, dma) = {}
              THEN Once(s, DmaFilter(f)) ELSE Never(s, DmaFilter(f))
  <1> DEFINE Q(n) == UsesFilterDma(es, n - 1) /\ DmaEntriesForFilter(n - 1, dma) = {}
  <1>1. PICK S : S = {n \in 1 .. 4 : Q(n)}
    OBVIOUS
  <1>2. S \in SUBSET (1 .. 4) /\ 4 \in Nat
    BY <1>1
  <1>3. PICK m, picked : m = Cardinality(S) /\ picked = Pick(<<0, 1, 2, 3>>, S)
    OBVIOUS
  <1>4. /\ m \in Nat /\ DOMAIN picked = 1 .. m
        /\ \A i \in S : Rank(S, i) + 1 \in 1 .. m /\ picked[Rank(S, i) + 1] = <<0, 1, 2, 3>>[i]
        /\ \A k \in 1 .. m : \E i \in S : Rank(S, i) = k - 1 /\ picked[k] = <<0, 1, 2, 3>>[i]
    <2>1. PICK order : order = <<0, 1, 2, 3>>
      OBVIOUS
    <2>2. picked = Pick(order, S)
      BY <1>3, <2>1
    <2>3. /\ m \in Nat /\ DOMAIN picked = 1 .. m
          /\ \A i \in S : Rank(S, i) + 1 \in 1 .. m /\ picked[Rank(S, i) + 1] = order[i]
          /\ \A k \in 1 .. m : \E i \in S : Rank(S, i) = k - 1 /\ picked[k] = order[i]
      <3>1. DOMAIN Pick(order, S) = 1 .. Cardinality(S) /\ Cardinality(S) \in Nat
        BY <1>2, PickTakesEach
      <3>2. \A i \in S : Rank(S, i) + 1 \in 1 .. Cardinality(S) /\ Pick(order, S)[Rank(S, i) + 1] = order[i]
        BY <1>2, PickTakesEach
      <3>3. \A k \in 1 .. Cardinality(S) : PickedAt(order, S, k)
        BY <1>2, PickTakesEach
      <3> QED
        BY <1>3, <2>2, <3>1, <3>2, <3>3 DEF PickedAt
    <2> QED
      BY <2>1, <2>3
  <1>5. \A i \in 1 .. 4 : <<0, 1, 2, 3>>[i] = i - 1 /\ i - 1 \in Filters
    <2>1. \A i \in 1 .. 4 : i = 1 \/ i = 2 \/ i = 3 \/ i = 4
      OBVIOUS
    <2> QED
      BY <2>1 DEF Filters
  <1>6. s = [i \in 1 .. m |-> DmaEntry(DmaFilter(picked[i]), none, 0)]
    BY <1>1, <1>3, <1>4 DEF DfsdmContributions
  <1>7. DOMAIN s = 1 .. m /\ Len(s) = m
    BY <1>4, <1>6
  <1>8. IsList(s)
    <2>1. s = [i \in 1 .. Len(s) |-> s[i]]
      BY <1>6, <1>7
    <2> QED
      BY <1>4, <1>7, <2>1, ListIsAFunction
  <1>9. \A k \in 1 .. m : /\ s[k].instance = DmaFilter(picked[k])
                          /\ s[k].stream = none /\ s[k].irqn = none
    BY <1>6 DEF DmaEntry, Irqn
  <1>10. \A k \in 1 .. m : s[k].instance \in DfsdmFilters
    <2> TAKE k \in 1 .. m
    <2>1. PICK i \in S : picked[k] = <<0, 1, 2, 3>>[i]
      BY <1>4
    <2>2. picked[k] \in Filters
      BY <1>1, <1>5, <2>1
    <2> QED
      BY <1>9, <2>2, DmaNames
  <1>11. ASSUME NEW f \in Filters, NEW i \in 1 .. m, s[i].instance = DmaFilter(f)
         PROVE  f + 1 \in S /\ Rank(S, f + 1) = i - 1
    <2>1. PICK l \in S : Rank(S, l) = i - 1 /\ picked[i] = <<0, 1, 2, 3>>[l]
      BY <1>4
    <2>2. picked[i] = l - 1 /\ l - 1 \in Filters /\ l \in 1 .. 4
      BY <1>1, <1>5, <2>1
    <2>3. l - 1 = f
      BY <1>9, <1>11, <2>2, DmaNames
    <2>4. l = f + 1
      BY <2>2, <2>3
    <2> QED
      BY <2>1, <2>4
  <1>12. ASSUME NEW f \in Filters, UsesFilterDma(es, f) /\ DmaEntriesForFilter(f, dma) = {}
         PROVE  Once(s, DmaFilter(f))
    <2>1. f + 1 \in 1 .. 4 /\ (f + 1) - 1 = f
      BY DmaNames DEF Filters
    <2>2. f + 1 \in S
      BY <1>1, <1>12, <2>1
    <2>3. PICK j : j = Rank(S, f + 1) + 1
      OBVIOUS
    <2>4. j \in 1 .. m /\ picked[j] = f
      BY <1>4, <1>5, <2>1, <2>2, <2>3
    <2>5. s[j].instance = DmaFilter(f)
      BY <1>9, <2>4
    <2>6. ASSUME NEW i \in 1 .. m, s[i].instance = DmaFilter(f) PROVE i = j
      <3>1. PICK r : r = Rank(S, f + 1)
        OBVIOUS
      <3>2. r = i - 1 /\ j = r + 1
        BY <1>11, <2>3, <2>6, <3>1
      <3> QED
        BY <3>2
    <2> QED
      BY <1>7, <2>4, <2>5, <2>6 DEF Once
  <1>13. ASSUME NEW f \in Filters, ~(UsesFilterDma(es, f) /\ DmaEntriesForFilter(f, dma) = {})
         PROVE  Never(s, DmaFilter(f))
    <2> SUFFICES ASSUME NEW i \in 1 .. m, s[i].instance = DmaFilter(f) PROVE FALSE
      BY <1>7 DEF Never
    <2>1. f + 1 \in S /\ (f + 1) - 1 = f
      BY <1>11 DEF Filters
    <2> QED
      BY <1>1, <1>13, <2>1
  <1>14. Asking(s) /\ \A i \in 1 .. Len(s) : s[i].instance \in DfsdmFilters
    BY <1>7, <1>9, <1>10 DEF Asking
  <1> QED
    BY <1>8, <1>12, <1>13, <1>14

LEMMA OnceInTwo ==
  ASSUME NEW s, IsList(s), NEW t, IsList(t), NEW p
  PROVE  /\ Never(s, p) /\ Never(t, p) => Never(s \o t, p)
         /\ Once(s, p) /\ Never(t, p) => Once(s \o t, p)
         /\ Never(s, p) /\ Once(t, p) => Once(s \o t, p)
  <1>1. PICK u, a, b : u = s \o t /\ a = Len(s) /\ b = Len(t)
    OBVIOUS
  <1>2. /\ Len(u) = a + b /\ a \in Nat /\ b \in Nat
        /\ \A i \in 1 .. a : u[i] = s[i]
        /\ \A i \in 1 .. b : u[a + i] = t[i]
    BY <1>1, ListsJoin
  <1>3. \A i \in 1 .. Len(u) : \/ i \in 1 .. a /\ u[i] = s[i]
                               \/ i \notin 1 .. a /\ i - a \in 1 .. b /\ u[i] = t[i - a]
    <2> TAKE i \in 1 .. Len(u)
    <2>1. CASE i <= a
      BY <1>2, <2>1
    <2>2. CASE i > a
      <3>1. i - a \in 1 .. b /\ a + (i - a) = i
        BY <1>2, <2>2
      <3> QED
        BY <1>2, <2>2, <3>1
    <2> QED
      BY <1>2, <2>1, <2>2
  <1>4. Never(s, p) /\ Never(t, p) => Never(u, p)
    BY <1>1, <1>3 DEF Never
  <1>5. ASSUME Once(s, p), Never(t, p) PROVE Once(u, p)
    <2>1. PICK j \in 1 .. a : \A i \in 1 .. a : s[i].instance = p <=> i = j
      BY <1>1, <1>5 DEF Once
    <2>2. \A i \in 1 .. b : t[i].instance # p
      BY <1>1, <1>5 DEF Never
    <2>3. j \in 1 .. Len(u)
      BY <1>2
    <2>4. \A i \in 1 .. Len(u) : u[i].instance = p <=> i = j
      BY <1>3, <2>1, <2>2
    <2> QED
      BY <2>3, <2>4 DEF Once
  <1>6. ASSUME Never(s, p), Once(t, p) PROVE Once(u, p)
    <2>1. PICK j \in 1 .. b : \A i \in 1 .. b : t[i].instance = p <=> i = j
      BY <1>1, <1>6 DEF Once
    <2>2. \A i \in 1 .. a : s[i].instance # p
      BY <1>1, <1>6 DEF Never
    <2>3. a + j \in 1 .. Len(u) /\ a + j \notin 1 .. a
      BY <1>2
    <2>4. \A i \in 1 .. Len(u) : u[i].instance = p <=> i = a + j
      <3> TAKE i \in 1 .. Len(u)
      <3>1. CASE i \in 1 .. a /\ u[i] = s[i]
        BY <2>2, <2>3, <3>1
      <3>2. CASE i \notin 1 .. a /\ i - a \in 1 .. b /\ u[i] = t[i - a]
        <4>1. u[i].instance = p <=> i - a = j
          BY <2>1, <3>2
        <4> QED
          BY <1>2, <4>1
      <3> QED
        BY <1>3, <3>1, <3>2
    <2> QED
      BY <2>3, <2>4 DEF Once
  <1> QED
    BY <1>1, <1>4, <1>5, <1>6

(* The places of one name, when they are at most one.                      *)
LEMMA AtMostOnce ==
  ASSUME NEW s, IsList(s), NEW p, Cardinality({i \in DOMAIN s : s[i].instance = p}) <= 1
  PROVE  IF {i \in DOMAIN s : s[i].instance = p} = {} THEN Never(s, p) ELSE Once(s, p)
  <1>1. Len(s) \in Nat /\ DOMAIN s = 1 .. Len(s)
    BY ListIsAFunction
  <1>2. PICK S : S = {i \in DOMAIN s : s[i].instance = p}
    OBVIOUS
  <1>3. IsFiniteSet(S) /\ Cardinality(S) \in Nat
    BY <1>1, <1>2, RanksCount
  <1>4. CASE S = {}
    BY <1>1, <1>2, <1>4 DEF Never
  <1>5. CASE S # {}
    <2>1. Cardinality(S) # 0
      BY <1>3, <1>5, FS_EmptySet
    <2>2. Cardinality(S) = 1
      BY <1>2, <1>3, <2>1
    <2>3. PICK j : S = {j}
      BY <1>3, <2>2, FS_Singleton
    <2>4. j \in 1 .. Len(s) /\ \A i \in 1 .. Len(s) : s[i].instance = p <=> i = j
      BY <1>1, <1>2, <2>3
    <2> QED
      BY <1>2, <1>5, <2>4 DEF Once
  <1> QED
    BY <1>2, <1>4, <1>5

LEMMA OnceCounts ==
  ASSUME NEW s, IsList(s), NEW p, Once(s, p), NEW t, DOMAIN t = DOMAIN s,
         \A i \in DOMAIN s : t[i].instance = s[i].instance
  PROVE  Cardinality({i \in DOMAIN t : t[i].instance = p}) = 1
  <1>1. DOMAIN t = 1 .. Len(s)
    BY ListIsAFunction
  <1>2. PICK j \in 1 .. Len(s) : \A i \in 1 .. Len(s) : s[i].instance = p <=> i = j
    BY DEF Once
  <1>3. {i \in DOMAIN t : t[i].instance = p} = {j}
    BY <1>1, <1>2
  <1> QED
    BY <1>3, FS_Singleton

(* The merged list: what the devices wrote, then what is asked for.        *)
Streamed(s) == \A i \in 1 .. Len(s) : /\ s[i].stream \in Streams \cup {none}
                                      /\ s[i].irqn = s[i].stream

LEMMA MergedIs ==
  ASSUME NEW c, Written(c), EntriesOK(c), Accepts(c), NEW base, base = Entries(c, "DMA"),
         NEW s, s = MergedDma(c)
  PROVE  /\ IsList(s) /\ Streamed(s)
         /\ IsList(base) /\ Len(base) = Len(c["DMA"]) /\ Len(base) \in Nat
         /\ Len(s) \in Nat /\ Len(base) <= Len(s)
         /\ \A i \in 1 .. Len(base) : s[i] = base[i]
         /\ \A p \in UsedConverters(Entries(c, "ADC")) : Once(s, DmaPeripheral(p))
         /\ \A f \in Filters : UsesFilterDma(Entries(c, "DFSDM"), f) => Once(s, DmaFilter(f))
  <1>1. PICK es, fs : es = Entries(c, "ADC") /\ fs = Entries(c, "DFSDM")
    OBVIOUS
  <1>2. PICK a, d : a = AdcContributions(es, base) /\ d = DfsdmContributions(fs, base)
    OBVIOUS
  <1>3. s = (base \o a) \o d
    BY <1>1, <1>2 DEF MergedDma
  <1>4. /\ IsList(base) /\ Len(base) = Len(c["DMA"]) /\ Len(base) \in Nat
        /\ \A i \in 1 .. Len(base) : base[i] = c["DMA"][i].e
    BY EntriesAre DEF Domains
  <1>5. /\ IsList(a) /\ Asking(a) /\ \A i \in 1 .. Len(a) : a[i].instance \in Adc123
        /\ \A p \in ConverterNames :
              IF p \in UsedConverters(es) /\ DmaEntriesFor(p, base) = {}
              THEN Once(a, DmaPeripheral(p)) ELSE Never(a, DmaPeripheral(p))
    BY <1>2, ConvertersAsk
  <1>6. /\ IsList(d) /\ Asking(d) /\ \A i \in 1 .. Len(d) : d[i].instance \in DfsdmFilters
        /\ \A f \in Filters :
              IF UsesFilterDma(fs, f) /\ DmaEntriesForFilter(f, base) = {}
              THEN Once(d, DmaFilter(f)) ELSE Never(d, DmaFilter(f))
    BY <1>2, FiltersAsk
  <1>7. PICK m : m = base \o a
    OBVIOUS
  <1>8. /\ IsList(m) /\ Len(m) = Len(base) + Len(a) /\ Len(a) \in Nat
        /\ \A i \in 1 .. Len(base) : m[i] = base[i]
        /\ \A i \in 1 .. Len(a) : m[Len(base) + i] = a[i]
    BY <1>4, <1>5, <1>7, ListsJoin
  <1>9. /\ IsList(s) /\ Len(s) = Len(m) + Len(d) /\ Len(d) \in Nat
        /\ \A i \in 1 .. Len(m) : s[i] = m[i]
        /\ \A i \in 1 .. Len(d) : s[Len(m) + i] = d[i]
    <2>1. s = m \o d /\ IsList(m) /\ IsList(d)
      BY <1>3, <1>6, <1>7, <1>8
    <2> QED
      BY <2>1, ListsJoin
  <1>10. \A i \in 1 .. Len(base) : s[i] = base[i]
    <2> TAKE i \in 1 .. Len(base)
    <2>1. i \in 1 .. Len(m)
      BY <1>4, <1>8
    <2> QED
      BY <1>8, <1>9, <2>1
  <1>11. Streamed(s)
    <2> SUFFICES ASSUME NEW i \in 1 .. Len(s)
                 PROVE  s[i].stream \in Streams \cup {none} /\ s[i].irqn = s[i].stream
      BY DEF Streamed
    <2>1. CASE i <= Len(base)
      <3>1. i \in 1 .. Len(base)
        BY <1>4, <2>1
      <3>2. s[i] = c["DMA"][i].e
        BY <1>4, <1>10, <3>1
      <3> QED
        BY <1>4, <3>1, <3>2 DEF EntriesOK, DmaOK
    <2>2. CASE i > Len(base) /\ i <= Len(m)
      <3>1. i - Len(base) \in 1 .. Len(a) /\ i = Len(base) + (i - Len(base)) /\ i \in 1 .. Len(m)
        BY <1>4, <1>8, <2>2
      <3>2. s[i] = a[i - Len(base)]
        BY <1>8, <1>9, <3>1
      <3> QED
        BY <1>5, <3>1, <3>2 DEF Asking
    <2>3. CASE i > Len(m)
      <3>1. i - Len(m) \in 1 .. Len(d) /\ i = Len(m) + (i - Len(m))
        BY <1>4, <1>8, <1>9, <2>3
      <3>2. s[i] = d[i - Len(m)]
        BY <1>9, <3>1
      <3> QED
        BY <1>6, <3>1, <3>2 DEF Asking
    <2> QED
      BY <1>4, <1>8, <2>1, <2>2, <2>3
  <1>12. ASSUME NEW p \in UsedConverters(es) PROVE Once(s, DmaPeripheral(p))
    <2>1. p \in ConverterNames
      <3>1. \A i \in 1 .. Len(c["ADC"]) : c["ADC"][i].e.peripheral \in ConverterNames
        BY DEF EntriesOK, AdcOK, ConverterNames
      <3>2. DOMAIN es = 1 .. Len(c["ADC"]) /\ \A i \in 1 .. Len(c["ADC"]) : es[i] = c["ADC"][i].e
        BY <1>1, EntriesAre DEF Domains
      <3> QED
        BY <3>1, <3>2 DEF UsedConverters
    <2>2. PICK x : x = DmaPeripheral(p)
      OBVIOUS
    <2>3. x \in Adc123
      BY <2>1, <2>2, DmaNames DEF ConverterNames, Adc123
    <2>4. Never(d, x)
      BY <1>6, <2>3, DmaNames DEF Never
    <2>5. PICK E : E = {i \in DOMAIN base : base[i].instance = x}
      OBVIOUS
    <2>6. E = DmaEntriesFor(p, base) /\ Cardinality(E) <= 1
      <3>1. E = DmaEntriesFor(p, base)
        BY <2>2, <2>5 DEF DmaEntriesFor
      <3>2. AdcAccepts(es, base)
        BY <1>1 DEF Accepts
      <3> QED
        BY <3>1, <3>2 DEF AdcAccepts
    <2>7. IF E = {} THEN Never(base, x) ELSE Once(base, x)
      BY <1>4, <2>5, <2>6, AtMostOnce
    <2>8. Once(m, x)
      <3>1. CASE E = {}
        <4>1. Never(base, x) /\ Once(a, x)
          BY <1>5, <2>1, <2>2, <2>6, <2>7, <3>1
        <4> QED
          BY <1>4, <1>5, <1>7, <4>1, OnceInTwo
      <3>2. CASE E # {}
        <4>1. Once(base, x) /\ Never(a, x)
          BY <1>5, <2>1, <2>2, <2>6, <2>7, <3>2
        <4> QED
          BY <1>4, <1>5, <1>7, <4>1, OnceInTwo
      <3> QED
        BY <3>1, <3>2
    <2> QED
      BY <1>3, <1>6, <1>7, <1>8, <2>2, <2>4, <2>8, OnceInTwo
  <1>13. ASSUME NEW f \in Filters, UsesFilterDma(fs, f) PROVE Once(s, DmaFilter(f))
    <2>1. PICK x : x = DmaFilter(f)
      OBVIOUS
    <2>2. x \in DfsdmFilters
      BY <2>1, DmaNames
    <2>3. Never(a, x)
      BY <1>5, <2>2, DmaNames DEF Never
    <2>4. PICK E : E = {i \in DOMAIN base : base[i].instance = x}
      OBVIOUS
    <2>5. E = DmaEntriesForFilter(f, base) /\ Cardinality(E) <= 1
      <3>1. E = DmaEntriesForFilter(f, base)
        BY <2>1, <2>4 DEF DmaEntriesForFilter
      <3>2. DfsdmAccepts(fs, base)
        BY <1>1 DEF Accepts
      <3> QED
        BY <1>13, <3>1, <3>2 DEF DfsdmAccepts
    <2>6. IF E = {} THEN Never(base, x) ELSE Once(base, x)
      BY <1>4, <2>4, <2>5, AtMostOnce
    <2>7. CASE E = {}
      <3>1. Never(base, x) /\ Once(d, x)
        BY <1>6, <1>13, <2>1, <2>5, <2>6, <2>7
      <3>2. Never(m, x)
        BY <1>4, <1>5, <1>7, <2>3, <3>1, OnceInTwo
      <3> QED
        BY <1>3, <1>6, <1>7, <1>8, <2>1, <3>1, <3>2, OnceInTwo
    <2>8. CASE E # {}
      <3>1. Once(base, x) /\ Never(d, x)
        BY <1>6, <2>1, <2>5, <2>6, <2>8
      <3>2. Once(m, x)
        BY <1>4, <1>5, <1>7, <2>3, <3>1, OnceInTwo
      <3> QED
        BY <1>3, <1>6, <1>7, <1>8, <2>1, <3>1, <3>2, OnceInTwo
    <2> QED
      BY <2>7, <2>8
  <1>14. Len(s) \in Nat /\ Len(base) <= Len(s)
    BY <1>4, <1>8, <1>9
  <1> QED
    BY <1>1, <1>4, <1>9, <1>10, <1>11, <1>12, <1>13, <1>14

-----------------------------------------------------------------------------
(* The streams: those that are named, and for the others the free ones in  *)
(* their order.                                                            *)
LEMMA CountsUpTo ==
  ASSUME NEW n \in Nat, NEW S \in SUBSET (1 .. n), NEW i \in S
  PROVE  Cardinality({j \in S : j <= i}) = Rank(S, i) + 1
  <1>1. PICK T : T = {j \in S : j < i}
    OBVIOUS
  <1>2. IsFiniteSet(T)
    <2>1. IsFiniteSet(S)
      BY RanksCount
    <2> QED
      BY <1>1, <2>1, T \in SUBSET S, FS_Subset
  <1>3. {j \in S : j <= i} = T \cup {i} /\ i \notin T
    <2>1. \A j \in S : j \in Nat
      OBVIOUS
    <2>2. \A j \in S : j <= i <=> j < i \/ j = i
      BY <2>1
    <2>3. ~(i < i)
      BY <2>1
    <2> QED
      BY <1>1, <2>1, <2>2, <2>3
  <1>4. Cardinality(T \cup {i}) = Cardinality(T) + 1
    BY <1>2, <1>3, FS_AddElement
  <1> QED
    BY <1>1, <1>3, <1>4 DEF Rank

LEMMA FreeIsOnesOwn ==
  ASSUME NEW s, IsList(s), DmaAccepts(s)
  PROVE  /\ \A i \in Unnamed(s) : Free(s, i) \in Streams \ Wanted(s)
         /\ \A i, j \in Unnamed(s) : Free(s, i) = Free(s, j) => i = j
  <1>1. Len(s) \in Nat /\ DOMAIN s = 1 .. Len(s)
    BY ListIsAFunction
  <1>2. PICK W, L, n : W = Unnamed(s) /\ L = Streams \ Wanted(s) /\ n = Len(s)
    OBVIOUS
  <1>3. W \in SUBSET (1 .. n) /\ n \in Nat /\ L \in SUBSET (1 .. 16) /\ 16 \in Nat
    BY <1>1, <1>2 DEF Unnamed, Streams
  <1>4. Cardinality(W) <= Cardinality(L)
    BY <1>2 DEF DmaAccepts
  <1>5. /\ Cardinality(W) \in Nat
        /\ \A i \in W : Rank(W, i) \in 0 .. Cardinality(W) - 1
        /\ \A i, j \in W : i < j => Rank(W, i) < Rank(W, j)
    BY <1>3, RanksCount
  <1>6. /\ Cardinality(L) \in Nat
        /\ \A k \in 0 .. Cardinality(L) - 1 : \E x \in L : Rank(L, x) = k
    <2>1. PICK m : m = 16
      OBVIOUS
    <2>2. m \in Nat /\ L \in SUBSET (1 .. m)
      BY <1>3, <2>1
    <2> QED
      BY <2>2, RanksCount
  <1>7. \A i \in W : Free(s, i) \in L /\ Rank(L, Free(s, i)) = Rank(W, i)
    <2> TAKE i \in W
    <2>1. PICK k : k = Rank(W, i) + 1
      OBVIOUS
    <2>2. Rank(W, i) \in Nat /\ k \in Nat /\ k - 1 = Rank(W, i) /\ k - 1 \in 0 .. Cardinality(L) - 1
      BY <1>4, <1>5, <1>6, <2>1
    <2>3. PICK x \in L : Rank(L, x) = k - 1
      BY <1>6, <2>2
    <2>4. \A y \in L : Cardinality({t \in L : t <= y}) = Rank(L, y) + 1
      BY <1>3, CountsUpTo
    <2>5. Cardinality({t \in L : t <= x}) = k
      BY <2>2, <2>3, <2>4
    <2>6. Cardinality({j \in W : j <= i}) = k
      BY <1>3, <2>1, CountsUpTo
    <2>7. Free(s, i) = CHOOSE y \in L : Cardinality({t \in L : t <= y}) = k
      BY <1>2, <2>6 DEF Free
    <2>8. Free(s, i) \in L /\ Cardinality({t \in L : t <= Free(s, i)}) = k
      BY <2>5, <2>7
    <2>9. PICK r : r = Rank(L, Free(s, i))
      OBVIOUS
    <2>10. r + 1 = k /\ r \in Nat
      <3>1. r \in 0 .. Cardinality(L) - 1
        BY <1>3, <2>8, <2>9, RanksCount
      <3> QED
        BY <1>6, <2>4, <2>8, <2>9, <3>1
    <2> QED
      BY <2>2, <2>8, <2>9, <2>10
  <1>8. \A i, j \in W : Free(s, i) = Free(s, j) => i = j
    <2> SUFFICES ASSUME NEW i \in W, NEW j \in W, Free(s, i) = Free(s, j), i # j PROVE FALSE
      OBVIOUS
    <2>1. Rank(W, i) = Rank(W, j)
      BY <1>7
    <2>2. i < j \/ j < i
      BY <1>3
    <2>3. Rank(W, i) < Rank(W, j) \/ Rank(W, j) < Rank(W, i)
      BY <1>5, <2>2
    <2>4. Rank(W, i) \in Nat /\ Rank(W, j) \in Nat
      BY <1>5
    <2> QED
      BY <2>1, <2>3, <2>4
  <1> QED
    BY <1>2, <1>7, <1>8

LEMMA StreamsAreShared ==
  ASSUME NEW s, IsList(s), Streamed(s), DmaAccepts(s), NEW g, g = DmaBuild(s)
  PROVE  /\ DOMAIN g = DOMAIN s /\ DOMAIN g = 1 .. Len(s)
         /\ \A i \in DOMAIN g : /\ g[i].stream \in Streams /\ g[i].irqn = g[i].stream
                                /\ g[i].instance = s[i].instance
                                /\ g[i].request = Request(s[i].instance, s[i].id)
                                /\ s[i].stream \in {none, g[i].stream}
         /\ \A i, j \in DOMAIN g : g[i].stream = g[j].stream => i = j
  <1>1. Len(s) \in Nat /\ DOMAIN s = 1 .. Len(s)
    BY ListIsAFunction
  <1>2. DOMAIN g = DOMAIN s
    BY DEF DmaBuild
  <1>3. \A i \in DOMAIN s : /\ g[i].stream = StreamOf(s, i) /\ g[i].irqn = IrqnOf(s, i)
                            /\ g[i].instance = s[i].instance
                            /\ g[i].request = Request(s[i].instance, s[i].id)
    BY DEF DmaBuild
  <1>4. \A i \in Named(s) : /\ g[i].stream = s[i].stream /\ g[i].irqn = g[i].stream
                            /\ g[i].stream \in Streams /\ g[i].stream \in Wanted(s)
    <2> TAKE i \in Named(s)
    <2>1. i \in 1 .. Len(s) /\ s[i].stream # none /\ i \in DOMAIN s
      BY <1>1 DEF Named
    <2>2. s[i].stream \in Streams \cup {none} /\ s[i].irqn = s[i].stream
      BY <2>1 DEF Streamed
    <2>3. g[i].stream = s[i].stream /\ g[i].irqn = s[i].irqn
      BY <1>3, <2>1 DEF StreamOf, IrqnOf
    <2> QED
      BY <2>1, <2>2, <2>3 DEF Wanted
  <1>5. \A i \in Unnamed(s) : /\ g[i].stream = Free(s, i) /\ g[i].irqn = g[i].stream
                              /\ g[i].stream \in Streams \ Wanted(s) /\ s[i].stream = none
    <2> TAKE i \in Unnamed(s)
    <2>1. i \in DOMAIN s /\ s[i].stream = none
      BY DEF Unnamed, Named
    <2>2. g[i].stream = Free(s, i) /\ g[i].irqn = Free(s, i)
      BY <1>3, <2>1 DEF StreamOf, IrqnOf, Irqn
    <2> QED
      BY <2>1, <2>2, FreeIsOnesOwn
  <1>6. \A i \in DOMAIN s : i \in Named(s) \/ i \in Unnamed(s)
    BY DEF Unnamed
  <1>7. ASSUME NEW i \in DOMAIN s, NEW j \in DOMAIN s, g[i].stream = g[j].stream PROVE i = j
    <2>1. CASE i \in Named(s) /\ j \in Named(s)
      <3>1. s[i].stream = s[j].stream
        BY <1>4, <1>7, <2>1
      <3> QED
        BY <2>1, <3>1 DEF DmaAccepts
    <2>2. CASE i \in Named(s) /\ j \in Unnamed(s)
      BY <1>4, <1>5, <1>7, <2>2
    <2>3. CASE i \in Unnamed(s) /\ j \in Named(s)
      BY <1>4, <1>5, <1>7, <2>3
    <2>4. CASE i \in Unnamed(s) /\ j \in Unnamed(s)
      BY <1>5, <1>7, <2>4, FreeIsOnesOwn
    <2> QED
      BY <1>6, <2>1, <2>2, <2>3, <2>4
  <1> QED
    BY <1>1, <1>2, <1>3, <1>4, <1>5, <1>6, <1>7

(* An interrupt that is enabled finds the handle of its own stream.        *)
LEMMA IrqsFindTheirHandles ==
  ASSUME NEW g, NEW failed, \A i \in DOMAIN g : g[i].irqn = g[i].stream,
         NEW s \in DmaIrqsEnabled(g, failed)
  PROVE  /\ s \in DOMAIN DmaIrqTable(g, failed)
         /\ DmaInit(g, failed)[DmaIrqTable(g, failed)[s]].stream = s
  <1>1. PICK i \in DOMAIN g \ failed : g[i].stream = s
    BY DEF DmaIrqsEnabled
  <1>2. s \in {g[j].stream : j \in DOMAIN g \ failed}
    BY <1>1
  <1>3. PICK j : j = CHOOSE l \in DOMAIN g \ failed : g[l].stream = s
    OBVIOUS
  <1>4. j \in DOMAIN g \ failed /\ g[j].stream = s
    BY <1>1, <1>3
  <1>5. DmaIrqTable(g, failed)[s] = j
    BY <1>2, <1>3 DEF DmaIrqTable
  <1>6. DmaInit(g, failed)[j].stream = s
    BY <1>4 DEF DmaInit, Handle
  <1>7. s \in DOMAIN DmaIrqTable(g, failed)
    BY <1>2 DEF DmaIrqTable
  <1> QED
    BY <1>5, <1>6, <1>7

-----------------------------------------------------------------------------
(* The controllers: each number leads to its own, and the streams of each  *)
(* one have its width.                                                     *)
LEMMA SpiNumbers ==
  /\ \A p \in SpiPeripherals : SpiNumber(p) \in 1 .. 6
  /\ \A p, q \in SpiPeripherals : SpiNumber(p) = SpiNumber(q) => p = q
  <1>1. \A n \in 1 .. 6 : n = 1 \/ n = 2 \/ n = 3 \/ n = 4 \/ n = 5 \/ n = 6
    OBVIOUS
  <1>2. PICK names : names = <<"spi1", "spi2", "spi3", "spi4", "spi5", "spi6">>
    OBVIOUS
  <1>3. \A p \in SpiPeripherals : \E n \in 1 .. 6 : names[n] = p
    <2>1. 1 \in 1 .. 6 /\ 2 \in 1 .. 6 /\ 3 \in 1 .. 6 /\ 4 \in 1 .. 6 /\ 5 \in 1 .. 6 /\ 6 \in 1 .. 6
      OBVIOUS
    <2>2. /\ names[1] = "spi1" /\ names[2] = "spi2" /\ names[3] = "spi3"
          /\ names[4] = "spi4" /\ names[5] = "spi5" /\ names[6] = "spi6"
      BY <1>2
    <2> QED
      BY <2>1, <2>2 DEF SpiPeripherals
  <1>4. \A p : SpiNumber(p) = CHOOSE n \in 1 .. 6 : names[n] = p
    BY <1>2 DEF SpiNumber
  <1>5. \A p \in SpiPeripherals : SpiNumber(p) \in 1 .. 6 /\ names[SpiNumber(p)] = p
    BY <1>3, <1>4
  <1> QED
    BY <1>5

LEMMA ExtremesOfOne ==
  \A x \in Nat : Max({x}) = x /\ Min({x}) = x
  <1> TAKE x \in Nat
  <1>1. Max({x}) = x
    BY DEF Max
  <1>2. Min({x}) = x
    BY DEF Min
  <1> QED
    BY <1>1, <1>2

Controllers(cfgs, n) ==
  /\ DOMAIN cfgs = 1 .. n
  /\ \A i \in 1 .. n : cfgs[i].peripheral \in SpiPeripherals
  /\ \A i, j \in 1 .. n : cfgs[i].peripheral = cfgs[j].peripheral => i = j
  /\ \A i, j \in 1 .. n : i # j => Uses2(cfgs[i]) \cap Uses2(cfgs[j]) = {}

LEMMA SpiReach ==
  ASSUME NEW n \in Nat, NEW cfgs, Controllers(cfgs, n), NEW failed \in AtMostOne(DOMAIN cfgs)
  PROVE  /\ SpiUp(cfgs, failed) \subseteq SpiTouched(cfgs, failed)
         /\ SpiTouched(cfgs, failed) \subseteq 1 .. n
         /\ failed = {} => SpiUp(cfgs, failed) = 1 .. n
  <1>1. CASE failed = {}
    BY <1>1 DEF SpiUp, SpiTouched, Controllers
  <1>2. CASE failed # {}
    <2>1. PICK s \in 1 .. n : failed = {s}
      BY <1>2 DEF AtMostOne, Controllers
    <2>2. Min(failed) = s
      BY <2>1, ExtremesOfOne
    <2>3. SpiUp(cfgs, failed) = 1 .. s - 1 /\ SpiTouched(cfgs, failed) = 1 .. s
      BY <1>2, <2>2 DEF SpiUp, SpiTouched
    <2>4. 1 .. s - 1 \subseteq 1 .. s /\ 1 .. s \subseteq 1 .. n
      OBVIOUS
    <2> QED
      BY <1>2, <2>3, <2>4
  <1> QED
    BY <1>1, <1>2

LEMMA SpiTableFinds ==
  ASSUME NEW n \in Nat, NEW cfgs, Controllers(cfgs, n), NEW failed \in AtMostOne(DOMAIN cfgs)
  PROVE  /\ \A m \in 1 .. 6 : SpiInstances(cfgs, failed)[m] # 0 =>
               /\ SpiInstances(cfgs, failed)[m] \in SpiTouched(cfgs, failed)
               /\ SpiNumber(cfgs[SpiInstances(cfgs, failed)[m]].peripheral) = m
         /\ failed = {} => \A i \in 1 .. n :
               SpiInstances(cfgs, failed)[SpiNumber(cfgs[i].peripheral)] = i
  <1> DEFINE found(m) == {i \in SpiUp(cfgs, failed) : SpiNumber(cfgs[i].peripheral) = m}
  <1>1. PICK table : table = SpiInstances(cfgs, failed)
    OBVIOUS
  <1>2. \A m \in 1 .. 6 : table[m] = IF found(m) = {} THEN 0 ELSE Max(found(m))
    BY <1>1 DEF SpiInstances
  <1>3. /\ SpiUp(cfgs, failed) \subseteq SpiTouched(cfgs, failed)
        /\ SpiTouched(cfgs, failed) \subseteq 1 .. n
        /\ failed = {} => SpiUp(cfgs, failed) = 1 .. n
    BY SpiReach
  <1>4. \A m \in 1 .. 6 : \A i \in found(m) : found(m) = {i} /\ i \in Nat
    <2> TAKE m \in 1 .. 6
    <2> SUFFICES ASSUME NEW i \in found(m), NEW j \in found(m) PROVE i = j /\ i \in Nat
      OBVIOUS
    <2>1. i \in 1 .. n /\ j \in 1 .. n /\ SpiNumber(cfgs[i].peripheral) = SpiNumber(cfgs[j].peripheral)
      BY <1>3
    <2>2. cfgs[i].peripheral = cfgs[j].peripheral
      BY <2>1, SpiNumbers DEF Controllers
    <2> QED
      BY <2>1, <2>2 DEF Controllers
  <1>5. \A m \in 1 .. 6 : \A i \in found(m) : table[m] = i
    <2> TAKE m \in 1 .. 6
    <2> TAKE i \in found(m)
    <2>1. found(m) = {i} /\ i \in Nat
      BY <1>4
    <2>2. Max({i}) = i
      BY <2>1, ExtremesOfOne
    <2>3. table[m] = Max(found(m))
      BY <1>2, <2>1
    <2> QED
      BY <2>1, <2>2, <2>3
  <1>6. ASSUME NEW m \in 1 .. 6, table[m] # 0
        PROVE  table[m] \in SpiTouched(cfgs, failed) /\ SpiNumber(cfgs[table[m]].peripheral) = m
    <2>1. PICK i : i \in found(m)
      BY <1>2, <1>6
    <2>2. table[m] = i
      BY <1>5, <2>1
    <2> QED
      BY <1>3, <2>1, <2>2
  <1>7. ASSUME failed = {}, NEW i \in 1 .. n PROVE table[SpiNumber(cfgs[i].peripheral)] = i
    <2>1. PICK m : m = SpiNumber(cfgs[i].peripheral)
      OBVIOUS
    <2>2. m \in 1 .. 6
      BY <2>1, SpiNumbers DEF Controllers
    <2>3. i \in found(m)
      BY <1>3, <1>7, <2>1
    <2> QED
      BY <1>5, <2>1, <2>2, <2>3
  <1> QED
    BY <1>1, <1>6, <1>7

LEMMA SpiWidthsMatch ==
  ASSUME NEW n \in Nat, NEW cfgs, Controllers(cfgs, n), NEW failed \in AtMostOne(DOMAIN cfgs),
         NEW dma, NEW i \in SpiTouched(cfgs, failed),
         cfgs[i].rx \in DOMAIN dma, cfgs[i].tx \in DOMAIN dma
  PROVE  /\ SpiInit(cfgs, failed, SpiFreq)[i].peripheral = cfgs[i].peripheral
         /\ SpiInit(cfgs, failed, SpiFreq)[i].rx = cfgs[i].rx
         /\ SpiInit(cfgs, failed, SpiFreq)[i].tx = cfgs[i].tx
         /\ SpiDmaWidths(cfgs, failed, dma)[cfgs[i].rx] = SpiInit(cfgs, failed, SpiFreq)[i].width
         /\ SpiDmaWidths(cfgs, failed, dma)[cfgs[i].tx] = SpiInit(cfgs, failed, SpiFreq)[i].width
  <1>1. SpiTouched(cfgs, failed) \subseteq 1 .. n
    BY SpiReach
  <1>2. i \in DOMAIN cfgs /\ i \in 1 .. n
    BY <1>1 DEF Controllers
  <1>3. /\ SpiInit(cfgs, failed, SpiFreq)[i].peripheral = cfgs[i].peripheral
        /\ SpiInit(cfgs, failed, SpiFreq)[i].rx = cfgs[i].rx
        /\ SpiInit(cfgs, failed, SpiFreq)[i].tx = cfgs[i].tx
        /\ SpiInit(cfgs, failed, SpiFreq)[i].width = SpiWidth(cfgs[i].config.bits)
    BY <1>2 DEF SpiInit
  <1>4. ASSUME NEW h \in Uses2(cfgs[i]) PROVE SpiDmaWidths(cfgs, failed, dma)[h] = SpiWidth(cfgs[i].config.bits)
    <2>1. PICK users : users = {j \in SpiTouched(cfgs, failed) : h \in {cfgs[j].rx, cfgs[j].tx}}
      OBVIOUS
    <2>2. users = {i}
      <3>1. i \in users
        BY <2>1 DEF Uses2
      <3>2. ASSUME NEW j \in users PROVE j = i
        <4>1. j \in 1 .. n /\ h \in Uses2(cfgs[j])
          BY <1>1, <2>1 DEF Uses2
        <4> QED
          BY <1>2, <4>1 DEF Controllers
      <3> QED
        BY <3>1, <3>2
    <2>3. Max(users) = i /\ users # {}
      BY <1>2, <2>2, ExtremesOfOne
    <2>4. h \in DOMAIN dma
      BY DEF Uses2
    <2> QED
      BY <2>1, <2>3, <2>4 DEF SpiDmaWidths
  <1> QED
    BY <1>3, <1>4 DEF Uses2

-----------------------------------------------------------------------------
(* The streams of a board that is built: what its devices wrote comes      *)
(* first, no stream is given twice, and who needs one has one.             *)
LEMMA DmaParts ==
  ASSUME NEW c, Written(c), EntriesOK(c), Accepts(c), NEW g, g = DmaBuild(MergedDma(c)),
         NEW n, n = Len(c["DMA"])
  PROVE  /\ n \in Nat /\ 1 .. n \subseteq DOMAIN g
         /\ \A i \in DOMAIN g : g[i].stream \in Streams /\ g[i].irqn = g[i].stream
         /\ \A i, j \in DOMAIN g : g[i].stream = g[j].stream => i = j
         /\ \A i \in 1 .. n : /\ g[i].instance = c["DMA"][i].e.instance
                              /\ g[i].request = Request(c["DMA"][i].e.instance, c["DMA"][i].e.id)
                              /\ c["DMA"][i].e.stream \in {none, g[i].stream}
                              /\ g[i].request # <<>>
         /\ \A p \in UsedConverters(Entries(c, "ADC")) :
              Cardinality({i \in DOMAIN g : g[i].instance = DmaPeripheral(p)}) = 1
         /\ \A f \in Filters : UsesFilterDma(Entries(c, "DFSDM"), f) =>
              Cardinality({i \in DOMAIN g : g[i].instance = DmaFilter(f)}) = 1
  <1>1. PICK base, s : base = Entries(c, "DMA") /\ s = MergedDma(c)
    OBVIOUS
  <1>2. /\ IsList(s) /\ Streamed(s) /\ Len(base) = n /\ n \in Nat
        /\ Len(s) \in Nat /\ n <= Len(s)
        /\ \A i \in 1 .. n : s[i] = base[i]
        /\ \A p \in UsedConverters(Entries(c, "ADC")) : Once(s, DmaPeripheral(p))
        /\ \A f \in Filters : UsesFilterDma(Entries(c, "DFSDM"), f) => Once(s, DmaFilter(f))
    BY <1>1, MergedIs
  <1>3. DmaAccepts(s) /\ g = DmaBuild(s)
    BY <1>1 DEF Accepts
  <1>4. /\ DOMAIN g = DOMAIN s /\ DOMAIN g = 1 .. Len(s)
        /\ \A i \in DOMAIN g : /\ g[i].stream \in Streams /\ g[i].irqn = g[i].stream
                               /\ g[i].instance = s[i].instance
                               /\ g[i].request = Request(s[i].instance, s[i].id)
                               /\ s[i].stream \in {none, g[i].stream}
        /\ \A i, j \in DOMAIN g : g[i].stream = g[j].stream => i = j
    BY <1>2, <1>3, StreamsAreShared
  <1>5. \A i \in 1 .. n : base[i] = c["DMA"][i].e
    BY <1>1, EntriesAre DEF Domains
  <1>6. \A i \in 1 .. n : i \in DOMAIN g /\ i \in DOMAIN s /\ s[i] = c["DMA"][i].e
    BY <1>2, <1>4, <1>5
  <1>7. \A i \in DOMAIN s : Request(s[i].instance, s[i].id) # <<>>
    BY <1>3 DEF DmaAccepts
  <1>8. ASSUME NEW p, Once(s, p) PROVE Cardinality({i \in DOMAIN g : g[i].instance = p}) = 1
    <2>1. \A i \in DOMAIN s : g[i].instance = s[i].instance
      BY <1>4
    <2> QED
      BY <1>2, <1>4, <1>8, <2>1, OnceCounts
  <1> QED
    BY <1>2, <1>4, <1>6, <1>7, <1>8

(* A filter whose first channel moves its words by DMA has a channel that  *)
(* asked for it.                                                           *)
LEMMA FirstAsked ==
  ASSUME NEW c, Written(c), EntriesOK(c), NEW es, es = Entries(c, "DFSDM"),
         NEW cfgs, cfgs = DfsdmBuild(es), NEW f \in FiltersInUse(cfgs)
  PROVE  f \in Filters /\ (FirstOn(cfgs, f).dma => UsesFilterDma(es, f))
  <1>1. PICK n : n = Len(c["DFSDM"])
    OBVIOUS
  <1>2. n \in Nat /\ DOMAIN es = 1 .. n /\ \A i \in 1 .. n : es[i] = c["DFSDM"][i].e
    BY <1>1, EntriesAre DEF Domains
  <1>3. \A i \in 1 .. n : es[i].config.filter \in Filters
    BY <1>1, <1>2 DEF EntriesOK, FilterOK
  <1>4. /\ DOMAIN cfgs = 1 .. n
        /\ \A i \in 1 .. n : cfgs[i].filter = es[i].config.filter /\ cfgs[i].dma = es[i].config.dma
    BY <1>2 DEF DfsdmBuild
  <1>5. PICK S : S = {i \in 1 .. n : cfgs[i].filter = f}
    OBVIOUS
  <1>6. PICK i \in 1 .. n : cfgs[i].filter = f
    BY <1>4 DEF FiltersInUse
  <1>7. S \in SUBSET (1 .. n) /\ i \in S
    BY <1>5, <1>6
  <1>8. Cardinality(S) \in Nat /\ Rank(S, i) + 1 \in 1 .. Cardinality(S)
    BY <1>2, <1>7, PickTakesEach
  <1>9. 1 \in 1 .. Cardinality(S)
    BY <1>8
  <1>10. PickedAt(cfgs, S, 1)
    BY <1>2, <1>7, <1>9, PickTakesEach
  <1>11. PICK j \in S : Pick(cfgs, S)[1] = cfgs[j]
    BY <1>10 DEF PickedAt
  <1>12. OfFilter(cfgs, f) = Pick(cfgs, S)
    BY <1>4, <1>5 DEF OfFilter
  <1>13. j \in 1 .. n /\ FirstOn(cfgs, f) = cfgs[j] /\ cfgs[j].filter = f
    BY <1>5, <1>11, <1>12 DEF FirstOn
  <1>14. j \in OnFilter(es, f) /\ es[j].config.dma = FirstOn(cfgs, f).dma
    BY <1>2, <1>4, <1>13 DEF OnFilter
  <1> QED
    BY <1>3, <1>4, <1>13, <1>14 DEF UsesFilterDma

LEMMA BoardControllers ==
  ASSUME NEW c, Written(c), EntriesOK(c), Accepts(c), NEW cfgs, cfgs = Entries(c, "SPI"),
         NEW n, n = Len(c["SPI"]), NEW m, m = Len(c["DMA"])
  PROVE  /\ n \in Nat /\ Controllers(cfgs, n)
         /\ \A i \in 1 .. n : cfgs[i].rx \in 1 .. m /\ cfgs[i].tx \in 1 .. m
  <1>1. n \in Nat /\ DOMAIN cfgs = 1 .. n /\ \A i \in 1 .. n : cfgs[i] = c["SPI"][i].e
    BY EntriesAre DEF Domains
  <1>2. SpiOK(c["SPI"], m)
    BY DEF EntriesOK
  <1>3. \A i \in 1 .. n : /\ cfgs[i].peripheral \in SpiPeripherals
                          /\ cfgs[i].rx \in 1 .. m /\ cfgs[i].tx \in 1 .. m
    BY <1>1, <1>2 DEF SpiOK
  <1>4. \A i, j \in 1 .. n : i # j => Uses2(cfgs[i]) \cap Uses2(cfgs[j]) = {}
    BY <1>1, <1>2 DEF SpiOK
  <1>5. \A i, j \in 1 .. n : cfgs[i].peripheral = cfgs[j].peripheral => i = j
    <2>1. \A i, j \in DOMAIN cfgs : i < j => cfgs[i].peripheral # cfgs[j].peripheral
      BY DEF Accepts, SpiAccepts
    <2> QED
      BY <1>1, <2>1
  <1> QED
    BY <1>1, <1>3, <1>4, <1>5 DEF Controllers

LEMMA StreamsHaveHandles == BoardInv => EveryStreamHasItsHandle
  <1> SUFFICES ASSUME BoardInv, phase = "running"
               PROVE  EveryStreamHasItsHandle
    BY DEF EveryStreamHasItsHandle, Running
  <1>1. Written(ctx) /\ EntriesOK(ctx) /\ Accepts(ctx) /\ cfg = Built(ctx) /\ StartedFrom(cfg, inst)
    BY RunningParts
  <1>2. PICK dmaFailed \in AtMostOne(DOMAIN cfg.DMA), spiFailed \in AtMostOne(DOMAIN cfg.SPI),
             adcFailed \in AtMostOne(UsedConverters(cfg.ADC)) :
                inst = Started(cfg, dmaFailed, spiFailed, adcFailed)
    BY <1>1 DEF StartedFrom
  <1>3. /\ cfg.DMA = DmaBuild(MergedDma(ctx)) /\ cfg.SPI = Entries(ctx, "SPI")
        /\ cfg.ADC = AdcBuild(Entries(ctx, "ADC")) /\ cfg.DFSDM = DfsdmBuild(Entries(ctx, "DFSDM"))
    BY <1>1, BuiltParts
  <1>4. /\ inst.DMA = DmaInit(cfg.DMA, dmaFailed)
        /\ inst.dmaTable = DmaIrqTable(cfg.DMA, dmaFailed)
        /\ inst.dmaIrqs = DmaIrqsEnabled(cfg.DMA, dmaFailed)
        /\ inst.SPI = SpiInit(cfg.SPI, spiFailed, SpiFreq)
        /\ inst.spiTable = SpiInstances(cfg.SPI, spiFailed)
        /\ inst.spiPanic = SpiPanics(cfg.SPI, spiFailed, SpiFreq)
        /\ inst.widths = SpiDmaWidths(cfg.SPI, spiFailed, cfg.DMA)
    BY <1>2, StartedParts
  <1>5. PICK m, n, g, cfgs : /\ m = Len(ctx["DMA"]) /\ n = Len(ctx["SPI"])
                             /\ g = cfg.DMA /\ cfgs = cfg.SPI
    OBVIOUS
  <1>6. /\ m \in Nat /\ 1 .. m \subseteq DOMAIN g
        /\ \A i \in DOMAIN g : g[i].stream \in Streams /\ g[i].irqn = g[i].stream
        /\ \A i, j \in DOMAIN g : g[i].stream = g[j].stream => i = j
        /\ \A i \in 1 .. m : /\ g[i].instance = ctx["DMA"][i].e.instance
                             /\ g[i].request = Request(ctx["DMA"][i].e.instance, ctx["DMA"][i].e.id)
                             /\ ctx["DMA"][i].e.stream \in {none, g[i].stream}
                             /\ g[i].request # <<>>
        /\ \A p \in UsedConverters(Entries(ctx, "ADC")) :
              Cardinality({i \in DOMAIN g : g[i].instance = DmaPeripheral(p)}) = 1
        /\ \A f \in Filters : UsesFilterDma(Entries(ctx, "DFSDM"), f) =>
              Cardinality({i \in DOMAIN g : g[i].instance = DmaFilter(f)}) = 1
    <2>1. g = DmaBuild(MergedDma(ctx)) /\ m = Len(ctx["DMA"])
      BY <1>3, <1>5
    <2>2. Written(ctx) /\ EntriesOK(ctx) /\ Accepts(ctx)
      BY <1>1
    <2> QED
      BY <2>1, <2>2, DmaParts
  <1>7. /\ n \in Nat /\ Controllers(cfgs, n)
        /\ \A i \in 1 .. n : cfgs[i].rx \in 1 .. m /\ cfgs[i].tx \in 1 .. m
    BY <1>1, <1>3, <1>5, BoardControllers
  <1>8. ASSUME NEW s \in inst.dmaIrqs
        PROVE  s \in DOMAIN inst.dmaTable /\ inst.DMA[inst.dmaTable[s]].stream = s
    <2>1. \A i \in DOMAIN g : g[i].irqn = g[i].stream
      BY <1>6
    <2>2. s \in DmaIrqsEnabled(g, dmaFailed)
      BY <1>4, <1>5
    <2>3. s \in DOMAIN DmaIrqTable(g, dmaFailed) /\ DmaInit(g, dmaFailed)[DmaIrqTable(g, dmaFailed)[s]].stream = s
      BY <2>1, <2>2, IrqsFindTheirHandles
    <2> QED
      BY <1>4, <1>5, <2>3
  <1>9. ASSUME NEW i \in DOMAIN Entries(ctx, "DMA")
        PROVE  cfg.DMA[i].instance = Entries(ctx, "DMA")[i].instance
    <2>1. i \in 1 .. m /\ Entries(ctx, "DMA")[i] = ctx["DMA"][i].e
      BY <1>1, <1>5, EntriesAre DEF Domains
    <2> QED
      BY <1>5, <1>6, <2>1
  <1>10. ASSUME NEW p \in UsedConverters(cfg.ADC)
         PROVE  Cardinality({i \in DOMAIN cfg.DMA : cfg.DMA[i].instance = DmaPeripheral(p)}) = 1
    <2>1. UsedConverters(cfg.ADC) = UsedConverters(Entries(ctx, "ADC"))
      BY <1>3 DEF UsedConverters, AdcBuild
    <2>2. Cardinality({i \in DOMAIN g : g[i].instance = DmaPeripheral(p)}) = 1
      BY <1>6, <2>1
    <2>3. cfg.DMA = g
      BY <1>5
    <2> QED
      BY <2>2, <2>3
  <1>11. ASSUME NEW f \in FiltersInUse(cfg.DFSDM), FirstOn(cfg.DFSDM, f).dma
         PROVE  Cardinality({i \in DOMAIN cfg.DMA : cfg.DMA[i].instance = DmaFilter(f)}) = 1
    <2>1. f \in Filters /\ UsesFilterDma(Entries(ctx, "DFSDM"), f)
      BY <1>1, <1>3, <1>11, FirstAsked
    <2>2. Cardinality({i \in DOMAIN g : g[i].instance = DmaFilter(f)}) = 1
      BY <1>6, <2>1
    <2>3. cfg.DMA = g
      BY <1>5
    <2> QED
      BY <2>2, <2>3
  <1>12. spiFailed \in AtMostOne(DOMAIN cfgs)
    BY <1>5
  <1>13. /\ \A k \in 1 .. 6 : SpiInstances(cfgs, spiFailed)[k] # 0 =>
               /\ SpiInstances(cfgs, spiFailed)[k] \in SpiTouched(cfgs, spiFailed)
               /\ SpiNumber(cfgs[SpiInstances(cfgs, spiFailed)[k]].peripheral) = k
         /\ spiFailed = {} => \A i \in 1 .. n :
               SpiInstances(cfgs, spiFailed)[SpiNumber(cfgs[i].peripheral)] = i
    BY <1>7, <1>12, SpiTableFinds
  <1>14. ASSUME NEW k \in 1 .. 6, inst.spiTable[k] # 0
         PROVE  /\ SpiNumber(inst.SPI[inst.spiTable[k]].peripheral) = k
                /\ inst.widths[inst.SPI[inst.spiTable[k]].rx] = inst.SPI[inst.spiTable[k]].width
                /\ inst.widths[inst.SPI[inst.spiTable[k]].tx] = inst.SPI[inst.spiTable[k]].width
    <2>1. PICK i : i = inst.spiTable[k]
      OBVIOUS
    <2>2. i \in SpiTouched(cfgs, spiFailed) /\ SpiNumber(cfgs[i].peripheral) = k
      BY <1>4, <1>5, <1>13, <1>14, <2>1
    <2>3. SpiTouched(cfgs, spiFailed) \subseteq 1 .. n
      BY <1>7, <1>12, SpiReach
    <2>4. cfgs[i].rx \in DOMAIN g /\ cfgs[i].tx \in DOMAIN g
      BY <1>6, <1>7, <2>2, <2>3
    <2>5. /\ SpiInit(cfgs, spiFailed, SpiFreq)[i].peripheral = cfgs[i].peripheral
          /\ SpiInit(cfgs, spiFailed, SpiFreq)[i].rx = cfgs[i].rx
          /\ SpiInit(cfgs, spiFailed, SpiFreq)[i].tx = cfgs[i].tx
          /\ SpiDmaWidths(cfgs, spiFailed, g)[cfgs[i].rx] = SpiInit(cfgs, spiFailed, SpiFreq)[i].width
          /\ SpiDmaWidths(cfgs, spiFailed, g)[cfgs[i].tx] = SpiInit(cfgs, spiFailed, SpiFreq)[i].width
      BY <1>7, <1>12, <2>2, <2>4, SpiWidthsMatch
    <2> QED
      BY <1>4, <1>5, <2>1, <2>2, <2>5
  <1>15. ASSUME ~inst.spiPanic, NEW i \in DOMAIN cfg.SPI
         PROVE  inst.spiTable[SpiNumber(cfg.SPI[i].peripheral)] = i
    <2>1. spiFailed = {}
      BY <1>4, <1>15 DEF SpiPanics
    <2>2. i \in 1 .. n
      BY <1>5, <1>7 DEF Controllers
    <2> QED
      BY <1>4, <1>5, <1>13, <2>1, <2>2
  <1> QED
    BY <1>8, <1>9, <1>10, <1>11, <1>14, <1>15 DEF EveryStreamHasItsHandle

(* Every interrupt start-up enables finds the handle of its own stream,    *)
(* what the devices asked of the DMA stays first under what converters and *)
(* filters add, each of these has one stream, and a controller's number    *)
(* leads to it with streams of its width, for every board and whatever the *)
(* HAL refuses (DMA2.hpp, ADC.hpp, DFSDM.hpp and SPI2.cpp).                *)
THEOREM EveryStreamAlwaysHasItsHandle == Spec => []EveryStreamHasItsHandle
  BY BoardInvariant, StreamsHaveHandles, PTL

-----------------------------------------------------------------------------
(* What is handed out goes to one.                                         *)
LEMMA ConfiguredApart ==
  ASSUME BoardInv, cfg # Nothing
  PROVE  OneOwnerEach
  <1>1. Written(ctx) /\ EntriesOK(ctx) /\ Accepts(ctx) /\ cfg = Built(ctx)
    BY DEF BoardInv, CtxOK
  <1>2. /\ cfg.GPIO = GpioBuild(Entries(ctx, "GPIO")) /\ cfg.DMA = DmaBuild(MergedDma(ctx))
        /\ cfg.ADC = AdcBuild(Entries(ctx, "ADC")) /\ cfg.EXTI = ExtiBuild(Entries(ctx, "EXTI"))
        /\ cfg.DFSDM = DfsdmBuild(Entries(ctx, "DFSDM"))
    BY <1>1, BuiltParts
  <1>3. /\ \A i \in DOMAIN cfg.DMA : cfg.DMA[i].stream \in Streams
        /\ \A i, j \in DOMAIN cfg.DMA : cfg.DMA[i].stream = cfg.DMA[j].stream => i = j
    <2>1. PICK g, m : g = cfg.DMA /\ m = Len(ctx["DMA"])
      OBVIOUS
    <2>2. g = DmaBuild(MergedDma(ctx))
      BY <1>2, <2>1
    <2>3. Written(ctx) /\ EntriesOK(ctx) /\ Accepts(ctx)
      BY <1>1
    <2>4. /\ \A i \in DOMAIN g : g[i].stream \in Streams /\ g[i].irqn = g[i].stream
          /\ \A i, j \in DOMAIN g : g[i].stream = g[j].stream => i = j
      BY <2>1, <2>2, <2>3, DmaParts
    <2> QED
      BY <2>1, <2>4
  <1>4. DOMAIN cfg.DMA \in SUBSET Nat
    <2>1. PICK s : s = MergedDma(ctx)
      OBVIOUS
    <2>2. IsList(s)
      BY <1>1, <2>1, MergedIs
    <2>3. DOMAIN cfg.DMA = DOMAIN s
      BY <1>2, <2>1 DEF DmaBuild
    <2> QED
      BY <2>2, <2>3, ListIsAFunction
  <1>5. Distinct(cfg.DMA, LAMBDA c : c.stream)
    BY <1>3, <1>4 DEF Distinct
  <1>6. Distinct(cfg.GPIO, LAMBDA c : c.pin)
    <2>1. \A i, j \in DOMAIN Entries(ctx, "GPIO") : i < j =>
             Entries(ctx, "GPIO")[i].pin # Entries(ctx, "GPIO")[j].pin
      BY <1>1 DEF Accepts, GpioAccepts
    <2> QED
      BY <1>2, <2>1 DEF Distinct, GpioBuild
  <1>7. Distinct(cfg.EXTI, LAMBDA c : c.line)
    <2>1. \A i, j \in DOMAIN Entries(ctx, "EXTI") : i < j =>
             Entries(ctx, "EXTI")[i].pin[2] # Entries(ctx, "EXTI")[j].pin[2]
      BY <1>1 DEF Accepts, ExtiAccepts
    <2> QED
      BY <1>2, <2>1 DEF Distinct, ExtiBuild
  <1>8. Distinct(cfg.ADC, LAMBDA c : <<c.peripheral, c.channel>>)
    <2>1. PICK es : es = Entries(ctx, "ADC")
      OBVIOUS
    <2>2. \A i, j \in DOMAIN es : i < j =>
             (es[i].peripheral = es[j].peripheral => es[i].channel # es[j].channel)
      BY <1>1, <2>1 DEF Accepts, AdcAccepts
    <2>3. /\ DOMAIN cfg.ADC = DOMAIN es
          /\ \A i \in DOMAIN es : cfg.ADC[i].peripheral = es[i].peripheral
                                  /\ cfg.ADC[i].channel = es[i].channel
      BY <1>2, <2>1 DEF AdcBuild
    <2> QED
      BY <2>2, <2>3 DEF Distinct
  <1>9. Distinct(cfg.DFSDM, LAMBDA c : c.channel)
    <2>1. PICK es : es = Entries(ctx, "DFSDM")
      OBVIOUS
    <2>2. \A i, j \in DOMAIN es : i < j => es[i].channel # es[j].channel
      BY <1>1, <2>1 DEF Accepts, DfsdmAccepts
    <2>3. DOMAIN cfg.DFSDM = DOMAIN es /\ \A i \in DOMAIN es : cfg.DFSDM[i].channel = es[i].channel
      BY <1>2, <2>1 DEF DfsdmBuild
    <2> QED
      BY <2>2, <2>3 DEF Distinct
  <1> QED
    BY <1>3, <1>5, <1>6, <1>7, <1>8, <1>9 DEF OneOwnerEach

-----------------------------------------------------------------------------
(* The layout.  The entries of a memory have their turn by alignment, the  *)
(* coarser first, then as they were written.                               *)
Layable(es, n) ==
  /\ DOMAIN es = 1 .. n
  /\ \A i \in 1 .. n : es[i].alignment \in {32, 16, 8, 4, 2, 1} /\ es[i].size \in Nat
Turn(es, n, i) == (32 - es[i].alignment) * (n + 1) + i
Follows(es, n, i, j) == es[j].memory = es[i].memory /\ Turn(es, n, j) < Turn(es, n, i)

LEMMA PairsInOrder ==
  ASSUME NEW m \in Nat, NEW u \in Nat, NEW v \in Nat, NEW i \in 1 .. m - 1, NEW j \in 1 .. m - 1
  PROVE  u * m + i < v * m + j <=> u < v \/ (u = v /\ i < j)
  <1>1. \A a, b \in Nat : a < b => a * m + m <= b * m
    <2> TAKE a, b \in Nat
    <2> HAVE a < b
    <2>1. b - a - 1 \in Nat /\ b = a + 1 + (b - a - 1)
      OBVIOUS
    <2>2. PICK w \in Nat : b = a + 1 + w
      BY <2>1
    <2>3. b * m = a * m + m + w * m /\ w * m \in Nat
      BY <2>2
    <2> QED
      BY <2>3
  <1>2. u * m \in Nat /\ v * m \in Nat
    OBVIOUS
  <1>3. CASE u < v
    <2>1. u * m + m <= v * m
      BY <1>1, <1>3
    <2> QED
      BY <1>2, <1>3, <2>1
  <1>4. CASE v < u
    <2>1. v * m + m <= u * m
      BY <1>1, <1>4
    <2> QED
      BY <1>2, <1>4, <2>1
  <1>5. CASE u = v
    BY <1>2, <1>5
  <1> QED
    BY <1>3, <1>4, <1>5

LEMMA TurnsOrder ==
  ASSUME NEW n \in Nat, NEW es, Layable(es, n)
  PROVE  /\ \A i \in 1 .. n : Turn(es, n, i) \in Nat /\ Turn(es, n, i) < 33 * (n + 1)
         /\ \A i, j \in 1 .. n : Turn(es, n, i) = Turn(es, n, j) => i = j
         /\ \A i \in 1 .. n : LaidBefore(es, i) = {j \in 1 .. n : Follows(es, n, i, j)}
  <1>1. ASSUME NEW i \in 1 .. n
        PROVE  Turn(es, n, i) \in Nat /\ Turn(es, n, i) < 33 * (n + 1)
    <2>1. PICK u : u = 32 - es[i].alignment
      OBVIOUS
    <2>2. u \in 0 .. 31
      <3>1. es[i].alignment \in {32, 16, 8, 4, 2, 1}
        BY DEF Layable
      <3> QED
        BY <2>1, <3>1
    <2>3. u * (n + 1) \in Nat /\ u * (n + 1) <= 31 * (n + 1)
      <3>1. u \in Nat /\ u < 32 /\ n + 1 \in Nat
        BY <2>2
      <3>2. PICK w \in Nat : w = 31 - u
        BY <2>2
      <3>3. 31 * (n + 1) = u * (n + 1) + w * (n + 1) /\ w * (n + 1) \in Nat /\ u * (n + 1) \in Nat
        BY <3>1, <3>2
      <3> QED
        BY <3>3
    <2>4. Turn(es, n, i) = u * (n + 1) + i
      BY <2>1 DEF Turn
    <2> QED
      BY <2>3, <2>4
  <1>2. ASSUME NEW i \in 1 .. n, NEW j \in 1 .. n
        PROVE  Turn(es, n, j) < Turn(es, n, i) <=>
                 \/ es[j].alignment > es[i].alignment
                 \/ es[j].alignment = es[i].alignment /\ j < i
    <2>1. PICK u, v : u = 32 - es[j].alignment /\ v = 32 - es[i].alignment
      OBVIOUS
    <2>2. /\ u \in Nat /\ v \in Nat
          /\ u < v <=> es[j].alignment > es[i].alignment
          /\ u = v <=> es[j].alignment = es[i].alignment
      <3>1. es[i].alignment \in {32, 16, 8, 4, 2, 1} /\ es[j].alignment \in {32, 16, 8, 4, 2, 1}
        BY DEF Layable
      <3> QED
        BY <2>1, <3>1
    <2>3. PICK m \in Nat : m = n + 1
      OBVIOUS
    <2>4. i \in 1 .. m - 1 /\ j \in 1 .. m - 1
      BY <2>3
    <2>5. u * m + j < v * m + i <=> u < v \/ (u = v /\ j < i)
      BY <2>2, <2>4, PairsInOrder
    <2>6. Turn(es, n, j) = u * m + j /\ Turn(es, n, i) = v * m + i
      BY <2>1, <2>3 DEF Turn
    <2> QED
      BY <2>2, <2>5, <2>6
  <1>3. ASSUME NEW i \in 1 .. n, NEW j \in 1 .. n, Turn(es, n, i) = Turn(es, n, j) PROVE i = j
    <2>1. ~(Turn(es, n, j) < Turn(es, n, i)) /\ ~(Turn(es, n, i) < Turn(es, n, j))
      BY <1>1, <1>3
    <2>2. PICK a, b : a = es[i].alignment /\ b = es[j].alignment
      OBVIOUS
    <2>3. a \in {32, 16, 8, 4, 2, 1} /\ b \in {32, 16, 8, 4, 2, 1}
      BY <2>2 DEF Layable
    <2>4. ~(b > a \/ (b = a /\ j < i))
      BY <1>2, <2>1, <2>2
    <2>5. ~(a > b \/ (a = b /\ i < j))
      BY <1>2, <2>1, <2>2
    <2>6. a \in Nat /\ b \in Nat
      BY <2>3
    <2>7. a = b
      BY <2>4, <2>5, <2>6
    <2>8. ~(j < i) /\ ~(i < j)
      BY <2>4, <2>5, <2>7
    <2> QED
      BY <2>8
  <1>4. ASSUME NEW i \in 1 .. n
        PROVE  LaidBefore(es, i) = {j \in 1 .. n : Follows(es, n, i, j)}
    BY <1>2 DEF LaidBefore, Follows, Layable
  <1> QED
    BY <1>1, <1>3, <1>4

LEMMA LeastThere ==
  ASSUME NEW T \in SUBSET Nat, T # {}
  PROVE  \E t \in T : \A s \in T : t <= s
  <1>1. PICK t \in T : \A s \in T : ~(<<s, t>> \in OpToRel(<, Nat))
    BY NatLessThanWellFounded, WFMin
  <1>2. \A s \in T : ~(s < t)
    BY <1>1 DEF OpToRel
  <1> QED
    BY <1>2

(* Among some entries of one memory one comes last.                        *)
LEMMA OneIsLast ==
  ASSUME NEW n \in Nat, NEW es, Layable(es, n), NEW S \in SUBSET (1 .. n), S # {},
         \A i, j \in S : es[i].memory = es[j].memory
  PROVE  \E j \in S : S \subseteq LaidBefore(es, j) \cup {j}
  <1>1. PICK B \in Nat : B = 33 * (n + 1)
    OBVIOUS
  <1>2. PICK T : T = {B - Turn(es, n, j) : j \in S}
    OBVIOUS
  <1>3. \A i \in 1 .. n : Turn(es, n, i) \in Nat /\ Turn(es, n, i) < B
    BY <1>1, TurnsOrder
  <1>4. T \in SUBSET Nat /\ T # {}
    <2>1. \A j \in S : B - Turn(es, n, j) \in Nat
      BY <1>3
    <2>2. T # {}
      BY <1>2
    <2> QED
      BY <1>2, <2>1, <2>2
  <1>5. PICK t \in T : \A s \in T : t <= s
    BY <1>4, LeastThere
  <1>6. PICK j \in S : t = B - Turn(es, n, j)
    BY <1>2, <1>5
  <1>7. ASSUME NEW i \in S, i # j PROVE i \in LaidBefore(es, j)
    <2>1. B - Turn(es, n, i) \in T
      BY <1>2
    <2>2. t <= B - Turn(es, n, i)
      BY <1>5, <2>1
    <2>3. Turn(es, n, i) \in Nat /\ Turn(es, n, j) \in Nat
      BY <1>3
    <2>4. Turn(es, n, i) <= Turn(es, n, j)
      BY <1>6, <2>2, <2>3
    <2>5. Turn(es, n, i) # Turn(es, n, j)
      BY <1>7, TurnsOrder
    <2>6. Turn(es, n, i) < Turn(es, n, j)
      BY <2>3, <2>4, <2>5
    <2>7. Follows(es, n, j, i)
      BY <2>6 DEF Follows
    <2> QED
      BY <2>7, TurnsOrder
  <1> QED
    BY <1>7

(* The place of an entry, from those laid out before it.                   *)
LastBefore(es, i) == LastOf(es, LaidBefore(es, i))
PlaceAfter(es, f, i) ==
  AlignUp(IF LaidBefore(es, i) = {} THEN 0 ELSE f[LastBefore(es, i)] + es[LastBefore(es, i)].size,
          es[i].alignment)

LEMMA LastIsBefore ==
  ASSUME NEW n \in Nat, NEW es, Layable(es, n), NEW i \in 1 .. n, LaidBefore(es, i) # {}
  PROVE  /\ LastBefore(es, i) \in LaidBefore(es, i)
         /\ LastBefore(es, i) \in 1 .. n
         /\ Turn(es, n, LastBefore(es, i)) < Turn(es, n, i)
         /\ \A j \in LaidBefore(es, i) : j = LastBefore(es, i) \/ j \in LaidBefore(es, LastBefore(es, i))
  <1>1. PICK S : S = LaidBefore(es, i)
    OBVIOUS
  <1>2. S = {j \in 1 .. n : Follows(es, n, i, j)}
    BY <1>1, TurnsOrder
  <1>3. S \in SUBSET (1 .. n) /\ S # {}
    BY <1>1, <1>2
  <1>4. \A k, j \in S : es[k].memory = es[j].memory
    BY <1>2 DEF Follows
  <1>5. \E j \in S : S \subseteq LaidBefore(es, j) \cup {j}
    BY <1>3, <1>4, OneIsLast
  <1>6. PICK l : l = LastOf(es, S)
    OBVIOUS
  <1>7. l \in S /\ S \subseteq LaidBefore(es, l) \cup {l}
    BY <1>5, <1>6 DEF LastOf
  <1>8. LastBefore(es, i) = l
    BY <1>1, <1>6 DEF LastBefore
  <1>9. Turn(es, n, l) < Turn(es, n, i) /\ l \in 1 .. n
    BY <1>2, <1>7 DEF Follows
  <1> QED
    BY <1>1, <1>7, <1>8, <1>9

(* The walks place every entry.                                            *)
LEMMA LayoutPlaces ==
  ASSUME NEW n \in Nat, NEW es, Layable(es, n)
  PROVE  /\ DOMAIN MpuLayout(es) = 1 .. n
         /\ \A i \in 1 .. n : MpuLayout(es)[i] = PlaceAfter(es, MpuLayout(es), i)
  <1> DEFINE D(k) == {i \in 1 .. n : Turn(es, n, i) < k}
             Lays(f, k) == f = [i \in D(k) |-> PlaceAfter(es, f, i)]
             Stuck == {k \in Nat : ~ \E f : Lays(f, k)}
  <1>1. \A i \in 1 .. n : Turn(es, n, i) \in Nat /\ Turn(es, n, i) < 33 * (n + 1)
    BY TurnsOrder
  <1>2. Stuck = {}
    <2> SUFFICES ASSUME Stuck # {} PROVE FALSE
      OBVIOUS
    <2>1. PICK k \in Stuck : \A s \in Stuck : k <= s
      <3>1. Stuck \in SUBSET Nat
        OBVIOUS
      <3> HIDE DEF Stuck
      <3> QED
        BY <3>1, LeastThere
    <2>2. k \in Nat /\ ~ \E f : Lays(f, k)
      OBVIOUS
    <2>3. k # 0
      <3>1. CASE k = 0
        <4>1. D(0) = {}
          BY <1>1
        <4>2. PICK e : e = [i \in {} |-> 0]
          OBVIOUS
        <4>3. e = [i \in {} |-> PlaceAfter(es, e, i)]
          BY <4>2
        <4>4. Lays(e, k)
          BY <3>1, <4>1, <4>3
        <4> QED
          BY <2>2, <4>4
      <3> QED
        BY <3>1
    <2>4. k - 1 \in Nat /\ k - 1 \notin Stuck
      <3>1. k - 1 \in Nat /\ ~(k <= k - 1)
        BY <2>2, <2>3
      <3> HIDE DEF Stuck
      <3> QED
        BY <2>1, <3>1
    <2>5. PICK f : Lays(f, k - 1)
      BY <2>4
    <2>6. PICK g : g = [i \in D(k) |-> PlaceAfter(es, f, i)]
      OBVIOUS
    <2>7. \A i \in D(k - 1) : i \in D(k) /\ g[i] = f[i]
      <3>1. \A i \in D(k - 1) : i \in D(k)
        BY <1>1, <2>2
      <3>2. \A i \in D(k - 1) : f[i] = PlaceAfter(es, f, i)
        BY <2>5
      <3> HIDE DEF D
      <3> QED
        BY <2>6, <3>1, <3>2
    <2>8. \A i \in D(k) : PlaceAfter(es, g, i) = PlaceAfter(es, f, i)
      <3> TAKE i \in D(k)
      <3>1. i \in 1 .. n /\ Turn(es, n, i) < k
        OBVIOUS
      <3>2. CASE LaidBefore(es, i) = {}
        BY <3>2 DEF PlaceAfter
      <3>3. CASE LaidBefore(es, i) # {}
        <4>1. PICK l : l = LastBefore(es, i)
          OBVIOUS
        <4>2. l \in 1 .. n /\ Turn(es, n, l) < Turn(es, n, i)
          BY <3>1, <3>3, <4>1, LastIsBefore
        <4>3. Turn(es, n, l) \in Nat /\ Turn(es, n, i) \in Nat
          BY <1>1, <3>1, <4>2
        <4>4. l \in D(k - 1)
          BY <2>2, <3>1, <4>2, <4>3
        <4>5. g[l] = f[l]
          <5> HIDE DEF D
          <5> QED
            BY <2>7, <4>4
        <4> QED
          BY <4>1, <4>5 DEF PlaceAfter
      <3> QED
        BY <3>2, <3>3
    <2>9. g = [i \in D(k) |-> PlaceAfter(es, g, i)]
      <3> HIDE DEF D
      <3> QED
        BY <2>6, <2>8
    <2> QED
      BY <2>2, <2>9
  <1>3. PICK B \in Nat : B = 33 * (n + 1)
    OBVIOUS
  <1>4. D(B) = 1 .. n
    BY <1>1, <1>3
  <1>5. PICK f : f = [i \in 1 .. n |-> PlaceAfter(es, f, i)]
    <2>1. B \notin Stuck
      BY <1>2
    <2>2. \E f : Lays(f, B)
      BY <2>1
    <2> QED
      BY <1>4, <2>2
  <1> DEFINE L(h) == h = [i \in 1 .. n |-> PlaceAfter(es, h, i)]
  <1>6. MpuLayout(es) = CHOOSE h : L(h)
    BY DEF MpuLayout, PlaceAfter, LastBefore, Layable
  <1>7. L(CHOOSE h : L(h))
    <2>1. \E h : L(h)
      BY <1>5
    <2> HIDE DEF L
    <2> QED
      BY <2>1
  <1> QED
    BY <1>6, <1>7

(* Rounding up.                                                            *)
Aligned(v, a) == v % a = 0

LEMMA AlignUpRounds ==
  ASSUME NEW v \in Nat, NEW a \in {32, 16, 8, 4, 2, 1}
  PROVE  AlignUp(v, a) \in Nat /\ AlignUp(v, a) >= v /\ Aligned(AlignUp(v, a), a)
  <1>1. CASE a = 32
    BY <1>1 DEF AlignUp, Aligned
  <1>2. CASE a = 16
    BY <1>2 DEF AlignUp, Aligned
  <1>3. CASE a = 8
    BY <1>3 DEF AlignUp, Aligned
  <1>4. CASE a = 4
    BY <1>4 DEF AlignUp, Aligned
  <1>5. CASE a = 2
    BY <1>5 DEF AlignUp, Aligned
  <1>6. CASE a = 1
    BY <1>6 DEF AlignUp, Aligned
  <1> QED
    BY <1>1, <1>2, <1>3, <1>4, <1>5, <1>6

(* Each entry lies aligned, behind all those laid out before it.           *)
Laid(es, f, i) ==
  /\ f[i] \in Nat /\ Aligned(f[i], es[i].alignment)
  /\ \A j \in LaidBefore(es, i) : f[j] \in Nat /\ f[j] + es[j].size <= f[i]

LEMMA LayoutIsLaid ==
  ASSUME NEW n \in Nat, NEW es, Layable(es, n), NEW f, f = MpuLayout(es)
  PROVE  \A i \in 1 .. n : Laid(es, f, i)
  <1>1. \A i \in 1 .. n : Turn(es, n, i) \in Nat
    BY TurnsOrder
  <1>2. \A i \in 1 .. n : f[i] = PlaceAfter(es, f, i)
    BY LayoutPlaces
  <1> DEFINE Wrong == {i \in 1 .. n : ~Laid(es, f, i)}
  <1>3. PICK T : T = {Turn(es, n, i) : i \in Wrong}
    OBVIOUS
  <1>4. Wrong = {}
    <2> SUFFICES ASSUME Wrong # {} PROVE FALSE
      OBVIOUS
    <2>1. T \in SUBSET Nat /\ T # {}
      BY <1>1, <1>3
    <2>2. PICK t \in T : \A s \in T : t <= s
      BY <2>1, LeastThere
    <2>3. PICK i \in Wrong : t = Turn(es, n, i)
      BY <1>3, <2>2
    <2>4. \A j \in 1 .. n : Turn(es, n, j) < Turn(es, n, i) => Laid(es, f, j)
      <3> SUFFICES ASSUME NEW j \in 1 .. n, Turn(es, n, j) < Turn(es, n, i), ~Laid(es, f, j)
                   PROVE  FALSE
        OBVIOUS
      <3>1. Turn(es, n, j) \in T
        BY <1>3
      <3> QED
        BY <1>1, <2>2, <2>3, <3>1
    <2>5. i \in 1 .. n /\ ~Laid(es, f, i)
      OBVIOUS
    <2>6. PICK a : a = es[i].alignment
      OBVIOUS
    <2>7. a \in {32, 16, 8, 4, 2, 1}
      BY <2>5, <2>6 DEF Layable
    <2>8. CASE LaidBefore(es, i) = {}
      <3>1. f[i] = AlignUp(0, a)
        BY <1>2, <2>5, <2>6, <2>8 DEF PlaceAfter
      <3>2. f[i] \in Nat /\ Aligned(f[i], a)
        BY <2>7, <3>1, 0 \in Nat, AlignUpRounds
      <3> QED
        BY <2>5, <2>6, <2>8, <3>2 DEF Laid
    <2>9. CASE LaidBefore(es, i) # {}
      <3>1. PICK l : l = LastBefore(es, i)
        OBVIOUS
      <3>2. /\ l \in 1 .. n /\ Turn(es, n, l) < Turn(es, n, i)
            /\ \A j \in LaidBefore(es, i) : j = l \/ j \in LaidBefore(es, l)
        BY <2>5, <2>9, <3>1, LastIsBefore
      <3>3. Laid(es, f, l)
        BY <2>4, <3>2
      <3>4. PICK p, q : p = f[l] /\ q = es[l].size
        OBVIOUS
      <3>5. p \in Nat /\ q \in Nat
        BY <3>2, <3>3, <3>4 DEF Laid, Layable
      <3>6. f[i] = AlignUp(p + q, a)
        BY <1>2, <2>5, <2>6, <2>9, <3>1, <3>4 DEF PlaceAfter
      <3>7. p + q \in Nat
        BY <3>5
      <3>8. f[i] \in Nat /\ Aligned(f[i], a) /\ f[i] >= p + q
        BY <2>7, <3>6, <3>7, AlignUpRounds
      <3>9. ASSUME NEW j \in LaidBefore(es, i) PROVE f[j] \in Nat /\ f[j] + es[j].size <= f[i]
        <4>1. CASE j = l
          BY <3>4, <3>5, <3>8, <4>1
        <4>2. CASE j \in LaidBefore(es, l)
          <5>1. f[j] \in Nat /\ f[j] + es[j].size <= p
            BY <3>3, <3>4, <4>2 DEF Laid
          <5>2. j \in 1 .. n
            BY <2>5 DEF LaidBefore, Layable
          <5>3. es[j].size \in Nat
            BY <5>2 DEF Layable
          <5> QED
            BY <3>5, <3>8, <5>1, <5>3
        <4> QED
          BY <3>2, <4>1, <4>2
      <3> QED
        BY <2>5, <2>6, <3>8, <3>9 DEF Laid
    <2> QED
      BY <2>8, <2>9
  <1> QED
    BY <1>4

LEMMA BuildLays ==
  ASSUME NEW n \in Nat, NEW es, Layable(es, n), NEW g, g = MpuBuild(es)
  PROVE  /\ DOMAIN g = 1 .. n
         /\ \A i \in 1 .. n : /\ g[i].offset \in Nat /\ g[i].size \in Nat
                              /\ g[i].size = es[i].size /\ g[i].memory = es[i].memory
                              /\ Aligned(g[i].offset, es[i].alignment)
         /\ \A i \in 1 .. n : \A j \in LaidBefore(es, i) : g[j].offset + g[j].size <= g[i].offset
  <1>1. PICK f : f = MpuLayout(es)
    OBVIOUS
  <1>2. \A i \in 1 .. n : Laid(es, f, i)
    BY <1>1, LayoutIsLaid
  <1>3. g = [i \in 1 .. n |-> [offset |-> f[i], size |-> es[i].size, memory |-> es[i].memory]]
    BY <1>1 DEF MpuBuild, Layable
  <1>4. \A i \in 1 .. n : g[i].offset = f[i] /\ g[i].size = es[i].size /\ g[i].memory = es[i].memory
    BY <1>3
  <1>5. ASSUME NEW i \in 1 .. n
        PROVE  /\ g[i].offset \in Nat /\ Aligned(g[i].offset, es[i].alignment)
               /\ \A j \in LaidBefore(es, i) : g[j].offset + g[j].size <= g[i].offset
    <2>1. Laid(es, f, i)
      BY <1>2
    <2>2. g[i].offset \in Nat /\ Aligned(g[i].offset, es[i].alignment)
      BY <1>4, <2>1 DEF Laid
    <2>3. ASSUME NEW j \in LaidBefore(es, i) PROVE g[j].offset + g[j].size <= g[i].offset
      <3>1. j \in 1 .. n
        BY DEF LaidBefore, Layable
      <3>2. f[j] + es[j].size <= f[i]
        BY <2>1 DEF Laid
      <3> QED
        BY <1>4, <3>1, <3>2
    <2> QED
      BY <2>2, <2>3
  <1>6. \A i \in 1 .. n : es[i].size \in Nat
    BY DEF Layable
  <1> QED
    BY <1>3, <1>4, <1>5, <1>6

LEMMA LaidApart ==
  ASSUME NEW n \in Nat, NEW es, Layable(es, n), NEW g, g = MpuBuild(es),
         NEW i \in 1 .. n, NEW j \in 1 .. n, i # j
  PROVE  Apart(g[i], g[j])
  <1>1. CASE g[i].memory # g[j].memory
    BY <1>1 DEF Apart
  <1>2. CASE g[i].memory = g[j].memory
    <2>1. es[i].memory = es[j].memory
      BY <1>2, BuildLays
    <2>2. Turn(es, n, i) \in Nat /\ Turn(es, n, j) \in Nat /\ Turn(es, n, i) # Turn(es, n, j)
      BY TurnsOrder
    <2>3. Follows(es, n, i, j) \/ Follows(es, n, j, i)
      BY <2>1, <2>2 DEF Follows
    <2>4. j \in LaidBefore(es, i) \/ i \in LaidBefore(es, j)
      BY <2>3, TurnsOrder
    <2>5. g[j].offset + g[j].size <= g[i].offset \/ g[i].offset + g[i].size <= g[j].offset
      BY <2>4, BuildLays
    <2> QED
      BY <2>5 DEF Apart
  <1> QED
    BY <1>1, <1>2

(* The array of a memory holds every buffer laid out in it.                *)
LEMMA LaidInside ==
  ASSUME NEW n \in Nat, NEW es, Layable(es, n), NEW g, g = MpuBuild(es), NEW i \in 1 .. n
  PROVE  g[i].offset + g[i].size <= MpuTotal(g, g[i].memory)
  <1> DEFINE end(j) == g[j].offset + g[j].size
  <1>1. PICK S : S = {j \in 1 .. n : g[j].memory = g[i].memory}
    OBVIOUS
  <1>2. /\ DOMAIN g = 1 .. n
        /\ \A j \in 1 .. n : g[j].offset \in Nat /\ g[j].size \in Nat /\ g[j].memory = es[j].memory
    BY BuildLays
  <1>3. S \in SUBSET (1 .. n) /\ S # {} /\ i \in S
    BY <1>1
  <1>4. \A j, k \in S : es[j].memory = es[k].memory
    BY <1>1, <1>2
  <1>5. PICK l \in S : S \subseteq LaidBefore(es, l) \cup {l}
    BY <1>3, <1>4, OneIsLast
  <1>6. \A j \in S : end(j) \in Nat /\ end(j) <= end(l)
    <2> TAKE j \in S
    <2>1. j \in 1 .. n /\ l \in 1 .. n
      BY <1>3
    <2>2. g[j].offset \in Nat /\ g[j].size \in Nat /\ g[l].offset \in Nat /\ g[l].size \in Nat
      BY <1>2, <2>1
    <2>3. CASE j = l
      BY <2>2, <2>3
    <2>4. CASE j \in LaidBefore(es, l)
      <3>1. end(j) <= g[l].offset
        BY <2>1, <2>4, BuildLays
      <3> QED
        BY <2>2, <3>1
    <2> QED
      BY <1>5, <2>3, <2>4
  <1>7. PICK E : E = {0} \cup {end(j) : j \in S}
    OBVIOUS
  <1>8. end(l) \in E /\ \A x \in E : x \in Nat /\ x <= end(l)
    <2>1. end(l) \in Nat /\ l \in S
      BY <1>6
    <2> QED
      BY <1>6, <1>7, <2>1
  <1>9. Max(E) = end(l)
    <2>1. PICK e : e = end(l)
      OBVIOUS
    <2>2. e \in E /\ \A x \in E : x \in Nat /\ x <= e
      BY <1>8, <2>1
    <2> HIDE DEF end
    <2>3. Max(E) \in E /\ \A y \in E : Max(E) >= y
      BY <2>2 DEF Max
    <2> QED
      BY <2>1, <2>2, <2>3
  <1>10. MpuTotal(g, g[i].memory) = AlignUp(Max(E), 32)
    <2>1. {j \in DOMAIN g : g[j].memory = g[i].memory} = S
      BY <1>1, <1>2
    <2>2. {0} \cup {g[j].offset + g[j].size : j \in S} = E
      BY <1>7
    <2> QED
      BY <2>1, <2>2 DEF MpuTotal
  <1>11. PICK e \in Nat : e = end(l)
    BY <1>6
  <1>12. AlignUp(e, 32) >= e /\ AlignUp(e, 32) \in Nat
    BY AlignUpRounds
  <1>13. end(i) \in Nat /\ end(i) <= e
    BY <1>3, <1>6, <1>11
  <1>14. MpuTotal(g, g[i].memory) = AlignUp(e, 32)
    BY <1>9, <1>10, <1>11
  <1> QED
    BY <1>12, <1>13, <1>14

LEMMA BoardLays ==
  ASSUME NEW c, Written(c), EntriesOK(c), NEW es, es = Entries(c, "MPU"), NEW n, n = Len(c["MPU"])
  PROVE  n \in Nat /\ Layable(es, n)
  <1>1. n \in Nat /\ DOMAIN es = 1 .. n /\ \A i \in 1 .. n : es[i] = c["MPU"][i].e
    BY EntriesAre DEF Domains
  <1>2. \A i \in 1 .. n : es[i].alignment \in {32, 16, 8, 4, 2, 1} /\ es[i].size \in Nat
    BY <1>1 DEF EntriesOK, MpuOK
  <1> QED
    BY <1>1, <1>2 DEF Layable

LEMMA LaidOutApart ==
  ASSUME BoardInv, cfg # Nothing
  PROVE  BuffersLieApart
  <1>1. Written(ctx) /\ EntriesOK(ctx) /\ cfg = Built(ctx)
    BY DEF BoardInv, CtxOK
  <1>2. PICK es, n, g : es = Entries(ctx, "MPU") /\ n = Len(ctx["MPU"]) /\ g = cfg.MPU
    OBVIOUS
  <1>3. g = MpuBuild(es)
    BY <1>1, <1>2, BuiltParts
  <1>4. n \in Nat /\ Layable(es, n)
    BY <1>1, <1>2, BoardLays
  <1>5. DOMAIN g = 1 .. n
    BY <1>3, <1>4, BuildLays
  <1>6. \A i, j \in DOMAIN g : i < j => Apart(g[i], g[j])
    BY <1>3, <1>4, <1>5, LaidApart
  <1>7. \A i \in DOMAIN g : g[i].offset % es[i].alignment = 0
    BY <1>3, <1>4, <1>5, BuildLays DEF Aligned
  <1>8. \A i \in DOMAIN g : g[i].offset + g[i].size <= MpuTotal(g, g[i].memory)
    BY <1>3, <1>4, <1>5, LaidInside
  <1> QED
    BY <1>2, <1>6, <1>7, <1>8 DEF BuffersLieApart

(* Streams, pins, interrupt lines, converter channels, sigma-delta         *)
(* channels and bytes of the memories: what a board that was accepted      *)
(* hands out goes to one owner, and each buffer lies aligned inside its    *)
(* array (build of GPIO.hpp, EXTI.hpp, DMA2.hpp, ADC.hpp, DFSDM.hpp and    *)
(* MPU.hpp).                                                               *)
THEOREM NothingHasTwoOwners == Spec => [](cfg # Nothing => OneOwnerEach /\ BuffersLieApart)
  <1>1. BoardInv => (cfg # Nothing => OneOwnerEach /\ BuffersLieApart)
    BY ConfiguredApart, LaidOutApart
  <1> QED
    BY <1>1, BoardInvariant, PTL

-----------------------------------------------------------------------------
(* What a device asked for is what its instance shows.                     *)
LEMMA OwnerFound ==
  ASSUME NEW c, NEW t, NEW d, NEW i \in Nat, Owned(c, t, d) = {i}
  PROVE  OwnerIndex(c, t, d) = i
  <1>1. PICK S : S = Owned(c, t, d)
    OBVIOUS
  <1>2. S = {i} /\ \A j \in S : i <= j
    BY <1>1
  <1>3. OwnerIndex(c, t, d) = CHOOSE k \in S : \A j \in S : k <= j
    BY <1>1 DEF OwnerIndex
  <1> QED
    BY <1>2, <1>3

LEMMA Claimed ==
  ASSUME BoardInv, phase = "running", NEW d \in ToSet(devices), NEW t \in Served, d.type = t
  PROVE  \E i \in 1 .. Len(ctx[t]) : OwnerIndex(ctx, t, d) = i /\ Holds(ctx, d, ctx[t][i].e)
  <1>1. CtxOK(ctx, devices)
    BY RunningParts
  <1>2. Claim(ctx, d)
    BY <1>1 DEF CtxOK
  <1>3. PICK i \in 1 .. Len(ctx[t]) : Owned(ctx, t, d) = {i} /\ Holds(ctx, d, ctx[t][i].e)
    BY <1>2 DEF Claim
  <1>4. Len(ctx[t]) \in Nat
    <2>1. t \in Domains
      BY DEF Served, Domains
    <2> QED
      BY <1>1, <2>1, EntriesAre DEF CtxOK
  <1>5. i \in Nat
    BY <1>4
  <1> QED
    BY <1>3, <1>5, OwnerFound

(* A domain's configurations come from the entries at the same places.     *)
LEMMA PinsAreSet ==
  ASSUME BoardInv, phase = "running"
  PROVE  /\ \A g, pin : Pinned(ctx, g, pin) => PinAt(g) = pin
         /\ \A g, pin, af : Driven(ctx, g, pin, af) => AfAt(g) = af
  <1>1. Written(ctx) /\ cfg = Built(ctx) /\ StartedFrom(cfg, inst)
    BY RunningParts
  <1>2. PICK dmaFailed, spiFailed, adcFailed : inst = Started(cfg, dmaFailed, spiFailed, adcFailed)
    BY <1>1 DEF StartedFrom
  <1>3. PICK es, n : es = Entries(ctx, "GPIO") /\ n = Len(ctx["GPIO"])
    OBVIOUS
  <1>4. DOMAIN es = 1 .. n /\ \A i \in 1 .. n : es[i] = ctx["GPIO"][i].e
    BY <1>1, <1>3, EntriesAre DEF Domains
  <1>5. inst.GPIO = GpioInit(cfg.GPIO)
    BY <1>2, StartedParts
  <1>6. cfg.GPIO = GpioBuild(es)
    BY <1>1, <1>3, BuiltParts
  <1>7. \A i \in 1 .. n :
           /\ inst.GPIO[i].pin = es[i].pin
           /\ inst.GPIO[i].alternate = IF es[i].mode \in Alternates THEN es[i].af ELSE 0
    BY <1>4, <1>5, <1>6 DEF GpioInit, GpioBuild
  <1>8. ASSUME NEW g, NEW pin, Pinned(ctx, g, pin) PROVE PinAt(g) = pin
    <2>1. g \in 1 .. n /\ es[g].pin = pin
      BY <1>3, <1>4, <1>8 DEF Pinned
    <2> QED
      BY <1>7, <2>1 DEF PinAt
  <1>9. ASSUME NEW g, NEW pin, NEW af, Driven(ctx, g, pin, af) PROVE AfAt(g) = af
    <2>1. g \in 1 .. n
      BY <1>3, <1>9 DEF Driven, Pinned
    <2>2. es[g].mode \in Alternates /\ es[g].af = af
      BY <1>4, <1>9, <2>1 DEF Driven
    <2> QED
      BY <1>7, <2>1, <2>2 DEF AfAt
  <1> QED
    BY <1>8, <1>9

LEMMA AdcServed ==
  ASSUME BoardInv, phase = "running", NEW d \in ToSet(devices), d.type = "ADC"
  PROVE  Serves(d)
  <1>1. PICK i \in 1 .. Len(ctx["ADC"]) : OwnerIndex(ctx, "ADC", d) = i /\ Holds(ctx, d, ctx["ADC"][i].e)
    BY Claimed DEF Served
  <1>2. PICK e : e = ctx["ADC"][i].e
    OBVIOUS
  <1>3. Pinned(ctx, e.gpio, d.pin) /\ e.channel = Resolve(d).channel /\ e.bits = d.bits
    BY <1>1, <1>2 DEF Holds, AdcHolds
  <1>4. Written(ctx) /\ EntriesOK(ctx) /\ cfg = Built(ctx) /\ StartedFrom(cfg, inst)
    BY RunningParts
  <1>5. PICK dmaFailed, spiFailed, adcFailed : inst = Started(cfg, dmaFailed, spiFailed, adcFailed)
    BY <1>4 DEF StartedFrom
  <1>6. inst.ADC = AdcInit(cfg.ADC, inst.DMA, adcFailed)
    BY <1>5, StartedParts
  <1>7. cfg.ADC = AdcBuild(Entries(ctx, "ADC"))
    BY <1>4, BuiltParts
  <1>8. i \in DOMAIN cfg.ADC /\ cfg.ADC[i].channel = e.channel /\ cfg.ADC[i].bits = e.bits
    BY <1>2, <1>4, <1>7, AdcParts
  <1>9. inst.ADC[i].channel = e.channel /\ inst.ADC[i].bits = e.bits
    BY <1>6, <1>8 DEF AdcInit
  <1>10. Entries(ctx, "ADC")[i] = e
    BY <1>2, <1>4, EntriesAre DEF Domains
  <1>11. PinAt(e.gpio) = d.pin
    BY <1>3, PinsAreSet
  <1> QED
    BY <1>1, <1>3, <1>9, <1>10, <1>11 DEF Serves, Mine

LEMMA DfsdmServed ==
  ASSUME BoardInv, phase = "running", NEW d \in ToSet(devices), d.type = "DFSDM"
  PROVE  Serves(d)
  <1>1. PICK i \in 1 .. Len(ctx["DFSDM"]) :
           OwnerIndex(ctx, "DFSDM", d) = i /\ Holds(ctx, d, ctx["DFSDM"][i].e)
    BY Claimed DEF Served
  <1>2. PICK e, es : e = ctx["DFSDM"][i].e /\ es = Entries(ctx, "DFSDM")
    OBVIOUS
  <1>3. Pinned(ctx, e.gpio, d.pin) /\ e.channel = ChannelOf[d.pin] /\ e.config = d.config
    BY <1>1, <1>2 DEF Holds, DfsdmHolds
  <1>4. Written(ctx) /\ cfg = Built(ctx) /\ StartedFrom(cfg, inst)
    BY RunningParts
  <1>5. PICK dmaFailed, spiFailed, adcFailed : inst = Started(cfg, dmaFailed, spiFailed, adcFailed)
    BY <1>4 DEF StartedFrom
  <1>6. inst.DFSDM = DfsdmInit(cfg.DFSDM, inst.DMA)
    BY <1>5, StartedParts
  <1>7. cfg.DFSDM = DfsdmBuild(es)
    BY <1>2, <1>4, BuiltParts
  <1>8. i \in DOMAIN es /\ es[i] = e
    BY <1>2, <1>4, EntriesAre DEF Domains
  <1>9. /\ i \in DOMAIN cfg.DFSDM /\ cfg.DFSDM[i].gpio = e.gpio
        /\ cfg.DFSDM[i].channel = e.channel /\ cfg.DFSDM[i].filter = e.config.filter
    BY <1>7, <1>8 DEF DfsdmBuild
  <1>10. /\ inst.DFSDM[i].gpio = e.gpio /\ inst.DFSDM[i].channel = e.channel
         /\ inst.DFSDM[i].filter = e.config.filter
    BY <1>6, <1>9 DEF DfsdmInit
  <1>11. PinAt(e.gpio) = d.pin
    BY <1>3, PinsAreSet
  <1> QED
    BY <1>1, <1>3, <1>10, <1>11 DEF Serves, Mine

LEMMA Wired ==
  ASSUME BoardInv, phase = "running"
  PROVE  /\ inst.EXTI = ExtiInit(ExtiBuild(Entries(ctx, "EXTI")))
         /\ inst.DIn = DinBuild(Entries(ctx, "DIn")) /\ inst.DOut = DoutBuild(Entries(ctx, "DOut"))
         /\ cfg.MPU = MpuBuild(Entries(ctx, "MPU")) /\ inst.MPU = MpuInit(cfg.MPU)
         /\ inst.Eth = EthernetInit(Entries(ctx, "Eth"), inst.DOut)
         /\ cfg.Sd = Entries(ctx, "Sd") /\ inst.Sd = SdInit(cfg.Sd, inst.MPU, inst.DIn)
         /\ inst.MdmaPacket = MdmaPacketInit(Entries(ctx, "MdmaPacket"), inst.MPU)
         /\ cfg.SPI = Entries(ctx, "SPI") /\ cfg.DMA = DmaBuild(MergedDma(ctx))
         /\ \A x \in Domains : \A i \in 1 .. Len(ctx[x]) :
              i \in DOMAIN Entries(ctx, x) /\ Entries(ctx, x)[i] = ctx[x][i].e
  <1>1. Written(ctx) /\ cfg = Built(ctx) /\ StartedFrom(cfg, inst)
    BY RunningParts
  <1>2. PICK dmaFailed, spiFailed, adcFailed : inst = Started(cfg, dmaFailed, spiFailed, adcFailed)
    BY <1>1 DEF StartedFrom
  <1>3. /\ inst.EXTI = ExtiInit(cfg.EXTI) /\ inst.DIn = DinInit(cfg.DIn)
        /\ inst.DOut = DoutInit(cfg.DOut) /\ inst.MPU = MpuInit(cfg.MPU)
    BY <1>2, StartedParts
  <1>4. /\ inst.Eth = EthernetInit(cfg.Eth, inst.DOut)
        /\ inst.Sd = SdInit(cfg.Sd, inst.MPU, inst.DIn)
        /\ inst.MdmaPacket = MdmaPacketInit(cfg.MdmaPacket, inst.MPU)
    BY <1>2, StartedParts
  <1>5. /\ cfg.EXTI = ExtiBuild(Entries(ctx, "EXTI")) /\ cfg.DIn = DinBuild(Entries(ctx, "DIn"))
        /\ cfg.DOut = DoutBuild(Entries(ctx, "DOut")) /\ cfg.MPU = MpuBuild(Entries(ctx, "MPU"))
        /\ cfg.Eth = Entries(ctx, "Eth") /\ cfg.Sd = Entries(ctx, "Sd")
        /\ cfg.MdmaPacket = Entries(ctx, "MdmaPacket")
        /\ cfg.SPI = Entries(ctx, "SPI") /\ cfg.DMA = DmaBuild(MergedDma(ctx))
    BY <1>1, BuiltParts
  <1>6. ASSUME NEW x \in Domains, NEW i \in 1 .. Len(ctx[x])
        PROVE  i \in DOMAIN Entries(ctx, x) /\ Entries(ctx, x)[i] = ctx[x][i].e
    BY <1>1, EntriesAre
  <1>7. inst.DIn = cfg.DIn /\ inst.DOut = cfg.DOut
    BY <1>3 DEF DinInit, DoutInit
  <1> QED
    BY <1>3, <1>4, <1>5, <1>6, <1>7

LEMMA ExtiServed ==
  ASSUME BoardInv, phase = "running", NEW d \in ToSet(devices), d.type = "EXTI"
  PROVE  Serves(d)
  <1>1. PICK i \in 1 .. Len(ctx["EXTI"]) :
           OwnerIndex(ctx, "EXTI", d) = i /\ Holds(ctx, d, ctx["EXTI"][i].e)
    BY Claimed DEF Served
  <1>2. PICK e, es : e = ctx["EXTI"][i].e /\ es = Entries(ctx, "EXTI")
    OBVIOUS
  <1>3. Pinned(ctx, e.gpio, d.pin) /\ e.action = d.action
    BY <1>1, <1>2 DEF Holds, ExtiHolds
  <1>4. i \in DOMAIN es /\ es[i] = e
    BY <1>2, Wired DEF Domains
  <1>5. inst.EXTI = ExtiInit(ExtiBuild(es))
    BY <1>2, Wired
  <1>6. inst.EXTI[i].gpio = e.gpio /\ inst.EXTI[i].action = e.action
    BY <1>4, <1>5 DEF ExtiInit, ExtiBuild
  <1>7. PinAt(e.gpio) = d.pin
    BY <1>3, PinsAreSet
  <1> QED
    BY <1>1, <1>3, <1>6, <1>7 DEF Serves, Mine

(* The inputs and outputs, and the buffers, that devices refer to.         *)
LEMMA PartsHeld ==
  ASSUME BoardInv, phase = "running"
  PROVE  /\ \A n \in 1 .. Len(ctx["DIn"]) : inst.DIn[n] = ctx["DIn"][n].e.gpio
         /\ \A n \in 1 .. Len(ctx["DOut"]) : inst.DOut[n] = ctx["DOut"][n].e.gpio
         /\ \A n \in 1 .. Len(ctx["MPU"]) :
              /\ inst.MPU[n].size = ctx["MPU"][n].e.size
              /\ inst.MPU[n].ptr = <<ctx["MPU"][n].e.memory, cfg.MPU[n].offset>>
              /\ cfg.MPU[n].offset \in Nat /\ cfg.MPU[n].size = ctx["MPU"][n].e.size
              /\ cfg.MPU[n].memory = ctx["MPU"][n].e.memory
  <1>1. ASSUME NEW n \in 1 .. Len(ctx["DIn"]) PROVE inst.DIn[n] = ctx["DIn"][n].e.gpio
    <2>1. PICK es : es = Entries(ctx, "DIn")
      OBVIOUS
    <2>2. n \in DOMAIN es /\ es[n] = ctx["DIn"][n].e /\ inst.DIn = DinBuild(es)
      BY <2>1, Wired DEF Domains
    <2> QED
      BY <2>2 DEF DinBuild
  <1>2. ASSUME NEW n \in 1 .. Len(ctx["DOut"]) PROVE inst.DOut[n] = ctx["DOut"][n].e.gpio
    <2>1. PICK es : es = Entries(ctx, "DOut")
      OBVIOUS
    <2>2. n \in DOMAIN es /\ es[n] = ctx["DOut"][n].e /\ inst.DOut = DoutBuild(es)
      BY <2>1, Wired DEF Domains
    <2> QED
      BY <2>2 DEF DoutBuild
  <1>3. ASSUME NEW n \in 1 .. Len(ctx["MPU"])
        PROVE  /\ inst.MPU[n].size = ctx["MPU"][n].e.size
               /\ inst.MPU[n].ptr = <<ctx["MPU"][n].e.memory, cfg.MPU[n].offset>>
               /\ cfg.MPU[n].offset \in Nat /\ cfg.MPU[n].size = ctx["MPU"][n].e.size
               /\ cfg.MPU[n].memory = ctx["MPU"][n].e.memory
    <2>1. PICK es, g, m : es = Entries(ctx, "MPU") /\ g = cfg.MPU /\ m = Len(ctx["MPU"])
      OBVIOUS
    <2>2. n \in DOMAIN es /\ es[n] = ctx["MPU"][n].e /\ g = MpuBuild(es) /\ inst.MPU = MpuInit(g)
      BY <2>1, Wired DEF Domains
    <2>3. m \in Nat /\ Layable(es, m)
      BY <2>1, RunningParts, BoardLays
    <2>4. n \in DOMAIN g /\ g[n].offset \in Nat /\ g[n].size = es[n].size /\ g[n].memory = es[n].memory
      BY <2>1, <2>2, <2>3, BuildLays
    <2>5. inst.MPU[n].ptr = <<g[n].memory, g[n].offset>> /\ inst.MPU[n].size = g[n].size
      BY <2>2, <2>4 DEF MpuInit
    <2> QED
      BY <2>1, <2>2, <2>4, <2>5
  <1> QED
    BY <1>1, <1>2, <1>3

LEMMA PinDevicesServed ==
  ASSUME BoardInv, phase = "running", NEW d \in ToSet(devices), d.type \in {"DIn", "DOut"}
  PROVE  Serves(d)
  <1>1. CASE d.type = "DIn"
    <2>1. PICK i \in 1 .. Len(ctx["DIn"]) :
             OwnerIndex(ctx, "DIn", d) = i /\ Holds(ctx, d, ctx["DIn"][i].e)
      BY <1>1, Claimed DEF Served
    <2>2. Pinned(ctx, ctx["DIn"][i].e.gpio, d.pin)
      BY <1>1, <2>1 DEF Holds, PinHolds
    <2>3. inst.DIn[i] = ctx["DIn"][i].e.gpio /\ PinAt(ctx["DIn"][i].e.gpio) = d.pin
      BY <2>2, PartsHeld, PinsAreSet
    <2> QED
      BY <1>1, <2>1, <2>3 DEF Serves, Mine
  <1>2. CASE d.type = "DOut"
    <2>1. PICK i \in 1 .. Len(ctx["DOut"]) :
             OwnerIndex(ctx, "DOut", d) = i /\ Holds(ctx, d, ctx["DOut"][i].e)
      BY <1>2, Claimed DEF Served
    <2>2. Pinned(ctx, ctx["DOut"][i].e.gpio, d.pin)
      BY <1>2, <2>1 DEF Holds, PinHolds
    <2>3. inst.DOut[i] = ctx["DOut"][i].e.gpio /\ PinAt(ctx["DOut"][i].e.gpio) = d.pin
      BY <2>2, PartsHeld, PinsAreSet
    <2> QED
      BY <1>2, <2>1, <2>3 DEF Serves, Mine
  <1> QED
    BY <1>1, <1>2

LEMMA MpuServed ==
  ASSUME BoardInv, phase = "running", NEW d \in ToSet(devices), d.type = "MPU"
  PROVE  Serves(d)
  <1>1. PICK i \in 1 .. Len(ctx["MPU"]) :
           OwnerIndex(ctx, "MPU", d) = i /\ Holds(ctx, d, ctx["MPU"][i].e)
    BY Claimed DEF Served
  <1>2. ctx["MPU"][i].e.memory = d.memory /\ ctx["MPU"][i].e.size = d.size
    BY <1>1 DEF Holds, MpuHolds
  <1>3. inst.MPU[i].size = d.size /\ inst.MPU[i].ptr[1] = d.memory
    BY <1>2, PartsHeld
  <1> QED
    BY <1>1, <1>3 DEF Serves, Mine

LEMMA EthServed ==
  ASSUME BoardInv, phase = "running", NEW d \in ToSet(devices), d.type = "Eth"
  PROVE  Serves(d)
  <1>1. PICK i \in 1 .. Len(ctx["Eth"]) :
           OwnerIndex(ctx, "Eth", d) = i /\ Holds(ctx, d, ctx["Eth"][i].e)
    BY Claimed DEF Served
  <1>2. PICK e, es : e = ctx["Eth"][i].e /\ es = Entries(ctx, "Eth")
    OBVIOUS
  <1>3. e.reset \in 1 .. Len(ctx["DOut"]) /\ Pinned(ctx, ctx["DOut"][e.reset].e.gpio, d.pins.reset)
    BY <1>1, <1>2 DEF Holds, EthHolds
  <1>4. i \in DOMAIN es /\ es[i] = e /\ inst.Eth = EthernetInit(es, inst.DOut)
    BY <1>2, Wired DEF Domains
  <1>5. inst.Eth[i].reset = inst.DOut[e.reset]
    BY <1>4 DEF EthernetInit
  <1>6. inst.DOut[e.reset] = ctx["DOut"][e.reset].e.gpio
    BY <1>3, PartsHeld
  <1>7. PinAt(ctx["DOut"][e.reset].e.gpio) = d.pins.reset
    BY <1>3, PinsAreSet
  <1> QED
    BY <1>1, <1>5, <1>6, <1>7 DEF Serves, Mine

LEMMA PacketServed ==
  ASSUME BoardInv, phase = "running", NEW d \in ToSet(devices), d.type = "MdmaPacket"
  PROVE  Serves(d)
  <1>1. PICK i \in 1 .. Len(ctx["MdmaPacket"]) :
           OwnerIndex(ctx, "MdmaPacket", d) = i /\ Holds(ctx, d, ctx["MdmaPacket"][i].e)
    BY Claimed DEF Served
  <1>2. PICK e, es : e = ctx["MdmaPacket"][i].e /\ es = Entries(ctx, "MdmaPacket")
    OBVIOUS
  <1>3. e.packet \in 1 .. Len(ctx["MPU"]) /\ ctx["MPU"][e.packet].e.size = PacketBytes(d)
    BY <1>1, <1>2 DEF Holds, PacketHolds, BufferAt
  <1>4. i \in DOMAIN es /\ es[i] = e /\ inst.MdmaPacket = MdmaPacketInit(es, inst.MPU)
    BY <1>2, Wired DEF Domains
  <1>5. inst.MdmaPacket[i].packet = inst.MPU[e.packet]
    BY <1>4 DEF MdmaPacketInit
  <1>6. inst.MPU[e.packet].size = PacketBytes(d)
    BY <1>3, PartsHeld
  <1> QED
    BY <1>1, <1>5, <1>6 DEF Serves, Mine

LEMMA RequestOfSpi ==
  ASSUME NEW p \in SpiPeripherals, NEW id \in {0, 1}, Request(p, id) # <<>>
  PROVE  Request(p, id) = <<p, IF id = 0 THEN "RX" ELSE "TX">>
  <1>1. p # "none" /\ p # "fmac" /\ p \notin AdcPeripherals \cup DfsdmFilters /\ p \notin I2cPeripherals
    BY DEF SpiPeripherals, AdcPeripherals, DfsdmFilters, I2cPeripherals
  <1>2. CASE p = "spi6"
    BY <1>1, <1>2 DEF Request
  <1>3. CASE p # "spi6"
    <2>1. p \in SpiPeripherals \ {"spi6"}
      BY <1>3
    <2>2. Request(p, id) = <<p, <<"RX", "TX">>[id + 1]>>
      BY <1>1, <2>1 DEF Request
    <2>3. <<"RX", "TX">>[id + 1] = IF id = 0 THEN "RX" ELSE "TX"
      OBVIOUS
    <2> QED
      BY <2>2, <2>3
  <1> QED
    BY <1>2, <1>3

LEMMA SpiStreamServed ==
  ASSUME BoardInv, phase = "running", NEW p \in SpiPeripherals, NEW id \in {0, 1},
         NEW s, NEW n, StreamAt(ctx, n, DmaEntry(p, s, id))
  PROVE  /\ cfg.DMA[n].request = <<p, IF id = 0 THEN "RX" ELSE "TX">>
         /\ s \in {none, cfg.DMA[n].stream}
  <1>1. PICK m, g : m = Len(ctx["DMA"]) /\ g = cfg.DMA
    OBVIOUS
  <1>2. g = DmaBuild(MergedDma(ctx)) /\ m = Len(ctx["DMA"])
    BY <1>1, Wired
  <1>3. Written(ctx) /\ EntriesOK(ctx) /\ Accepts(ctx)
    BY RunningParts
  <1>4. \A i \in 1 .. m : /\ g[i].instance = ctx["DMA"][i].e.instance
                          /\ g[i].request = Request(ctx["DMA"][i].e.instance, ctx["DMA"][i].e.id)
                          /\ ctx["DMA"][i].e.stream \in {none, g[i].stream}
                          /\ g[i].request # <<>>
    BY <1>2, <1>3, DmaParts
  <1>5. n \in 1 .. m /\ ctx["DMA"][n].e = DmaEntry(p, s, id)
    BY <1>1 DEF StreamAt
  <1>6. /\ ctx["DMA"][n].e.instance = p /\ ctx["DMA"][n].e.id = id
        /\ ctx["DMA"][n].e.stream = s
    BY <1>5 DEF DmaEntry
  <1>7. g[n].request = Request(p, id) /\ s \in {none, g[n].stream} /\ Request(p, id) # <<>>
    BY <1>4, <1>5, <1>6
  <1> QED
    BY <1>1, <1>7, RequestOfSpi

LEMMA SpiServed ==
  ASSUME BoardInv, phase = "running", NEW d \in ToSet(devices), d.type = "SPI"
  PROVE  Serves(d)
  <1>1. PICK i \in 1 .. Len(ctx["SPI"]) :
           OwnerIndex(ctx, "SPI", d) = i /\ Holds(ctx, d, ctx["SPI"][i].e)
    BY Claimed DEF Served
  <1>2. PICK e, es : e = ctx["SPI"][i].e /\ es = Entries(ctx, "SPI")
    OBVIOUS
  <1>3. SpiHolds(ctx, d, e)
    BY <1>1, <1>2 DEF Holds
  <1>4. es[i] = e /\ cfg.SPI = es
    BY <1>2, Wired DEF Domains
  <1>5. MyCfg(d) = e
    BY <1>1, <1>4 DEF MyCfg
  <1>6. d.peripheral \in SpiPeripherals
    <2>1. IsDevice(d)
      BY RunningParts DEF CtxOK
    <2> QED
      BY <2>1 DEF IsDevice
  <1>7. PinAt(e.sck) = d.sck /\ AfAt(e.sck) = SpiAf(d.sck, d.peripheral)
    <2>1. Driven(ctx, e.sck, d.sck, SpiAf(d.sck, d.peripheral))
      BY <1>3 DEF SpiHolds
    <2>2. Pinned(ctx, e.sck, d.sck)
      BY <2>1 DEF Driven
    <2> QED
      BY <2>1, <2>2, PinsAreSet
  <1>8. PinAt(e.miso) = d.miso /\ PinAt(e.mosi) = d.mosi
    <2>1. Pinned(ctx, e.miso, d.miso) /\ Pinned(ctx, e.mosi, d.mosi)
      BY <1>3 DEF SpiHolds, Driven
    <2> QED
      BY <2>1, PinsAreSet
  <1>9. ASSUME d.nss # NoPin PROVE PinAt(e.nss) = d.nss
    <2>1. Pinned(ctx, e.nss, d.nss)
      BY <1>3, <1>9 DEF SpiHolds
    <2> QED
      BY <2>1, PinsAreSet
  <1>10. cfg.DMA[e.rx].request = <<d.peripheral, "RX">> /\ d.streams[1] \in {none, cfg.DMA[e.rx].stream}
    <2>1. StreamAt(ctx, e.rx, DmaEntry(d.peripheral, d.streams[1], 0))
      BY <1>3 DEF SpiHolds
    <2> QED
      BY <1>6, <2>1, 0 \in {0, 1}, SpiStreamServed
  <1>11. cfg.DMA[e.tx].request = <<d.peripheral, "TX">> /\ d.streams[2] \in {none, cfg.DMA[e.tx].stream}
    <2>1. StreamAt(ctx, e.tx, DmaEntry(d.peripheral, d.streams[2], 1))
      BY <1>3 DEF SpiHolds
    <2> QED
      BY <1>6, <2>1, 1 \in {0, 1}, SpiStreamServed
  <1> QED
    BY <1>5, <1>7, <1>8, <1>9, <1>10, <1>11 DEF Serves

(* The two buffers of a card lie apart, so they are two.                   *)
LEMMA BuffersDiffer ==
  ASSUME BoardInv, phase = "running", NEW i \in 1 .. Len(ctx["MPU"]), NEW j \in 1 .. Len(ctx["MPU"]),
         i # j, ctx["MPU"][i].e.size \in Nat \ {0}, ctx["MPU"][j].e.size = ctx["MPU"][i].e.size
  PROVE  inst.MPU[i] # inst.MPU[j]
  <1>1. PICK es, g, m : es = Entries(ctx, "MPU") /\ g = cfg.MPU /\ m = Len(ctx["MPU"])
    OBVIOUS
  <1>2. g = MpuBuild(es)
    BY <1>1, Wired
  <1>3. m \in Nat /\ Layable(es, m)
    BY <1>1, RunningParts, BoardLays
  <1>4. i \in 1 .. m /\ j \in 1 .. m
    BY <1>1
  <1>5. Apart(g[i], g[j])
    BY <1>2, <1>3, <1>4, LaidApart
  <1>6. PICK s : s = ctx["MPU"][i].e.size
    OBVIOUS
  <1>7. /\ s \in Nat \ {0} /\ g[i].size = s /\ g[j].size = s
        /\ g[i].offset \in Nat /\ g[j].offset \in Nat
        /\ inst.MPU[i].ptr = <<g[i].memory, g[i].offset>>
        /\ inst.MPU[j].ptr = <<g[j].memory, g[j].offset>>
    BY <1>1, <1>6, PartsHeld
  <1>8. ~(g[i].memory = g[j].memory /\ g[i].offset = g[j].offset)
    BY <1>5, <1>7 DEF Apart
  <1>9. inst.MPU[i].ptr # inst.MPU[j].ptr
    BY <1>7, <1>8
  <1> QED
    BY <1>9

LEMMA SdServed ==
  ASSUME BoardInv, phase = "running", NEW d \in ToSet(devices), d.type = "Sd"
  PROVE  Serves(d)
  <1>1. PICK i \in 1 .. Len(ctx["Sd"]) :
           OwnerIndex(ctx, "Sd", d) = i /\ Holds(ctx, d, ctx["Sd"][i].e)
    BY Claimed DEF Served
  <1>2. PICK e, es : e = ctx["Sd"][i].e /\ es = Entries(ctx, "Sd")
    OBVIOUS
  <1>3. SdHolds(ctx, d, e)
    BY <1>1, <1>2 DEF Holds
  <1>4. i \in DOMAIN es /\ es[i] = e /\ cfg.Sd = es /\ inst.Sd = SdInit(es, inst.MPU, inst.DIn)
    BY <1>2, Wired DEF Domains
  <1>5. MyCfg(d) = e /\ Mine(d) = inst.Sd[i]
    BY <1>1, <1>4 DEF MyCfg, Mine
  <1>6. /\ inst.Sd[i].buffers = <<inst.MPU[e.buffers[1]], inst.MPU[e.buffers[2]]>>
        /\ inst.Sd[i].cd = (IF e.cd = 0 THEN 0 ELSE inst.DIn[e.cd])
        /\ inst.Sd[i].wp = (IF e.wp = 0 THEN 0 ELSE inst.DIn[e.wp])
    BY <1>4 DEF SdInit
  <1>7. PICK a, b, size : a = e.buffers[1] /\ b = e.buffers[2] /\ size = 512 * d.blocks
    OBVIOUS
  <1>8. size \in Nat \ {0}
    <2>1. d.blocks \in 1 .. 15
      BY <1>3 DEF SdHolds
    <2> QED
      BY <1>7, <2>1, SMTT(30)
  <1>9. BufferAt(ctx, a, size) /\ BufferAt(ctx, b, size) /\ a # b
    <2>1. 1 \in 1 .. 2 /\ 2 \in 1 .. 2
      OBVIOUS
    <2> QED
      BY <1>3, <1>7, <2>1 DEF SdHolds
  <1>10. /\ a \in 1 .. Len(ctx["MPU"]) /\ b \in 1 .. Len(ctx["MPU"])
         /\ ctx["MPU"][a].e.size = size /\ ctx["MPU"][b].e.size = size
    BY <1>9 DEF BufferAt
  <1>11. inst.MPU[a].size = size /\ inst.MPU[b].size = size
    BY <1>10, PartsHeld
  <1>12. inst.MPU[a] # inst.MPU[b]
    BY <1>8, <1>9, <1>10, BuffersDiffer
  <1>13. ASSUME NEW n, NEW pin, InputAt(ctx, n, pin) PROVE n # 0 /\ PinAt(inst.DIn[n]) = pin
    <2>1. n \in 1 .. Len(ctx["DIn"]) /\ Pinned(ctx, ctx["DIn"][n].e.gpio, pin)
      BY <1>13 DEF InputAt
    <2>2. inst.DIn[n] = ctx["DIn"][n].e.gpio
      BY <2>1, PartsHeld
    <2>3. PinAt(ctx["DIn"][n].e.gpio) = pin
      BY <2>1, PinsAreSet
    <2>4. n # 0
      BY <2>1
    <2> QED
      BY <2>2, <2>3, <2>4
  <1>14. ASSUME d.cd # <<>> PROVE PinAt(inst.Sd[i].cd) = d.cd
    <2>1. InputAt(ctx, e.cd, d.cd)
      BY <1>3, <1>14 DEF SdHolds
    <2>2. e.cd # 0 /\ PinAt(inst.DIn[e.cd]) = d.cd
      BY <1>13, <2>1
    <2> QED
      BY <1>6, <2>2
  <1>15. ASSUME d.wp # <<>> PROVE PinAt(inst.Sd[i].wp) = d.wp
    <2>1. InputAt(ctx, e.wp, d.wp)
      BY <1>3, <1>15 DEF SdHolds
    <2>2. e.wp # 0 /\ PinAt(inst.DIn[e.wp]) = d.wp
      BY <1>13, <2>1
    <2> QED
      BY <1>6, <2>2
  <1>16. \A n \in 1 .. 6 : PinAt(e.lines[n]) = SdPins(d)[n]
    <2> TAKE n \in 1 .. 6
    <2>1. Pinned(ctx, e.lines[n], SdPins(d)[n])
      BY <1>3 DEF SdHolds
    <2> QED
      BY <2>1, PinsAreSet
  <1>17. inst.Sd[i].buffers[1] = inst.MPU[a] /\ inst.Sd[i].buffers[2] = inst.MPU[b]
    BY <1>6, <1>7
  <1> QED
    BY <1>5, <1>7, <1>11, <1>12, <1>14, <1>15, <1>16, <1>17 DEF Serves

LEMMA OwnersAreServed == BoardInv => OwnersGetWhatTheyAskedFor
  <1> SUFFICES ASSUME BoardInv, phase = "running", NEW d \in ToSet(devices), d.type \in Served
               PROVE  Serves(d)
    BY DEF OwnersGetWhatTheyAskedFor, Running
  <1>1. CASE d.type \in {"ADC", "SPI", "DFSDM", "EXTI", "DIn", "DOut"}
    BY <1>1, AdcServed, SpiServed, DfsdmServed, ExtiServed, PinDevicesServed
  <1>2. CASE d.type \in {"MPU", "Eth", "Sd", "MdmaPacket"}
    BY <1>2, MpuServed, EthServed, SdServed, PacketServed
  <1> QED
    BY <1>1, <1>2 DEF Served

(* Board::instance_of: whatever stands around it, every device of the types  *)
(* in Served finds an instance of its own request, on its own pins with the  *)
(* function they need, with the streams it named and its own buffers         *)
(* (inscribe, build and Init of their domains).  A timer may not: a run      *)
(* refutes it (TimersServeTheirOwners).                                      *)
THEOREM OwnersAlwaysGetTheirs == Spec => []OwnersGetWhatTheyAskedFor
  BY BoardInvariant, OwnersAreServed, PTL

=============================================================================
