------------------------------ MODULE MpuDomain ------------------------------
(* Buffers laid out at compile time in the three memory domains, cached or     *)
(* not, and the regions of the memory protection unit over them                *)
(* (src/Inc/HALAL/Models/MPU.hpp).  Sizes and offsets are bytes.              *)
EXTENDS BuildCtx, FiniteSetsExt, SequencesExt

(* From the coarsest to the finest, the order in which they are laid out.      *)
Alignments == <<32, 16, 8, 4, 2, 1>>
MemoryDomains == {"D1", "D2", "D3"}
Memories == MemoryDomains \X {"Cached", "NonCached"}

AlignUp(val, align) == ((val + align - 1) \div align) * align

MpuCompiles(d) == d.alignment \in ToSet(Alignments)

InscribeMpu(ctx, d) ==
    Add(ctx, "MPU", [memory |-> d.memory, alignment |-> d.alignment, size |-> d.size], d)

(* One walk over the entries for each alignment: those of its memory that an   *)
(* entry finds laid out when its turn comes.                                  *)
LaidBefore(es, i) ==
    {j \in DOMAIN es : /\ es[j].memory = es[i].memory
                       /\ \/ es[j].alignment > es[i].alignment
                          \/ es[j].alignment = es[i].alignment /\ j < i}

(* The last of them ends where the memory has got to.                         *)
LastOf(es, before) == CHOOSE j \in before : before \subseteq LaidBefore(es, j) \cup {j}

MpuLayout(es) ==
    LET offset[i \in DOMAIN es] ==
            LET before == LaidBefore(es, i)
                last   == LastOf(es, before)
            IN  AlignUp(IF before = {} THEN 0 ELSE offset[last] + es[last].size,
                        es[i].alignment)
    IN  offset

MpuBuild(es) ==
    [i \in DOMAIN es |->
        [offset |-> MpuLayout(es)[i], size |-> es[i].size, memory |-> es[i].memory]]

(* calculate_total_sizes: what the static array of a memory must hold.         *)
MpuTotal(cfgs, m) ==
    AlignUp(Max({0} \cup {cfgs[i].offset + cfgs[i].size :
                            i \in {j \in DOMAIN cfgs : cfgs[j].memory = m}}), 32)

(* The instance points into the array of its memory.                          *)
MpuInit(cfgs) ==
    [i \in DOMAIN cfgs |->
        [ptr |-> <<cfgs[i].memory, cfgs[i].offset>>, size |-> cfgs[i].size]]

-----------------------------------------------------------------------------
(* configure_region: the smallest power of two that holds the size, from 32    *)
(* on, and how many of its eighths are enabled.                               *)
RegionSize(size) ==
    CHOOSE s \in {2^k : k \in 5 .. 20} :
        s >= size /\ \A k \in 5 .. 20 : 2^k >= size => s <= 2^k
Eighths(size) ==
    LET sub == RegionSize(size) \div 8 IN (size + sub - 1) \div sub

(* Bytes from the base that the region governs.                              *)
RegionBytes(size) == Eighths(size) * (RegionSize(size) \div 8)

(* The array of a memory; an empty one still has a byte.                      *)
SectionBytes(cfgs, m) == Max({1, MpuTotal(cfgs, m)})

R(over, access, exec, cache) ==
    [over |-> over, access |-> access, exec |-> exec, cache |-> cache]
Ram(d) == {<<d, "Cached">>, <<d, "NonCached">>}

(* The regions by number, of which the highest governs, with the memories      *)
(* they lie over: all, flash, the three domains, the peripherals, the tightly   *)
(* coupled memories and the guard at address 0.  The uncached section of a      *)
(* domain gets one when it is not empty.                                     *)
StaticRegions ==
    ( 0 :> R(Memories, FALSE, FALSE, FALSE)) @@ ( 1 :> R({}, TRUE, TRUE, TRUE)) @@
    ( 2 :> R(Ram("D1"), TRUE, FALSE, TRUE))  @@ ( 4 :> R(Ram("D2"), TRUE, FALSE, TRUE)) @@
    ( 6 :> R(Ram("D3"), TRUE, FALSE, TRUE))  @@ ( 8 :> R({}, TRUE, FALSE, FALSE)) @@
    (10 :> R({}, TRUE, FALSE, TRUE))         @@ (11 :> R({}, TRUE, TRUE, TRUE)) @@
    (12 :> R({}, FALSE, FALSE, FALSE))
DynamicRegions(cfgs) ==
    LET number == [D1 |-> 3, D2 |-> 5, D3 |-> 7]
        used   == {d \in MemoryDomains : SectionBytes(cfgs, <<d, "NonCached">>) > 0}
    IN  [n \in {number[d] : d \in used} |->
            R({<<CHOOSE d \in used : number[d] = n, "NonCached">>}, TRUE, FALSE, FALSE)]
MpuRegions(cfgs) == DynamicRegions(cfgs) @@ StaticRegions
=============================================================================
