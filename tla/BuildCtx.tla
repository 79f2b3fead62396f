------------------------------ MODULE BuildCtx ------------------------------
(* What the devices of a board write down before it is built: for every      *)
(* domain a list of entries, each with the device that owns it               *)
(* (src/Inc/ST-LIB.hpp, BuildCtx).                                           *)
EXTENDS Naturals, Sequences, FiniteSets

Domains == {"MPU", "GPIO", "TIM", "DMA", "SPI", "DOut", "DIn", "MdmaPacket",
            "Sd", "Eth", "ADC", "EXTI", "DFSDM", "DFSDMClk"}

(* Room of the arrays of a context.                                          *)
MaxInstances(d) ==
    CASE d \in {"DMA", "EXTI", "TIM"} -> 16
      [] d = "SPI" -> 6
      [] d = "Sd" -> 2
      [] d \in {"Eth", "DFSDMClk"} -> 1
      [] d = "DFSDM" -> 8
      [] d = "ADC" -> 32
      [] d = "MPU" -> 100
      [] d = "MdmaPacket" -> 50
      [] OTHER -> 110

EmptyCtx == [d \in Domains |-> <<>>]

Add(ctx, d, e, owner) ==
    [ctx EXCEPT ![d] = Append(@, [e |-> e, owner |-> owner])]

(* The entries of a device that writes down several, one after the other.    *)
AddAll(ctx, d, es, owner) ==
    [ctx EXCEPT ![d] = @ \o [i \in DOMAIN es |-> [e |-> es[i], owner |-> owner]]]

(* The index add returns, in a context that already holds the entry.         *)
LastIndex(ctx, d) == Len(ctx[d])

Entries(ctx, d) == [i \in DOMAIN ctx[d] |-> ctx[d][i].e]

(* Writing past an array is no constant expression: the board is refused.    *)
Fits(ctx) == \A d \in Domains : Len(ctx[d]) <= MaxInstances(d)

Owned(ctx, d, dev) == {i \in DOMAIN ctx[d] : ctx[d][i].owner = dev}

(* Board::instance_of takes the first entry the device owns in its domain.   *)
OwnerIndex(ctx, d, dev) ==
    CHOOSE i \in Owned(ctx, d, dev) : \A j \in Owned(ctx, d, dev) : i <= j

(* What a walk over a list that passes some by leaves of it: its elements at   *)
(* these places, in order.                                                   *)
Rank(places, i) == Cardinality({j \in places : j < i})
Pick(s, places) ==
    [k \in 1 .. Cardinality(places) |-> s[CHOOSE i \in places : Rank(places, i) = k - 1]]
=============================================================================
