------------------------------ MODULE AdcDomain ------------------------------
(* Analog inputs: which converter and channel a pin gets, the DMA stream a    *)
(* converter needs, and the cell of the sample pool each instance reads       *)
(* (src/Inc/HALAL/Services/ADC/ADC.hpp, built with three converters).         *)
EXTENDS Pins, DmaDomain, FiniteSetsExt, SequencesExt

Converters == <<"ADC_1", "ADC_2", "ADC_3">>
AUTO == "AUTO"              \* the converter is left open

(* Inputs 0 to 19, the three internal sources, and the channel left open.     *)
InternalChannels == 20 .. 22
AdcChannels == 0 .. 22
AUTO_CHANNEL == 23

PeripheralIndex(p) == CHOOSE i \in 1 .. 3 : Converters[i] = p
DmaPeripheral(p)   == <<"adc1", "adc2", "adc3">>[PeripheralIndex(p)]
MaxBits(p)         == IF p = "ADC_3" THEN 12 ELSE 16

(* pin_map: a pin has the same channel on every converter that reaches it.   *)
PinChannel ==
    { <<"A",  0, 16>>, <<"A",  1, 17>>, <<"A",  2, 14>>, <<"A",  3, 15>>,
      <<"A",  4, 18>>, <<"A",  5, 19>>, <<"A",  6,  3>>, <<"A",  7,  7>>,
      <<"B",  0,  9>>, <<"B",  1,  5>>, <<"C",  0, 10>>, <<"C",  1, 11>>,
      <<"C",  2,  0>>, <<"C",  3,  1>>, <<"C",  4,  4>>, <<"C",  5,  8>>,
      <<"F",  3,  5>>, <<"F",  4,  9>>, <<"F",  5,  4>>, <<"F",  6,  8>>,
      <<"F",  7,  3>>, <<"F",  8,  7>>, <<"F",  9,  2>>, <<"F", 10,  6>>,
      <<"F", 11,  2>>, <<"F", 12,  6>>, <<"F", 13,  2>>, <<"F", 14,  6>> }

ConvertersOf(pin) ==
    CASE pin \in {<<"A", 0>>, <<"A", 1>>, <<"F", 11>>, <<"F", 12>>} -> {"ADC_1"}
      [] pin \in {<<"C", 0>>, <<"C", 1>>} -> {"ADC_1", "ADC_2", "ADC_3"}
      [] pin \in {<<"F", 13>>, <<"F", 14>>} -> {"ADC_2"}
      [] pin \in {<<"C", 2>>, <<"C", 3>>} \cup {<<"F", n>> : n \in 3 .. 10} ->
            {"ADC_3"}
      [] OTHER -> {"ADC_1", "ADC_2"}

PinMap ==
    UNION {{[peripheral |-> p, channel |-> c[3], pin |-> <<c[1], c[2]>>] :
                p \in ConvertersOf(<<c[1], c[2]>>)} : c \in PinChannel}

(* Fine resolutions go to the first converter, coarse ones to the third.     *)
Preference(bits) == IF bits > 12 THEN <<"ADC_1", "ADC_2", "ADC_3">>
                                 ELSE <<"ADC_3", "ADC_1", "ADC_2">>

InternalAllowed(p, channel) == channel \in InternalChannels => p = "ADC_3"

Mappings(e) ==
    {m \in PinMap : /\ m.pin = e.pin
                    /\ e.peripheral \in {AUTO, m.peripheral}
                    /\ e.channel \in {AUTO_CHANNEL, m.channel}
                    /\ e.bits <= MaxBits(m.peripheral)}

Unresolved == [peripheral |-> AUTO, channel |-> AUTO_CHANNEL]

(* resolve_mapping.  A converter and a channel that are both named are taken  *)
(* without a look at the pin; so is an internal channel, on the third.       *)
Resolve(e) ==
    LET named == [peripheral |-> IF e.peripheral = AUTO THEN "ADC_3"
                                                        ELSE e.peripheral,
                  channel |-> e.channel]
        found == {m.peripheral : m \in Mappings(e)}
        first == CHOOSE i \in 1 .. 3 :
                    /\ Preference(e.bits)[i] \in found
                    /\ \A j \in 1 .. i - 1 : Preference(e.bits)[j] \notin found
        best  == Preference(e.bits)[first]
    IN  IF \/ e.channel \in InternalChannels
           \/ e.peripheral # AUTO /\ e.channel # AUTO_CHANNEL
        THEN IF /\ InternalAllowed(named.peripheral, e.channel)
                /\ e.bits <= MaxBits(named.peripheral)
                /\ e.channel \in AdcChannels
             THEN named ELSE Unresolved
        ELSE IF found = {} THEN Unresolved
        ELSE [peripheral |-> best,
              channel |-> (CHOOSE m \in Mappings(e) : m.peripheral = best).channel]

AdcCompiles(d) ==
    /\ GpioCompiles(Gpio(d.pin, "ANALOG", NO_AF))
    /\ Resolve(d) # Unresolved

InscribeAdc(ctx, d) ==
    LET c1 == Add(ctx, "GPIO", Gpio(d.pin, "ANALOG", NO_AF), d)
    IN  Add(c1, "ADC",
            [gpio |-> LastIndex(c1, "GPIO"), peripheral |-> Resolve(d).peripheral,
             channel |-> Resolve(d).channel, bits |-> d.bits,
             prescaler |-> d.prescaler, rate |-> d.rate], d)

-----------------------------------------------------------------------------
UsedConverters(es) == {es[i].peripheral : i \in DOMAIN es}

DmaEntriesFor(p, dma) == {i \in DOMAIN dma : dma[i].instance = DmaPeripheral(p)}

AdcAccepts(es, dma) ==
    /\ \A i \in DOMAIN es : es[i].rate = 0
    /\ \A i, j \in DOMAIN es : i < j =>
          /\ es[i].gpio # es[j].gpio
          /\ es[i].peripheral = es[j].peripheral =>
                /\ es[i].bits = es[j].bits
                /\ es[i].prescaler = es[j].prescaler
                /\ es[i].channel # es[j].channel
    /\ \A p \in UsedConverters(es) :
          /\ Cardinality({i \in DOMAIN es : es[i].peripheral = p}) <= 16
          /\ Cardinality(DmaEntriesFor(p, dma)) <= 1
          /\ \A i \in DmaEntriesFor(p, dma) : dma[i].id = 0

AdcBuild(es) ==
    [i \in DOMAIN es |->
        [peripheral |-> es[i].peripheral, channel |-> es[i].channel,
         bits |-> es[i].bits,
         request |-> Request(DmaPeripheral(es[i].peripheral), 0)]]

(* Defect: a stream for each converter, also when a device already has it.    *)
ContributionForAll(es, dma) ==
    LET used == Pick(Converters, {n \in 1 .. 3 : Converters[n] \in UsedConverters(es)})
    IN  [i \in DOMAIN used |-> DmaEntry(DmaPeripheral(used[i]), none, 0)]

(* One stream, whichever is left, for each converter in use without one.     *)
AdcContributions(es, dma) ==
    LET missing == Pick(Converters,
                        {n \in 1 .. 3 : /\ Converters[n] \in UsedConverters(es)
                                       /\ DmaEntriesFor(Converters[n], dma) = {}})
    IN  [i \in DOMAIN missing |-> DmaEntry(DmaPeripheral(missing[i]), none, 0)]

-----------------------------------------------------------------------------
(* Start-up.  "failed" holds the converters for which the HAL refuses the     *)
(* initialisation, a channel or the start of the DMA; "dma" are the handles.  *)
OnConverter(cfgs, p)   == Pick(cfgs, {i \in DOMAIN cfgs : cfgs[i].peripheral = p})
BufferSizeFor(cfgs, p) == Len(OnConverter(cfgs, p))

(* Defect: the third buffer starts where the second does.                     *)
OffsetPastFirst(cfgs, p) == IF p = "ADC_1" THEN 0 ELSE BufferSizeFor(cfgs, "ADC_1")

(* The buffers of the three converters follow each other in the pool.         *)
BufferOffsetFor(cfgs, p) ==
    CASE p = "ADC_1" -> 0
      [] p = "ADC_2" -> BufferSizeFor(cfgs, "ADC_1")
      [] p = "ADC_3" -> BufferSizeFor(cfgs, "ADC_1") + BufferSizeFor(cfgs, "ADC_2")

(* The instance of a request is the first handle that still carries it.      *)
HasDmaInstance(cfgs, dma, p) ==
    \E i \in DOMAIN dma : dma[i].request = OnConverter(cfgs, p)[1].request

PeriphReady(cfgs, dma, failed, p) ==
    /\ BufferSizeFor(cfgs, p) > 0
    /\ HasDmaInstance(cfgs, dma, p)
    /\ p \notin failed

(* The order in which a converter's channels were declared ranks them.       *)
InstanceRank(cfgs, i) ==
    Cardinality({j \in 1 .. i - 1 : cfgs[j].peripheral = cfgs[i].peripheral})

NoSlot == 0
DmaSlot(cfgs, p, rank) ==
    IF rank < BufferSizeFor(cfgs, p) THEN BufferOffsetFor(cfgs, p) + rank + 1
                                     ELSE NoSlot

AdcInit(cfgs, dma, failed) ==
    [i \in DOMAIN cfgs |->
        LET p == cfgs[i].peripheral  ready == PeriphReady(cfgs, dma, failed, p)
        IN  [handle  |-> IF ready THEN p ELSE AUTO,
             channel |-> cfgs[i].channel,
             bits    |-> cfgs[i].bits,
             slot    |-> IF ready THEN DmaSlot(cfgs, p, InstanceRank(cfgs, i))
                                  ELSE NoSlot]]

(* What the running streams put into the pool: cell, converter and channel,   *)
(* the scan of a converter filling its buffer from the first cell on.        *)
PoolWrites(cfgs, dma, failed) ==
    UNION {{[cell |-> BufferOffsetFor(cfgs, p) + k, peripheral |-> p,
             channel |-> OnConverter(cfgs, p)[k].channel] :
                k \in 1 .. BufferSizeFor(cfgs, p)} :
           p \in {q \in ToSet(Converters) : PeriphReady(cfgs, dma, failed, q)}}
=============================================================================
