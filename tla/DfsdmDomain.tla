----------------------------- MODULE DfsdmDomain -----------------------------
(* Sigma-delta channels on the four filters of the DFSDM: what may share a    *)
(* filter, which registers it gets, and the cell of the filter's buffer where *)
(* a converted word ends (src/Inc/HALAL/Services/DFSDM/DFSDM.hpp).  A register *)
(* is the set of its bits, by name.                                          *)
EXTENDS Pins, DmaDomain, FiniteSetsExt, SequencesExt

Channels == 0 .. 7
Filters  == 0 .. 3

(* pin_to_channel, get_channel.                                              *)
ChannelOf ==
    [p \in {<<"C", 1>>} |-> 0] @@
    [p \in {<<"C", 3>>, <<"B", 1>>, <<"B", 12>>, <<"D", 6>>} |-> 1] @@
    [p \in {<<"C", 5>>, <<"E", 7>>, <<"B", 14>>} |-> 2] @@
    [p \in {<<"E", 4>>, <<"D", 9>>, <<"C", 7>>} |-> 3] @@
    [p \in {<<"C", 0>>, <<"E", 10>>, <<"D", 7>>} |-> 4] @@
    [p \in {<<"E", 12>>, <<"C", 11>>, <<"B", 6>>} |-> 5] @@
    [p \in {<<"F", 13>>, <<"D", 1>>} |-> 6] @@
    [p \in {<<"B", 10>>} |-> 7]

ChannelAf(p) ==
    CASE p \in {<<"B", 1>>, <<"B", 10>>, <<"B", 12>>, <<"B", 14>>, <<"C", 0>>} -> 6
      [] p \in {<<"C", 7>>, <<"D", 6>>} -> 4
      [] p = <<"B", 6>> -> 11
      [] OTHER -> 3

DmaFilter(f) == <<"dfsdm_filter0", "dfsdm_filter1",
                  "dfsdm_filter2", "dfsdm_filter3">>[f + 1]

(* Sinc4 and Sinc5 overflow sooner; FastSinc is order 0.                     *)
MaxOversampling(order) == CASE order = 4 -> 215 [] order = 5 -> 73
                            [] OTHER -> 1024
IsCorrectOversampling(order, osr) == osr \in 1 .. MaxOversampling(order)

(* The defaults of Config_Channel and Config_Filter that shape what follows.  *)
DefaultFilter ==
    [filter |-> 0, conv |-> "Regular", dma |-> FALSE, jscan |-> TRUE,
     order |-> 0, oversampling |-> 32, integrator |-> 1, fast |-> FALSE,
     rsync |-> FALSE, rcont |-> FALSE, trigger |-> 0, overrun |-> FALSE,
     watchdog |-> FALSE, awfsel |-> FALSE, thresholds |-> <<0, 0>>,
     eoc_callback |-> FALSE, extreme |-> FALSE, offset |-> 0, shift |-> 0]

DfsdmCompiles(d) ==
    /\ d.pin \in DOMAIN ChannelOf
    /\ GpioCompiles(Gpio(d.pin, "ALT_PP", ChannelAf(d.pin)))
    /\ d.config.filter \in Filters
    /\ d.config.integrator > 0
    /\ IsCorrectOversampling(d.config.order, d.config.oversampling)

InscribeDfsdm(ctx, d) ==
    LET c1 == Add(ctx, "GPIO", Gpio(d.pin, "ALT_PP", ChannelAf(d.pin)), d)
    IN  Add(c1, "DFSDM", [gpio |-> LastIndex(c1, "GPIO"), config |-> d.config,
                          channel |-> ChannelOf[d.pin], size |-> d.size], d)

-----------------------------------------------------------------------------
Bits(set, name) == IF set THEN {name} ELSE {}

(* Regular and injected conversions have their own bits: a filter without     *)
(* either kind's options reads zero for both.                                *)
Fltcr1(c) ==
    Bits(c.awfsel, "AWFSEL") \cup
    IF c.conv = "Regular"
    THEN Bits(c.dma, "RDMAEN") \cup Bits(c.fast, "FAST") \cup
         Bits(c.rsync, "RSYNC") \cup Bits(c.rcont, "RCONT")
    ELSE Bits(c.jscan, "JSCAN") \cup Bits(c.dma, "JDMAEN") \cup
         IF c.trigger = 0 THEN {}
         ELSE {"JEXTEN"} \cup Bits(c.rsync, "JSYNC") \cup
              Bits(c.filter = 0 \/ ~c.rsync, "JEXTSEL" \o ToString(c.trigger))

(* The interrupts of a filter; those of the detectors, which watch all the   *)
(* channels, belong to the first.                                            *)
Fltcr2(c) ==
    (IF ~c.dma \/ c.eoc_callback THEN {"REOCIE", "JEOCIE"} ELSE {}) \cup
    Bits(c.watchdog, "AWDIE") \cup
    (IF c.overrun THEN {"ROVRIE", "JOVRIE"} ELSE {}) \cup
    (IF c.filter = 0 THEN {"CKABIE", "SCDIE"} ELSE {})
Awdch(e) == Bits(e.config.watchdog, e.channel)
Exch(e)  == Bits(e.config.extreme, e.channel)

Fltfcr(c) == <<c.order, c.oversampling - 1, c.integrator - 1>>

Jchg(e) == Bits(e.config.conv = "Injected", e.channel)

SameFilterConfig(c, d) ==
    /\ Fltcr1(c) = Fltcr1(d) /\ Fltcr2(c) = Fltcr2(d)
    /\ Fltfcr(c) = Fltfcr(d) /\ c.thresholds = d.thresholds
    /\ c.dma = d.dma

-----------------------------------------------------------------------------
OnFilter(es, f) == {i \in DOMAIN es : es[i].config.filter = f}
Before(es, i)   == {j \in OnFilter(es, es[i].config.filter) : j < i}

(* Sizes are kept in a byte where the sharing of a filter is judged: only a   *)
(* channel whose byte is not zero counts.                                    *)
SizeByte(e) == e.size % 256
Active(es, i) ==
    {j \in Before(es, i) \cup {i} : SizeByte(es[j]) # 0}

DmaEntriesForFilter(f, dma) == {i \in DOMAIN dma : dma[i].instance = DmaFilter(f)}
UsesFilterDma(es, f) == \E i \in OnFilter(es, f) : es[i].config.dma

DfsdmAccepts(es, dma) ==
    /\ \A i, j \in DOMAIN es : i < j => es[i].channel # es[j].channel
    /\ \A i \in DOMAIN es :
        /\ Before(es, i) # {} =>
              SameFilterConfig(es[Max(Before(es, i))].config, es[i].config)
        /\ Cardinality(Active(es, i)) > 1 =>
              /\ es[i].config.conv # "Regular"
              /\ es[i].config.dma =>
                    /\ es[i].config.jscan
                    /\ \A j \in Active(es, i) : SizeByte(es[j]) = 1
    /\ \A f \in Filters : UsesFilterDma(es, f) =>
        /\ Cardinality(DmaEntriesForFilter(f, dma)) <= 1
        /\ \A i \in DmaEntriesForFilter(f, dma) : dma[i].id = 0

(* A channel adds its part of the group and of the watched channels to what   *)
(* those before it on the filter gathered, and gives the sum to the one right  *)
(* before it; no earlier one hears of it.                                    *)
Merged(es, i, Part(_)) ==
    LET upTo(k) == (UNION {Part(es[j]) : j \in Before(es, k)}) \cup Part(es[k])
        after   == {j \in OnFilter(es, es[i].config.filter) : j > i}
    IN  IF after = {} THEN upTo(i) ELSE upTo(Min(after))

(* Defect: channels take their place in the order they were declared in.      *)
PosAsDeclared(es, i) == FoldSet(LAMBDA j, s : s + es[j].size, 0, Before(es, i)) % 256

(* Channels take their place in the filter's buffer from the lowest on.      *)
BufferPos(es, i) ==
    (FoldSet(LAMBDA j, s : s + es[j].size, 0,
                {j \in OnFilter(es, es[i].config.filter) :
                    es[j].channel < es[i].channel})) % 256

DfsdmBuild(es) ==
    [i \in DOMAIN es |->
        LET c == es[i].config IN
        [gpio |-> es[i].gpio, channel |-> es[i].channel, filter |-> c.filter,
         conv |-> c.conv, dma |-> c.dma, size |-> es[i].size,
         request |-> Request(DmaFilter(c.filter), 0),
         cr1 |-> Fltcr1(c), cr2 |-> Fltcr2(c), fcr |-> Fltfcr(c),
         jchg  |-> Merged(es, i, Jchg), awdch |-> Merged(es, i, Awdch),
         exch  |-> Merged(es, i, Exch), pos |-> BufferPos(es, i)]]

DfsdmContributions(es, dma) ==
    LET missing == Pick(<<0, 1, 2, 3>>,
                        {n \in 1 .. 4 : /\ UsesFilterDma(es, n - 1)
                                       /\ DmaEntriesForFilter(n - 1, dma) = {}})
    IN  [i \in DOMAIN missing |-> DmaEntry(DmaFilter(missing[i]), none, 0)]

-----------------------------------------------------------------------------
(* Start-up: a filter's registers are written for its first channel only.    *)
OfFilter(cfgs, f) == Pick(cfgs, {i \in DOMAIN cfgs : cfgs[i].filter = f})
FirstOn(cfgs, f)  == OfFilter(cfgs, f)[1]
FiltersInUse(cfgs) == {cfgs[i].filter : i \in DOMAIN cfgs}

(* Regular channels of a filter share one buffer, injected ones add up.      *)
BufferSizeForFilter(cfgs, f) ==
    FoldLeft(LAMBDA size, c : IF c.conv = "Regular" THEN Max({size, c.size})
                                                    ELSE size + c.size,
             0, OfFilter(cfgs, f))

HasStream(cfgs, dma, f) ==
    \E i \in DOMAIN dma : dma[i].request = FirstOn(cfgs, f).request

(* The registers of a filter that runs, the buffer its DMA goes round in.  With *)
(* a stream that did not start the code calls start through a null pointer,    *)
(* which is taken for a stream that never runs.                              *)
FilterInit(cfgs, dma) ==
    [f \in FiltersInUse(cfgs) |->
        LET c == FirstOn(cfgs, f) IN
        [cr1 |-> c.cr1, cr2 |-> c.cr2, fcr |-> c.fcr, group |-> c.jchg,
         regular |-> IF c.conv = "Regular" THEN {c.channel} ELSE {},
         stream |-> c.dma /\ HasStream(cfgs, dma, f),
         length |-> BufferSizeForFilter(cfgs, f)]]

DfsdmInit(cfgs, dma) ==
    [i \in DOMAIN cfgs |->
        [gpio |-> cfgs[i].gpio, channel |-> cfgs[i].channel,
         filter |-> cfgs[i].filter, conv |-> cfgs[i].conv, dma |-> cfgs[i].dma,
         first |-> cfgs[i].pos + 1, length |-> cfgs[i].size]]

-----------------------------------------------------------------------------
(* A converted word.  "conv" is the state of a filter: the word of the group  *)
(* that comes next, the cell the DMA writes next, and idx_filter.            *)
NoWords == [next |-> 0, dma |-> 0, idx |-> 0]

Group(filter) == SetToSortSeq(filter.group, <)

(* The channel of the next injected word: the group, lowest channel first.   *)
InjectedChannel(filter, conv) == Group(filter)[conv.next + 1]

InstanceOn(insts, ch) == CHOOSE i \in DOMAIN insts : insts[i].channel = ch

(* With a stream the word goes round the filter's buffer; without DMA the     *)
(* interrupt puts it into the channel's own, at the index all the channels of *)
(* the filter share; with DMA that did not start it goes nowhere.            *)
NoCell == 0
WordCell(filter, inst, conv) ==
    CASE filter.stream -> conv.dma + 1
      [] ~inst.dma     -> inst.first + conv.idx
      [] OTHER         -> NoCell

AfterWord(filter, inst, conv, injected) ==
    [next |-> IF injected THEN (conv.next + 1) % Cardinality(filter.group)
                          ELSE conv.next,
     dma  |-> IF filter.stream THEN (conv.dma + 1) % filter.length ELSE conv.dma,
     idx  |-> IF ~inst.dma THEN (conv.idx + 1) % inst.length ELSE conv.idx]

-----------------------------------------------------------------------------
(* The clock output (DFSDM_CLK_DOMAIN).                                      *)
ClkPins == {<<"C", 2>>, <<"B", 0>>, <<"E", 9>>, <<"D", 3>>, <<"D", 10>>}
ClkAf(p) == IF p \in {<<"C", 2>>, <<"B", 0>>} THEN 6 ELSE 3

ClkCompiles(d) ==
    /\ GpioCompiles(Gpio(d.pin, "ALT_PP", ClkAf(d.pin)))
    /\ d.pin \in ClkPins
    /\ d.divider \in 7 .. 255

InscribeClk(ctx, d) ==
    LET c1 == Add(ctx, "GPIO", Gpio(d.pin, "ALT_PP", ClkAf(d.pin)), d)
    IN  Add(c1, "DFSDMClk",
            [gpio |-> LastIndex(c1, "GPIO"), divider |-> d.divider], d)
=============================================================================
