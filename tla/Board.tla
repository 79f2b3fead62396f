-------------------------------- MODULE Board --------------------------------
(* A board: the devices a program declares are written down one after the      *)
(* other, the whole is built at compile time or refused, and start-up turns    *)
(* the configurations into instances (src/Inc/ST-LIB.hpp).  Building is a      *)
(* constant expression: a board that is refused does not exist.  Start-up is   *)
(* one step, for nothing interrupts it that touches what it sets up; what the  *)
(* HAL refuses during it is chosen freely.                                    *)
EXTENDS SpiDomain, TimerDomain, AdcDomain, DfsdmDomain, Devices

CONSTANTS
    Pools,          \* sets of devices; a board takes its devices from one
    MaxDevices,     \* and has no more than these
    SpiFreq         \* the clock of each SPI bus, in units of baud rate

(* A device as the constructors of its class take it: an enumeration's value,  *)
(* a list where the code has an array, a size that is a number.               *)
IsList(s) == s \in Seq(ToSet(s))
IsDevice(d) ==
    CASE d.type = "ADC" -> d.peripheral \in ToSet(Converters) \cup {AUTO}
      [] d.type = "SPI" -> /\ d.peripheral \in SpiPeripherals
                           /\ d.streams \in [1 .. 2 -> Streams \cup {none}]
      [] d.type = "DMA" -> d.streams \in Seq(Streams \cup {none})
      [] d.type = "TIM" -> IsList(d.pins)
      [] d.type = "MPU" -> d.memory \in Memories /\ d.size \in Nat
      [] d.type = "Eth" -> IsList(d.pins.rmii)
      [] d.type = "MdmaPacket" -> IsList(d.sizes) /\ PacketBytes(d) \in Nat
      [] OTHER -> d.type \in {"DFSDM", "DFSDMClk", "Sd", "EXTI", "DIn", "DOut"}

ASSUME PoolsAssumption == \A pool \in Pools : \A d \in pool : IsDevice(d)

VARIABLES
    devices,        \* those inscribed, in the order of the Board's arguments
    ctx,            \* what they wrote down
    phase,
    cfg,            \* the configurations, by domain
    inst,           \* the instances and tables start-up leaves
    conv,           \* the words of each filter of the DFSDM that runs
    last            \* where the last word went

vars == <<devices, ctx, phase, cfg, inst, conv, last>>

Nothing == <<>>
Undone == [filter |-> 0, channel |-> 0, cell |-> NoCell]

-----------------------------------------------------------------------------
Compiles(d) ==
    CASE d.type = "ADC" -> AdcCompiles(d)
      [] d.type = "SPI" -> SpiCompiles(d)
      [] d.type = "TIM" -> TimerCompiles(d)
      [] d.type = "DFSDM" -> DfsdmCompiles(d)
      [] d.type = "DFSDMClk" -> ClkCompiles(d)
      [] d.type = "MPU" -> MpuCompiles(d)
      [] d.type = "Sd" -> SdCompiles(d)
      [] d.type = "Eth" -> EthernetCompiles(d)
      [] d.type = "EXTI" -> GpioCompiles(ExtiGpio(d))
      [] OTHER -> TRUE

Inscribed(c, d) ==
    CASE d.type = "ADC" -> InscribeAdc(c, d)
      [] d.type = "SPI" -> InscribeSpi(c, d)
      [] d.type = "TIM" -> InscribeTimer(c, d)
      [] d.type = "DFSDM" -> InscribeDfsdm(c, d)
      [] d.type = "DFSDMClk" -> InscribeClk(c, d)
      [] d.type = "MPU" -> InscribeMpu(c, d)
      [] d.type = "Sd" -> InscribeSd(c, d)
      [] d.type = "Eth" -> InscribeEthernet(c, d)
      [] d.type = "EXTI" -> InscribeExti(c, d)
      [] d.type = "DIn" -> InscribeDin(c, d.pin, d)
      [] d.type = "DOut" -> InscribeDout(c, d.pin, d)
      [] d.type = "MdmaPacket" -> InscribeMdmaPacket(c, d)
      [] d.type = "DMA" -> InscribeDma(c, d.instance, d.streams, d)

(* The entries of the DMA: first what the devices wrote, then what ADC and     *)
(* DFSDM find missing.                                                       *)
MergedDma(c) ==
    LET base == Entries(c, "DMA")
    IN  base \o AdcContributions(Entries(c, "ADC"), base)
             \o DfsdmContributions(Entries(c, "DFSDM"), base)

Accepts(c) ==
    /\ Fits(c)
    /\ GpioAccepts(Entries(c, "GPIO"))
    /\ TimerAccepts(Entries(c, "TIM"))
    /\ SpiAccepts(Entries(c, "SPI"))
    /\ SdAccepts(Entries(c, "Sd"))
    /\ ExtiAccepts(Entries(c, "EXTI"))
    /\ AdcAccepts(Entries(c, "ADC"), Entries(c, "DMA"))
    /\ DfsdmAccepts(Entries(c, "DFSDM"), Entries(c, "DMA"))
    /\ DmaAccepts(MergedDma(c))

Built(c) ==
    [MPU  |-> MpuBuild(Entries(c, "MPU")),   GPIO |-> GpioBuild(Entries(c, "GPIO")),
     TIM  |-> TimerBuild(Entries(c, "TIM")), DMA  |-> DmaBuild(MergedDma(c)),
     SPI  |-> SpiBuild(Entries(c, "SPI")),   DOut |-> DoutBuild(Entries(c, "DOut")),
     DIn  |-> DinBuild(Entries(c, "DIn")), MdmaPacket |-> Entries(c, "MdmaPacket"),
     Sd   |-> Entries(c, "Sd"),              Eth  |-> Entries(c, "Eth"),
     ADC  |-> AdcBuild(Entries(c, "ADC")),   EXTI |-> ExtiBuild(Entries(c, "EXTI")),
     DFSDM |-> DfsdmBuild(Entries(c, "DFSDM")), DFSDMClk |-> Entries(c, "DFSDMClk")]

(* The instances, domain by domain in the order of Board::init; each set       *)
(* names what the HAL refuses.                                               *)
Started(g, dmaFailed, spiFailed, adcFailed) ==
    LET mpu  == MpuInit(g.MPU)
        dout == DoutInit(g.DOut)
        din  == DinInit(g.DIn)
        dma  == DmaInit(g.DMA, dmaFailed)
    IN  [MPU |-> mpu, GPIO |-> GpioInit(g.GPIO), TIM |-> TimerInit(g.TIM), DMA |-> dma,
         dmaTable |-> DmaIrqTable(g.DMA, dmaFailed),
         dmaIrqs  |-> DmaIrqsEnabled(g.DMA, dmaFailed),
         SPI |-> SpiInit(g.SPI, spiFailed, SpiFreq),
         spiTable |-> SpiInstances(g.SPI, spiFailed),
         spiPanic |-> SpiPanics(g.SPI, spiFailed, SpiFreq),
         widths   |-> SpiDmaWidths(g.SPI, spiFailed, g.DMA),
         regions  |-> MpuRegions(g.MPU),
         DOut |-> dout, DIn |-> din,
         MdmaPacket |-> MdmaPacketInit(g.MdmaPacket, mpu),
         Sd |-> SdInit(g.Sd, mpu, din), Eth |-> EthernetInit(g.Eth, dout),
         ADC |-> AdcInit(g.ADC, dma, adcFailed),
         pool |-> PoolWrites(g.ADC, dma, adcFailed),
         EXTI |-> ExtiInit(g.EXTI), DFSDM |-> DfsdmInit(g.DFSDM, dma),
         filters |-> FilterInit(g.DFSDM, dma), DFSDMClk |-> g.DFSDMClk]

-----------------------------------------------------------------------------
Init ==
    /\ devices = <<>>
    /\ ctx = EmptyCtx
    /\ phase = "declare"
    /\ cfg = Nothing
    /\ inst = Nothing
    /\ conv = Nothing
    /\ last = Undone

(* build_ctx: the next argument of the Board inscribes itself.                *)
Inscribe(d) ==
    /\ phase = "declare"
    /\ Len(devices) < MaxDevices
    /\ d \notin ToSet(devices)
    /\ \E pool \in Pools : ToSet(devices) \cup {d} \subseteq pool
    /\ IF Compiles(d)
       THEN /\ devices' = Append(devices, d)
            /\ ctx' = Inscribed(ctx, d)
            /\ UNCHANGED phase
       ELSE /\ phase' = "refused"
            /\ UNCHANGED <<devices, ctx>>
    /\ UNCHANGED <<cfg, inst, conv, last>>

Build ==
    /\ phase = "declare"
    /\ IF Accepts(ctx)
       THEN /\ cfg' = Built(ctx)
            /\ phase' = "built"
       ELSE /\ phase' = "refused"
            /\ UNCHANGED cfg
    /\ UNCHANGED <<devices, ctx, inst, conv, last>>

(* At most one part of each kind fails at a time: more add nothing, as a part  *)
(* that fails is passed over by the others.                                  *)
AtMostOne(S) == {{}} \cup {{s} : s \in S}

Start ==
    /\ phase = "built"
    /\ \E dmaFailed \in AtMostOne(DOMAIN cfg.DMA),
          spiFailed \in AtMostOne(DOMAIN cfg.SPI),
          adcFailed \in AtMostOne(UsedConverters(cfg.ADC)) :
            inst' = Started(cfg, dmaFailed, spiFailed, adcFailed)
    /\ phase' = "running"
    /\ conv' = [f \in FiltersInUse(cfg.DFSDM) |-> NoWords]
    /\ UNCHANGED <<devices, ctx, cfg, last>>

(* A filter converts a word of the regular channel or of its group; an        *)
(* injected conversion without scanning converts one of the group at a time,  *)
(* one with it the whole, in the same order.                                 *)
Word(f, ch, injected) ==
    /\ phase = "running"
    /\ ch \in IF injected
              THEN IF inst.filters[f].group = {} THEN {}
                   ELSE {InjectedChannel(inst.filters[f], conv[f])}
              ELSE inst.filters[f].regular
    /\ LET i == InstanceOn(inst.DFSDM, ch) IN
       /\ last' = [filter |-> f, channel |-> ch,
                   cell |-> WordCell(inst.filters[f], inst.DFSDM[i], conv[f])]
       /\ conv' = [conv EXCEPT
                      ![f] = AfterWord(inst.filters[f], inst.DFSDM[i], @, injected)]
    /\ UNCHANGED <<devices, ctx, phase, cfg, inst>>

Done == /\ phase \in {"refused", "running"}
        /\ UNCHANGED vars

Next ==
    \/ \E d \in UNION Pools : Inscribe(d)
    \/ Build
    \/ Start
    \/ /\ phase = "running"
       /\ \E f \in DOMAIN inst.filters, ch \in Channels, injected \in BOOLEAN :
            Word(f, ch, injected)
    \/ Done

Spec == Init /\ [][Next]_vars

-----------------------------------------------------------------------------
Running == phase = "running"
Mine(d) == inst[d.type][OwnerIndex(ctx, d.type, d)]
MyCfg(d) == cfg[d.type][OwnerIndex(ctx, d.type, d)]
PinAt(i) == inst.GPIO[i].pin
AfAt(i)  == inst.GPIO[i].alternate

(* What instance_of owes a device, by its type.  Timers are not among them:     *)
(* they get what another asked for (TimersServeTheirOwners, which a run refutes).*)
(* Neither are streams and clock outputs a program declares for itself: their  *)
(* instance is their entry as it stands.                                     *)
Served == {"ADC", "SPI", "DFSDM", "EXTI", "DIn", "DOut", "MPU", "Eth", "Sd", "MdmaPacket"}
Serves(d) ==
    CASE d.type = "ADC" ->
            /\ Mine(d).channel = Resolve(d).channel /\ Mine(d).bits = d.bits
            /\ PinAt(Entries(ctx, "ADC")[OwnerIndex(ctx, "ADC", d)].gpio) = d.pin
      [] d.type = "SPI" ->
            /\ PinAt(MyCfg(d).sck) = d.sck /\ AfAt(MyCfg(d).sck) = SpiAf(d.sck, d.peripheral)
            /\ PinAt(MyCfg(d).miso) = d.miso /\ PinAt(MyCfg(d).mosi) = d.mosi
            /\ d.nss # NoPin => PinAt(MyCfg(d).nss) = d.nss
            /\ cfg.DMA[MyCfg(d).rx].request = <<d.peripheral, "RX">>
            /\ cfg.DMA[MyCfg(d).tx].request = <<d.peripheral, "TX">>
            /\ d.streams[1] \in {none, cfg.DMA[MyCfg(d).rx].stream}
            /\ d.streams[2] \in {none, cfg.DMA[MyCfg(d).tx].stream}
      [] d.type = "DFSDM" -> /\ Mine(d).channel = ChannelOf[d.pin]
                             /\ Mine(d).filter = d.config.filter
                             /\ PinAt(Mine(d).gpio) = d.pin
      [] d.type = "EXTI" -> PinAt(Mine(d).gpio) = d.pin /\ Mine(d).action = d.action
      [] d.type \in {"DIn", "DOut"} -> PinAt(Mine(d)) = d.pin
      [] d.type = "MPU" -> Mine(d).size = d.size /\ Mine(d).ptr[1] = d.memory
      [] d.type = "Eth" -> PinAt(Mine(d).reset) = d.pins.reset
      [] d.type = "Sd" -> /\ Mine(d).buffers[1].size = 512 * d.blocks
                          /\ Mine(d).buffers[2].size = 512 * d.blocks
                          /\ Mine(d).buffers[1] # Mine(d).buffers[2]
                          /\ d.cd # <<>> => PinAt(Mine(d).cd) = d.cd
                          /\ d.wp # <<>> => PinAt(Mine(d).wp) = d.wp
                          /\ \A i \in 1 .. 6 : PinAt(MyCfg(d).lines[i]) = SdPins(d)[i]
      [] d.type = "MdmaPacket" -> Mine(d).packet.size = PacketBytes(d)

(* instance_of gives a device of every type but the three above, whatever      *)
(* stands around it, an instance of its own request: the right pins with the   *)
(* function they need, the streams it named for reception and transmission,    *)
(* its converter's channel and its filter, its buffers and its inputs          *)
(* (Board::instance_of, inscribe and build of those types' domains).          *)
OwnersGetWhatTheyAskedFor ==
    Running => \A d \in ToSet(devices) : d.type \in Served => Serves(d)

Distinct(s, Key(_)) == \A i, j \in DOMAIN s : i < j => Key(s[i]) # Key(s[j])
Apart(a, b) == \/ a.memory # b.memory
               \/ a.offset + a.size <= b.offset
               \/ b.offset + b.size <= a.offset

(* Streams, pins, lines, converter channels and sigma-delta channels.          *)
OneOwnerEach ==
    /\ Distinct(cfg.DMA, LAMBDA c : c.stream)
    /\ \A i \in DOMAIN cfg.DMA : cfg.DMA[i].stream \in Streams
    /\ Distinct(cfg.GPIO, LAMBDA c : c.pin)
    /\ Distinct(cfg.EXTI, LAMBDA c : c.line)
    /\ Distinct(cfg.ADC, LAMBDA c : <<c.peripheral, c.channel>>)
    /\ Distinct(cfg.DFSDM, LAMBDA c : c.channel)

(* Buffers, which also lie aligned inside the array of their memory.          *)
BuffersLieApart ==
    /\ \A i, j \in DOMAIN cfg.MPU : i < j => Apart(cfg.MPU[i], cfg.MPU[j])
    /\ \A i \in DOMAIN cfg.MPU :
          /\ cfg.MPU[i].offset % Entries(ctx, "MPU")[i].alignment = 0
          /\ cfg.MPU[i].offset + cfg.MPU[i].size <= MpuTotal(cfg.MPU, cfg.MPU[i].memory)

(* No timer goes to two, nor the scheduler's to anybody.  TimerDomain::build    *)
(* does not keep this (TimerDomain.hpp:675), and TLC refutes it of MCBoard.    *)
TimersGoToOne ==
    cfg # Nothing =>
        /\ Distinct(cfg.TIM, LAMBDA c : c.timer)
        /\ \A i \in DOMAIN cfg.TIM : cfg.TIM[i].timer # SchedulerTimer

(* As many as build can tell apart: one at most asks for any timer of 32 bits,   *)
(* and those with 16 are enough for the rest.                                *)
FewTimers ==
    LET es == Entries(ctx, "TIM")
    IN  /\ Len(es) <= 5
        /\ Cardinality({i \in DOMAIN es : es[i].request = Any32bit}) <= 1

(* The region of the protection unit over a memory.                           *)
Governing(m) ==
    LET over == {n \in DOMAIN inst.regions : m \in inst.regions[n].over}
    IN  inst.regions[Max(over)]

(* Nothing an accepted board hands out goes to two: streams, pins, lines,      *)
(* converter channels, sigma-delta channels, and bytes of buffers, which also  *)
(* lie aligned inside their array and under a region of the protection unit    *)
(* that caches them as asked; nor do timers, when few are asked for (build of  *)
(* every domain; the DMA also over what ADC and DFSDM contribute).             *)
NothingIsSharedTwice ==
    cfg # Nothing =>
        /\ OneOwnerEach
        /\ BuffersLieApart
        /\ FewTimers => TimersGoToOne
        /\ \A i \in DOMAIN cfg.MPU :
              LET m == cfg.MPU[i].memory  total == MpuTotal(cfg.MPU, m)
              IN  /\ total <= RegionBytes(total)
                  /\ Running => Governing(m).cache = (m[2] = "Cached")

(* The cell an analog input reads is the one its converter's running stream    *)
(* fills from its channel, also when another converter did not start; an input *)
(* of one that did not has no cell and no handle (ADCDomain::Init).           *)
AdcSlotsMatch ==
    Running => \A i \in DOMAIN inst.ADC :
        LET slot == inst.ADC[i].slot
            here == {w \in inst.pool : w.cell = slot}
        IN  IF slot = NoSlot
            THEN inst.ADC[i].handle = AUTO /\ \A w \in inst.pool :
                    w.peripheral # cfg.ADC[i].peripheral
            ELSE here = {[cell |-> slot, peripheral |-> cfg.ADC[i].peripheral,
                          channel |-> cfg.ADC[i].channel]}

(* A word of a channel ends in that channel's own part of its filter's buffer, *)
(* whether the stream of the filter or the interrupt puts it there, or nowhere *)
(* when the stream did not start ("Save it in the address provide by the       *)
(* user", DFSDM::handle_irq, and the buffer positions of build).              *)
EveryWordLandsInItsBuffer ==
    last.cell # NoCell =>
        LET i == InstanceOn(inst.DFSDM, last.channel)
        IN  last.cell \in inst.DFSDM[i].first .. inst.DFSDM[i].first + inst.DFSDM[i].length - 1

(* What build lays out as it is used: one channel on the filter; or channels of *)
(* one length, which the index they share goes round, with positions that fit  *)
(* a byte, and by DMA no more than the two that build makes a group of.        *)
LaidOut(f) ==
    LET on == OfFilter(cfg.DFSDM, f)
    IN  \/ Len(on) = 1
        \/ /\ \A i \in DOMAIN on : on[i].size = on[1].size
           /\ Len(on) * on[1].size <= 256
           /\ on[1].dma => Len(on) <= 2

(* The same of the filters that are laid out as they are used; of the others   *)
(* TLC refutes it (DFSDM.hpp:587 and 1187).                                   *)
DfsdmWordsLandInTheirBuffer ==
    last.cell # NoCell /\ LaidOut(last.filter) => EveryWordLandsInItsBuffer

(* Whatever interrupt is enabled finds the handle it is for; what devices      *)
(* wrote into the DMA stays first and unchanged under the contributions; and a *)
(* converter or filter that needs a stream has exactly one (docs/              *)
(* st-lib-board-contract.md, 8.2: contributions are additive).                *)
EveryStreamHasItsHandle ==
    Running =>
        /\ \A s \in inst.dmaIrqs : /\ s \in DOMAIN inst.dmaTable
                                   /\ inst.DMA[inst.dmaTable[s]].stream = s
        /\ \A i \in DOMAIN Entries(ctx, "DMA") :
              cfg.DMA[i].instance = Entries(ctx, "DMA")[i].instance
        /\ \A p \in UsedConverters(cfg.ADC) :
              Cardinality({i \in DOMAIN cfg.DMA : cfg.DMA[i].instance = DmaPeripheral(p)}) = 1
        /\ \A f \in FiltersInUse(cfg.DFSDM) : FirstOn(cfg.DFSDM, f).dma =>
              Cardinality({i \in DOMAIN cfg.DMA : cfg.DMA[i].instance = DmaFilter(f)}) = 1
        /\ \A n \in 1 .. 6 : inst.spiTable[n] # 0 =>
              LET spi == inst.SPI[inst.spiTable[n]]
              IN  /\ SpiNumber(spi.peripheral) = n
                  /\ inst.widths[spi.rx] = spi.width /\ inst.widths[spi.tx] = spi.width
        /\ inst.spiPanic \/ \A i \in DOMAIN cfg.SPI :
              inst.spiTable[SpiNumber(cfg.SPI[i].peripheral)] = i
=============================================================================
