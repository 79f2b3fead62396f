------------------------------ MODULE DmaDomain ------------------------------
(* Sharing out the sixteen DMA streams (src/Inc/HALAL/Models/DMA/DMA2.hpp).  *)
(* A stream is its number, 1 to 16; 0 asks for any.  An entry also carries    *)
(* the interrupt of its stream, under the number of the stream it belongs to. *)
EXTENDS BuildCtx

Streams == 1 .. 16
none    == 0

SpiPeripherals == {"spi1", "spi2", "spi3", "spi4", "spi5", "spi6"}
I2cPeripherals == {"i2c1", "i2c2", "i2c3", "i2c5"}
AdcPeripherals == {"adc1", "adc2", "adc3"}
DfsdmFilters   == {"dfsdm_filter0", "dfsdm_filter1", "dfsdm_filter2",
                   "dfsdm_filter3"}

(* The vector of a stream; 0 is the dummy of an entry that has none yet.     *)
Irqn(stream) == stream

(* Defect: reception and transmission change places.                         *)
DmaEntrySwapped(instance, stream, id) ==
    [instance |-> instance, stream |-> stream, irqn |-> Irqn(stream),
     id |-> IF id = 2 THEN id ELSE 1 - id]

(* The i-th stream a DMA device names has id i, counted from 0.              *)
DmaEntry(instance, stream, id) ==
    [instance |-> instance, stream |-> stream, irqn |-> Irqn(stream), id |-> id]

(* DMA::inscribe: the entries of a device, in the order of its streams.      *)
InscribeDma(ctx, instance, streams, owner) ==
    AddAll(ctx, "DMA", [i \in DOMAIN streams |-> DmaEntry(instance, streams[i], i - 1)],
           owner)

-----------------------------------------------------------------------------
(* What the multiplexer routes to a stream: a peripheral and one of its       *)
(* lines; <<>> where there is no such request, which is not compiled.         *)
Request(instance, id) ==
    CASE instance = "none" \/ (instance = "fmac" /\ id = 0) -> <<"MEM2MEM">>
      [] instance \in AdcPeripherals \cup DfsdmFilters -> <<instance, "RX">>
      [] \/ instance \in I2cPeripherals
         \/ instance \in SpiPeripherals \ {"spi6"} ->
            IF id \in {0, 1} THEN <<instance, <<"RX", "TX">>[id + 1]>> ELSE <<>>
      [] instance = "fmac" /\ id \in {1, 2} ->
            <<instance, <<"TX", "RX">>[id]>>
      [] OTHER -> <<>>

Direction(instance, id) ==
    CASE instance = "none" \/ (instance = "fmac" /\ id = 0) -> "MEMORY_TO_MEMORY"
      [] /\ id = 1
         /\ instance \in I2cPeripherals \cup SpiPeripherals \cup {"fmac"} ->
            "MEMORY_TO_PERIPH"
      [] OTHER -> "PERIPH_TO_MEMORY"

PeriphInc(instance, id) == Direction(instance, id) = "MEMORY_TO_MEMORY"
MemInc(instance, id)    == ~(instance = "fmac" /\ id = 0)

(* Bytes moved at a time on the side of the peripheral and of the memory.    *)
PeriphWidth(instance) ==
    CASE instance \in SpiPeripherals \cup I2cPeripherals -> 1
      [] instance \in DfsdmFilters \cup {"none"} -> 4
      [] OTHER -> 2
MemWidth(instance) ==
    CASE instance \in I2cPeripherals -> 4
      [] instance \in SpiPeripherals -> 1
      [] OTHER -> 2

(* Who starts again at the end of the buffer, and who uses the FIFO.         *)
Circular(instance) == instance \notin SpiPeripherals \cup {"fmac", "none"}
Fifo(instance)     == instance = "fmac"

NvicEnabled(instance) == instance \notin AdcPeripherals

-----------------------------------------------------------------------------
Named(es)   == {i \in DOMAIN es : es[i].stream # none}
Unnamed(es) == DOMAIN es \ Named(es)
Wanted(es)  == {es[i].stream : i \in Named(es)}

(* First the streams that are named, no two the same, then enough are left;  *)
(* and every entry must have a request.                                      *)
DmaAccepts(es) ==
    /\ \A i, j \in Named(es) : es[i].stream = es[j].stream => i = j
    /\ Cardinality(Unnamed(es)) <= Cardinality(Streams \ Wanted(es))
    /\ \A i \in DOMAIN es : Request(es[i].instance, es[i].id) # <<>>

(* Defect: streams that other entries name are not passed over.              *)
FreeAnyhow(es, i) == Cardinality({j \in Unnamed(es) : j <= i})

(* The k-th entry without a stream takes the k-th stream nobody named.       *)
Free(es, i) ==
    LET k    == Cardinality({j \in Unnamed(es) : j <= i})
        left == Streams \ Wanted(es)
    IN  CHOOSE s \in left : Cardinality({t \in left : t <= s}) = k

StreamOf(es, i) == IF es[i].stream # none THEN es[i].stream ELSE Free(es, i)
IrqnOf(es, i)   == IF es[i].stream # none THEN es[i].irqn
                                          ELSE Irqn(Free(es, i))

DmaBuild(es) ==
    [i \in DOMAIN es |->
        LET p == es[i].instance IN LET id == es[i].id IN
        [instance  |-> p,
         request   |-> Request(p, id),
         direction |-> Direction(p, id),
         inc       |-> <<PeriphInc(p, id), MemInc(p, id)>>,
         width     |-> <<PeriphWidth(p), MemWidth(p)>>,
         circular  |-> Circular(p),
         fifo      |-> Fifo(p),
         stream    |-> StreamOf(es, i),
         irqn      |-> IrqnOf(es, i),
         nvic      |-> NvicEnabled(p)]]

-----------------------------------------------------------------------------
(* A handle whose initialisation failed is wiped: it has no stream, and the  *)
(* request that stands for zero.                                             *)
NoHandle == [stream |-> none, request |-> <<"MEM2MEM">>]
Handle(cfg) == [stream |-> cfg.stream, request |-> cfg.request]

(* "failed" is the set of entries HAL_DMA_Init refuses.                      *)
DmaInit(cfgs, failed) ==
    [i \in DOMAIN cfgs |-> IF i \in failed THEN NoHandle ELSE Handle(cfgs[i])]

(* dma_irq_table: for each stream the entry whose handle its vector serves.  *)
DmaIrqTable(cfgs, failed) ==
    [s \in {cfgs[i].stream : i \in DOMAIN cfgs \ failed} |->
        CHOOSE i \in DOMAIN cfgs \ failed : cfgs[i].stream = s]

DmaIrqsEnabled(cfgs, failed) ==
    {cfgs[i].irqn : i \in {j \in DOMAIN cfgs \ failed : cfgs[j].nvic}}
=============================================================================
