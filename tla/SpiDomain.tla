------------------------------ MODULE SpiDomain ------------------------------
(* The SPI controllers: the pins and streams a device inscribes, and what     *)
(* start-up makes of them (src/Inc/HALAL/Models/SPI/SPI2.hpp, SPI2.cpp).      *)
(* Wording of the frame format (polarity, phase, order of bits, fifo) is left  *)
(* out of the configuration.                                                 *)
EXTENDS Pins, DmaDomain, FiniteSetsExt

SpiNumber(p) == CHOOSE n \in 1 .. 6 :
    <<"spi1", "spi2", "spi3", "spi4", "spi5", "spi6">>[n] = p

SpiPins ==
    [ spi1 |-> [sck  |-> P("B", {3}) \cup P("G", {11}) \cup P("A", {5}),
                miso |-> P("B", {4}) \cup P("G", {9}) \cup P("A", {6}),
                mosi |-> P("B", {5}) \cup P("D", {7}) \cup P("A", {7})],
      spi2 |-> [sck  |-> P("D", {3}) \cup P("A", {9, 12}) \cup P("B", {10, 13}),
                miso |-> P("C", {2}) \cup P("B", {14}),
                mosi |-> P("C", {1, 3}) \cup P("B", {15})],
      spi3 |-> [sck  |-> P("B", {3}) \cup P("C", {10}),
                miso |-> P("B", {4}) \cup P("C", {11}),
                mosi |-> P("B", {2, 5}) \cup P("D", {6}) \cup P("C", {12})],
      spi4 |-> [sck |-> P("E", {2, 12}), miso |-> P("E", {5, 13}),
                mosi |-> P("E", {6, 14})],
      spi5 |-> [sck |-> P("F", {7}), miso |-> P("F", {8}), mosi |-> P("F", {9, 11})],
      spi6 |-> [sck  |-> P("B", {3}) \cup P("G", {13}) \cup P("C", {10}) \cup P("A", {7}),
                miso |-> P("B", {4}) \cup P("G", {12}) \cup P("A", {6}),
                mosi |-> P("B", {5}) \cup P("G", {14}) \cup P("A", {7})] ]

NssPins ==
    [ spi1 |-> P("A", {4, 15}) \cup P("G", {10}),
      spi2 |-> P("A", {11}) \cup P("B", {4, 9, 12}),
      spi3 |-> P("A", {4, 15}),
      spi4 |-> P("E", {4, 11}),
      spi5 |-> P("F", {6}),
      spi6 |-> P("A", {0, 4, 15}) \cup P("G", {8}) ]

SpiAf(pin, p) ==
    CASE p = "spi2" /\ pin = <<"B", 4>> -> 7
      [] p = "spi3" /\ pin \in P("B", {2, 5}) -> 7
      [] p = "spi3" /\ pin \in P("A", {4, 15}) \cup P("B", {3, 4})
                                  \cup P("C", 10 .. 12) -> 6
      [] p = "spi6" /\ pin \in P("A", 4 .. 7) \cup P("B", 3 .. 5) -> 8
      [] p = "spi6" /\ pin = <<"A", 15>> -> 7
      [] OTHER -> 5

(* SPIConfig::validate.                                                      *)
ValidSpiConfig(c) ==
    /\ c.crc => c.polynomial \in 1 .. 65535 /\ c.polynomial % 2 = 1
    /\ c.ss_idleness <= 15 /\ c.interdata_idleness <= 15

SpiGpio(pin, p) == Gpio(pin, "ALT_PP", SpiAf(pin, p))

NoPin == <<>>
(* A device with a pin for slave select manages it in hardware, one without   *)
(* in software.                                                              *)
SpiCompiles(d) ==
    /\ ValidSpiConfig(d.config)
    /\ (d.nss # NoPin) = (d.config.nss = "HARDWARE")
    /\ d.nss # NoPin => d.nss \in NssPins[d.peripheral]
    /\ d.sck \in SpiPins[d.peripheral].sck
    /\ d.miso \in SpiPins[d.peripheral].miso
    /\ d.mosi \in SpiPins[d.peripheral].mosi
    /\ \A pin \in {d.sck, d.miso, d.mosi, d.nss} \ {NoPin} :
          GpioCompiles(SpiGpio(pin, d.peripheral))

(* The two streams first, then slave select, clock and data.                 *)
InscribeSpi(ctx, d) ==
    LET p  == d.peripheral
        c1 == InscribeDma(ctx, p, d.streams, d)
        c2 == IF d.nss = NoPin THEN c1 ELSE Add(c1, "GPIO", SpiGpio(d.nss, p), d)
        c3 == Add(c2, "GPIO", SpiGpio(d.sck, p), d)
        c4 == Add(c3, "GPIO", SpiGpio(d.miso, p), d)
        c5 == Add(c4, "GPIO", SpiGpio(d.mosi, p), d)
        n  == LastIndex(c5, "GPIO")
    IN  Add(c5, "SPI",
            [peripheral |-> p, mode |-> d.mode, baudrate |-> d.baudrate,
             config |-> d.config,
             nss |-> IF d.nss = NoPin THEN 0 ELSE n - 3,
             sck |-> n - 2, miso |-> n - 1, mosi |-> n,
             rx |-> LastIndex(c1, "DMA") - 1, tx |-> LastIndex(c1, "DMA")], d)

-----------------------------------------------------------------------------
SpiAccepts(es) ==
    \A i, j \in DOMAIN es : i < j => es[i].peripheral # es[j].peripheral

SpiBuild(es) == es

(* The smallest power of two that brings the clock down to the baud rate; the *)
(* divider itself ends at 256, where the loop panics and goes on.            *)
Prescaler(freq, baudrate) ==
    2 ^ (CHOOSE k \in 1 .. 31 : /\ freq \div 2^k <= baudrate
                                /\ \A j \in 1 .. k - 1 : freq \div 2^j > baudrate)
PrescalerFlag(prescaler) == IF prescaler > 256 THEN 256 ELSE prescaler

Bus(p) == CASE p \in {"spi1", "spi2", "spi3"} -> "SPI123"
            [] p \in {"spi4", "spi5"} -> "SPI45"
            [] OTHER -> "SPI6"

SpiWidth(bits) == CASE bits > 16 -> 4 [] bits > 8 -> 2 [] OTHER -> 1

(* Mode of the slave-select line: who drives it depends on the role.         *)
NssMode(c, mode) == IF c.nss = "SOFTWARE" THEN "SOFT"
                    ELSE IF mode = "MASTER" THEN "HARD_OUTPUT" ELSE "HARD_INPUT"

(* The first controller the HAL refuses ends the initialisation of all: those *)
(* after it never get their instance.  One whose handle is set up but refused *)
(* has its handle, and no interrupt.                                         *)
SpiUp(cfgs, failed) ==
    IF failed = {} THEN DOMAIN cfgs ELSE 1 .. Min(failed) - 1
SpiTouched(cfgs, failed) ==
    IF failed = {} THEN DOMAIN cfgs ELSE 1 .. Min(failed)

NoSpiHandle == [peripheral |-> "none", rx |-> 0, tx |-> 0, prescaler |-> 0,
                nss |-> "none", bits |-> 0, width |-> 0]

SpiInit(cfgs, failed, freq) ==
    [i \in DOMAIN cfgs |->
        IF i \notin SpiTouched(cfgs, failed) THEN NoSpiHandle
        ELSE LET c == cfgs[i] IN
             [peripheral |-> c.peripheral, rx |-> c.rx, tx |-> c.tx,
              prescaler |-> IF c.mode = "MASTER"
                            THEN PrescalerFlag(Prescaler(freq[Bus(c.peripheral)],
                                                         c.baudrate))
                            ELSE 0,
              nss |-> NssMode(c.config, c.mode),
              bits |-> c.config.bits, width |-> SpiWidth(c.config.bits)]]

SpiPanics(cfgs, failed, freq) ==
    \/ failed # {}
    \/ \E i \in SpiTouched(cfgs, failed) :
          /\ cfgs[i].mode = "MASTER"
          /\ Prescaler(freq[Bus(cfgs[i].peripheral)], cfgs[i].baudrate) > 256

(* spi_instances, by number of the controller; its interrupt is enabled and   *)
(* its callbacks find it exactly when it is there.                           *)
SpiInstances(cfgs, failed) ==
    [n \in 1 .. 6 |->
        LET found == {i \in SpiUp(cfgs, failed) : SpiNumber(cfgs[i].peripheral) = n}
        IN  IF found = {} THEN 0 ELSE Max(found)]

(* The handles of the streams after SPI initialises them again with the width *)
(* of a frame.                                                               *)
SpiDmaWidths(cfgs, failed, dma) ==
    [h \in DOMAIN dma |->
        LET users == {i \in SpiTouched(cfgs, failed) : h \in {cfgs[i].rx, cfgs[i].tx}}
        IN  IF users = {} THEN PeriphWidth(dma[h].instance)
            ELSE SpiWidth(cfgs[Max(users)].config.bits)]
=============================================================================
