------------------------------- MODULE Devices -------------------------------
(* The devices made of the others' parts: digital inputs and outputs,         *)
(* interrupt lines, the Ethernet port, SD cards and packets moved by MDMA     *)
(* (src/Inc/ST-LIB_LOW/Sd/Sd.hpp, DigitalInput2.hpp, DigitalOutput2.hpp,      *)
(* src/Inc/HALAL/Services/EXTI, Communication/Ethernet/NewEthernet.hpp,       *)
(* Models/Packets/MdmaPacket.hpp).                                           *)
EXTENDS Pins, MpuDomain

DinGpio(pin)       == Gpio(pin, "INPUT", NO_AF)
DoutGpio(pin)      == Gpio(pin, "OUTPUT_PUSHPULL", NO_AF)
ExtiGpio(d)        == Gpio(d.pin, d.trigger, NO_AF)

InscribeDin(ctx, pin, owner) ==
    LET c1 == Add(ctx, "GPIO", DinGpio(pin), owner)
    IN  Add(c1, "DIn", [gpio |-> LastIndex(c1, "GPIO")], owner)

InscribeDout(ctx, pin, owner) ==
    LET c1 == Add(ctx, "GPIO", DoutGpio(pin), owner)
    IN  Add(c1, "DOut", [gpio |-> LastIndex(c1, "GPIO")], owner)

InscribeExti(ctx, d) ==
    LET c1 == Add(ctx, "GPIO", ExtiGpio(d), d)
    IN  Add(c1, "EXTI", [gpio |-> LastIndex(c1, "GPIO"), pin |-> d.pin,
                         action |-> d.action], d)

-----------------------------------------------------------------------------
(* The two boards the port was made for; the last pin resets the PHY.         *)
PINSET_H10 == [rmii |-> << <<"C", 1>>, <<"A", 1>>, <<"A", 2>>, <<"A", 7>>, <<"C", 4>>,
                           <<"C", 5>>, <<"B", 13>>, <<"G", 11>>, <<"G", 13>>, <<"G", 2>> >>,
               reset |-> <<"G", 0>>]
PINSET_H11 == [rmii |-> << <<"C", 1>>, <<"A", 1>>, <<"A", 2>>, <<"A", 7>>, <<"C", 4>>,
                           <<"C", 5>>, <<"B", 13>>, <<"B", 11>>, <<"B", 12>> >>,
               reset |-> <<"F", 14>>]

(* Only the management data line is open-drain.                              *)
RmiiGpio(d, i) == Gpio(d.pins.rmii[i], IF i = 3 THEN "ALT_OD" ELSE "ALT_PP", 11)

EthernetCompiles(d) == /\ \A i \in DOMAIN d.pins.rmii : GpioCompiles(RmiiGpio(d, i))
                       /\ GpioCompiles(DoutGpio(d.pins.reset))

InscribeEthernet(ctx, d) ==
    LET c1 == AddAll(ctx, "GPIO", [i \in DOMAIN d.pins.rmii |-> RmiiGpio(d, i)], d)
        c2 == InscribeDout(c1, d.pins.reset, d)
    IN  Add(c2, "Eth", [reset |-> LastIndex(c2, "DOut")], d)

(* Init pulls the PHY's reset low and lets it go, through the output.         *)
EthernetInit(cfgs, douts) ==
    [i \in DOMAIN cfgs |-> [reset |-> douts[cfgs[i].reset], running |-> TRUE]]

-----------------------------------------------------------------------------
(* SD cards: the pins of a controller are fixed, all but the first data line  *)
(* of SDMMC1.                                                                *)
SdPins(d) ==
    IF d.peripheral = "sdmmc1"
    THEN << <<"D", 2>>, <<"C", 12>>, d.d0, <<"C", 9>>, <<"C", 10>>, <<"C", 11>> >>
    ELSE << <<"D", 7>>, <<"D", 6>>, <<"B", 14>>, <<"B", 15>>, <<"G", 11>>, <<"G", 12>> >>
SdAf(d) == IF d.peripheral = "sdmmc1" THEN <<12, 12, 12, 12, 12, 12>>
                                      ELSE <<11, 11, 9, 9, 10, 10>>
SdGpio(d, i) == Gpio(SdPins(d)[i], "ALT_PP", SdAf(d)[i])

SdCompiles(d) ==
    /\ d.d0 \in {<<"C", 8>>, <<"B", 13>>}
    /\ d.blocks \in 1 .. 15
    /\ \A i \in 1 .. 6 : GpioCompiles(SdGpio(d, i))

SdBuffer(d) == [memory |-> <<"D1", "NonCached">>, alignment |-> 4, size |-> 512 * d.blocks]

(* Two buffers, the detect and protect inputs a card has, then its six lines. *)
InscribeSd(ctx, d) ==
    LET c1 == Add(Add(ctx, "MPU", SdBuffer(d), d), "MPU", SdBuffer(d), d)
        c2 == IF d.cd = <<>> THEN c1 ELSE InscribeDin(c1, d.cd, d)
        c3 == IF d.wp = <<>> THEN c2 ELSE InscribeDin(c2, d.wp, d)
        c4 == AddAll(c3, "GPIO", [i \in 1 .. 6 |-> SdGpio(d, i)], d)
        n  == LastIndex(c4, "GPIO")
    IN  Add(c4, "Sd",
            [peripheral |-> d.peripheral,
             buffers |-> <<LastIndex(c1, "MPU") - 1, LastIndex(c1, "MPU")>>,
             cd |-> IF d.cd = <<>> THEN 0 ELSE LastIndex(c2, "DIn"),
             wp |-> IF d.wp = <<>> THEN 0 ELSE LastIndex(c3, "DIn"),
             lines |-> <<n - 5, n - 4, n - 3, n - 2, n - 1, n>>], d)

SdAccepts(es) ==
    \A i, j \in DOMAIN es : i < j => es[i].peripheral # es[j].peripheral

SdInit(cfgs, mpu, dins) ==
    [i \in DOMAIN cfgs |->
        [peripheral |-> cfgs[i].peripheral,
         buffers |-> <<mpu[cfgs[i].buffers[1]], mpu[cfgs[i].buffers[2]]>>,
         cd |-> IF cfgs[i].cd = 0 THEN 0 ELSE dins[cfgs[i].cd],
         wp |-> IF cfgs[i].wp = 0 THEN 0 ELSE dins[cfgs[i].wp],
         initialized |-> FALSE, current |-> 1]]

-----------------------------------------------------------------------------
(* A packet moved by MDMA: its bytes and its nodes, of which there are two    *)
(* for each value and for the id, and two for the transfers of the whole.     *)
NodeBytes == 40
PacketBytes(d) == FoldLeft(LAMBDA n, s : n + s, 2, d.sizes)
PacketNodes(d) == 2 * (Len(d.sizes) + 1) + 2

InscribeMdmaPacket(ctx, d) ==
    LET nc(align, size) == [memory |-> <<"D1", "NonCached">>, alignment |-> align,
                            size |-> size]
        c1 == Add(Add(ctx, "MPU", nc(1, PacketBytes(d)), d),
                  "MPU", nc(8, NodeBytes * PacketNodes(d)), d)
    IN  Add(c1, "MdmaPacket", [packet |-> LastIndex(c1, "MPU") - 1,
                               nodes |-> LastIndex(c1, "MPU")], d)

MdmaPacketInit(cfgs, mpu) ==
    [i \in DOMAIN cfgs |-> [packet |-> mpu[cfgs[i].packet], nodes |-> mpu[cfgs[i].nodes]]]
=============================================================================
