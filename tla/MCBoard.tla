------------------------------- MODULE MCBoard -------------------------------
(* Boards of up to four devices from themed pools, small enough to take every  *)
(* order and every selection, and what must hold of each that is accepted; and *)
(* a timer such a board hands out, with what may hang on it.  The initial state *)
(* picks one of the two, the other stays put.                                *)
EXTENDS Board, TimerDriver, TLC

CONSTANT Parts      \* of {"board", "timer"}
VARIABLE part

Adc(name, pin, bits, prescaler) ==
    [type |-> "ADC", name |-> name, pin |-> pin, peripheral |-> AUTO,
     channel |-> AUTO_CHANNEL, bits |-> bits, prescaler |-> prescaler, rate |-> 0]

SpiCfg(nss, bits) ==
    [nss |-> nss, bits |-> bits, crc |-> FALSE, polynomial |-> 7, ss_idleness |-> 0,
     interdata_idleness |-> 0]
Spi1 == [type |-> "SPI", peripheral |-> "spi1", mode |-> "MASTER", baudrate |-> 3,
         sck |-> <<"A", 5>>, miso |-> <<"A", 6>>, mosi |-> <<"A", 7>>, nss |-> NoPin,
         streams |-> <<none, none>>, config |-> SpiCfg("SOFTWARE", 8)]
Spi2 == [type |-> "SPI", peripheral |-> "spi2", mode |-> "SLAVE", baudrate |-> 3,
         sck |-> <<"B", 13>>, miso |-> <<"B", 14>>, mosi |-> <<"B", 15>>,
         nss |-> <<"B", 12>>, streams |-> <<2, 1>>, config |-> SpiCfg("HARDWARE", 16)]
Spi3 == [Spi1 EXCEPT !.peripheral = "spi3", !.sck = <<"C", 10>>, !.miso = <<"C", 11>>,
                     !.mosi = <<"C", 12>>, !.streams = <<2, none>>, !.config.bits = 32]
Spi1Again == [Spi1 EXCEPT !.sck = <<"B", 3>>, !.miso = <<"B", 4>>, !.mosi = <<"B", 5>>]

Dfsdm(pin, config, size) == [type |-> "DFSDM", pin |-> pin, config |-> config, size |-> size]
Injected(f, dma) == [DefaultFilter EXCEPT !.filter = f, !.conv = "Injected", !.dma = dma]
Regular(f, dma)  == [DefaultFilter EXCEPT !.filter = f, !.dma = dma]

Timer(request, pins) == [type |-> "TIM", request |-> request, pins |-> pins, trgo |-> request]
Pwm(channel, pin)    == [af |-> "PWM", channel |-> channel, pin |-> pin]

Buffer(name, domain, kind, alignment, size) ==
    [type |-> "MPU", name |-> name, memory |-> <<domain, kind>>, alignment |-> alignment,
     size |-> size]

Line(pin, action) == [type |-> "EXTI", pin |-> pin, trigger |-> "EXTI_RISING",
                      action |-> action]
Fmac == [type |-> "DMA", instance |-> "fmac", streams |-> <<none, 3, none>>]
Sd(peripheral, cd, wp) == [type |-> "Sd", peripheral |-> peripheral, d0 |-> <<"C", 8>>,
                           blocks |-> 1, cd |-> cd, wp |-> wp]

(* Both converters' pins, two that clash, and streams that others ask for.     *)
AdcPool == { Adc("a", <<"A", 0>>, 16, 1), Adc("b", <<"C", 4>>, 16, 1),
             Adc("c", <<"C", 0>>, 12, 1), Adc("d", <<"C", 1>>, 12, 2),
             Adc("e", <<"F", 13>>, 16, 1), Spi2,
             [type |-> "DMA", instance |-> "adc2", streams |-> <<1>>] }
SpiPool == { Spi1, Spi2, Spi3, Spi1Again, Fmac, Adc("a", <<"A", 5>>, 16, 1) }
TimerPool == { Timer(3, <<Pwm(1, <<"A", 6>>), Pwm(2, <<"B", 5>>)>>), Timer(5, <<>>),
               Timer(Any32bit, <<>>), [Timer(Any32bit, <<>>) EXCEPT !.trgo = 1],
               Timer(AnyGeneralPurpose, <<>>),
               Timer(1, <<Pwm(9, <<"A", 7>>)>>) }
DfsdmPool == { Dfsdm(<<"C", 1>>, Injected(0, TRUE), 1), Dfsdm(<<"C", 3>>, Injected(0, TRUE), 1),
               Dfsdm(<<"C", 5>>, Regular(1, FALSE), 3), Dfsdm(<<"E", 4>>, Regular(2, TRUE), 2),
               Dfsdm(<<"D", 1>>, Injected(0, FALSE), 1), Adc("c", <<"C", 0>>, 12, 1),
               [type |-> "DFSDMClk", pin |-> <<"C", 2>>, divider |-> 8] }
(* Three channels of one filter, by DMA; by interrupt, one of another length.    *)
GroupPool == { Dfsdm(<<"C", 1>>, Injected(0, TRUE), 1), Dfsdm(<<"C", 3>>, Injected(0, TRUE), 1),
               Dfsdm(<<"E", 12>>, Injected(0, TRUE), 1) }
IndexPool == { Dfsdm(<<"E", 4>>, Injected(3, FALSE), 2), Dfsdm(<<"C", 0>>, Injected(3, FALSE), 2),
               Dfsdm(<<"B", 10>>, Injected(3, FALSE), 3) }
MpuPool == { Buffer("byte", "D1", "NonCached", 1, 3), Buffer("word", "D1", "NonCached", 4, 8),
             Buffer("line", "D1", "NonCached", 32, 40), Buffer("cached", "D1", "Cached", 8, 24),
             Sd("sdmmc1", <<"G", 3>>, <<"G", 4>>), Sd("sdmmc2", <<>>, <<"G", 3>>),
             [type |-> "MdmaPacket", sizes |-> <<4, 1>>] }
PinPool == { Line(<<"A", 3>>, "f"), Line(<<"B", 3>>, "g"), Line(<<"D", 9>>, "h"),
             [type |-> "DIn", pin |-> <<"D", 9>>], [type |-> "DOut", pin |-> <<"G", 1>>],
             [type |-> "Eth", pins |-> PINSET_H11],
             [type |-> "DOut", pin |-> <<"F", 15>>] }

BoardPools == {AdcPool, SpiPool, TimerPool, DfsdmPool, GroupPool \cup IndexPool,
               MpuPool, PinPool}
TimerPools == {TimerPool}

(* Floats of five bits, in 64ths: rounded to the nearest multiple of the least    *)
(* power of two that leaves less than 32 of them.                             *)
FiveBits(num, den) ==
    LET n == 64 * num
        unit == CHOOSE u \in {2^k : k \in 0 .. 12} :
                    n < 32 * den * u /\ (u > 1 => 2 * n >= 32 * den * u)
    IN  unit * ((2 * n + den * unit) \div (2 * den * unit))
FiveBitShare(n, duty) == FiveBits(FiveBits(n, 1) * FiveBits(duty, 100), 64 * 64) \div 64

SpiClocks == [SPI123 |-> 24, SPI45 |-> 10, SPI6 |-> 10]

(* An advanced timer: outputs and a complementary pair; a capture beside an       *)
(* output, one that claims the output's channel, and one nobody listens to.    *)
Asked(frequencies, duties, dead, prescalers, edges) ==
    [frequencies |-> frequencies, duties |-> duties, dead |-> dead,
     prescalers |-> prescalers, edges |-> edges]
TimerRigs ==
    {[tim |-> "TIM1", pwm |-> {2}, dual |-> {1}, capture |-> <<>>]
        @@ Asked({2, 5}, {0, 50, 150}, {0}, {}, 0),
     [tim |-> "TIM1", pwm |-> {}, dual |-> {1}, capture |-> <<>>]
        @@ Asked({1}, {30, 150}, {0, 510, 900, 1030, 2030, 3000, 5000}, {}, 0),
     [tim |-> "TIM3", pwm |-> {1}, dual |-> {}, capture |-> <<4, 3>>] @@ Asked({2}, {}, {}, {1}, 3),
     [tim |-> "TIM5", pwm |-> {3}, dual |-> {}, capture |-> <<2, 1>>] @@ Asked({4}, {}, {}, {}, 5),
     [tim |-> "TIM2", pwm |-> {4}, dual |-> {}, capture |-> <<3, 4>>] @@ Asked({}, {50}, {}, {1}, 1),
     [tim |-> "TIM23", pwm |-> {1}, dual |-> {}, capture |-> <<>>]
        @@ Asked({3, 6}, {50, 100}, {}, {}, 0),
     [tim |-> "TIM8", pwm |-> {}, dual |-> {}, capture |-> <<1, 2>>] @@ Asked({}, {}, {}, {1}, 1)}

PartsInit == part \in Parts /\ Init /\ TimInit /\ (part = "board" => rig.pwm = {2})
PartsNext == /\ UNCHANGED part
             /\ \/ part = "board" /\ Next /\ UNCHANGED timVars
                \/ part = "timer" /\ TimNext /\ UNCHANGED vars
PartsSpec == PartsInit /\ [][PartsNext]_<<vars, timVars, part>>

-----------------------------------------------------------------------------
(* "each stored Entry must be associated with the request object that owns it"  *)
(* (docs/st-lib-board-contract.md): the timer instance_of returns is the one    *)
(* the device asked for (TimerDomain::build).                                *)
TimersServeTheirOwners ==
    Running => \A d \in ToSet(devices) : d.type = "TIM" =>
        IF d.request \in Anything THEN Mine(d).master = d.trgo
                                  ELSE Mine(d).tim = d.request

=============================================================================
