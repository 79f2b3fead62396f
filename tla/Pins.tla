-------------------------------- MODULE Pins --------------------------------
(* The pins of the microcontroller and the domains that only wrap a pin     *)
(* (src/Inc/HALAL/Models/Pin.hpp, GPIO.hpp, Services/EXTI, DigitalInput2,    *)
(* DigitalOutput2).  A pin is <<port, number>>; pull, speed and the HAL's    *)
(* own names of the modes are left out.                                      *)
EXTENDS Naturals, Sequences

NO_AF == 16          \* no alternate function; 0 .. 15 are AF0 .. AF15

(* The sixteen bits of Pin.hpp, one word a pin: AF0 is the leftmost bit.     *)
AfWords ==
    [ A |-> <<\h7DF9, \h79FB, \h7B9B, \h7F7B, \hA78F, \hD4AF, \h76FF, \h74FB,
            \hDB3F, \h5F17, \h513F, \h5743, \h57CB, \h8001, \h8001, \hCFD3>>,
      B |-> <<\h7AF3, \h7A73, \hEBF5, \hC6F3, \hE7D1, \h7FFF, \h6FFF, \h6B9D,
            \h7BFF, \h7FFF, \h5F73, \h5B33, \h5F7F, \h5F7F, \h7FCB, \hFECB>>,
      C |-> <<\h52FB, \hFEFB, \h9E79, \h9C79, \hD47B, \hF87F, \h3DEF, \hBBFF,
            \hB1FD, \hBEFF, \h1BFF, \h1BCF, \hEF8F, \h0001, \h0001, \h0001>>,
      D |-> <<\h10DB, \h10C9, \hE8CF, \h150F, \h0129, \h0129, \h7FBF, \h1779,
            \h1149, \h1109, \h110B, \h1969, \h7D6D, \h6C79, \h2099, \h2099>>,
      E |-> <<\h68AF, \h408F, \hAEF9, \h8A99, \hBEAF, \hBEAF, \hEEFF, \h5129,
            \h512D, \h5129, \h5129, \h543B, \h542F, \h542F, \h442B, \h401F>>,
      F |-> <<\h0A4D, \h0A4D, \h0A4D, \h004D, \h0049, \h0049, \h67A5, \h67A5,
            \h47E5, \h47E5, \h6867, \h046F, \h004B, \h180B, \h180B, \h0809>>,
      G |-> <<\h0059, \h0059, \h101B, \h101D, \h4019, \h4009, \h402F, \h034F,
            \h159B, \h25FD, \h347F, \h4CF7, \h5DFF, \hCD3F, \hCD7F, \h015D>>,
      H |-> <<\h0001, \h0001>> ]

P(port, numbers) == {<<port, n>> : n \in numbers}

ValidAf(p, af) ==
    \/ af = NO_AF
    \/ (AfWords[p[1]][p[2] + 1] \div 2^(15 - af)) % 2 = 1

Alternates == {"ALT_PP", "ALT_OD"}

Gpio(p, mode, af) == [pin |-> p, mode |-> mode, af |-> af]

(* What the constructor refuses to compile.                                  *)
GpioCompiles(g) ==
    /\ ValidAf(g.pin, g.af)
    /\ g.mode \in Alternates => g.af # NO_AF

GpioAccepts(es) ==
    \A i, j \in DOMAIN es : i < j => es[i].pin # es[j].pin

(* Outside the alternate modes the register keeps AF0.                       *)
GpioBuild(es) ==
    [i \in DOMAIN es |->
        [pin |-> es[i].pin, mode |-> es[i].mode,
         alternate |-> IF es[i].mode \in Alternates THEN es[i].af ELSE 0]]

GpioInit(cfgs) == [i \in DOMAIN cfgs |-> cfgs[i]]

-----------------------------------------------------------------------------
(* EXTI: the number of the pin is the line.                                  *)
ExtiAccepts(es) ==
    \A i, j \in DOMAIN es : i < j => es[i].pin[2] # es[j].pin[2]

ExtiBuild(es) ==
    [i \in DOMAIN es |->
        [gpio |-> es[i].gpio, line |-> es[i].pin[2], action |-> es[i].action]]

ExtiIrq(line) == CASE line <= 4 -> <<"EXTI", line, line>>
                   [] line \in 5 .. 9 -> <<"EXTI", 5, 9>>
                   [] OTHER -> <<"EXTI", 10, 15>>

(* An instance is off until turn_on; the table of lines points at it.        *)
ExtiInit(cfgs) ==
    [i \in DOMAIN cfgs |->
        [is_on |-> FALSE, action |-> cfgs[i].action, gpio |-> cfgs[i].gpio,
         line |-> cfgs[i].line, irq |-> ExtiIrq(cfgs[i].line)]]

-----------------------------------------------------------------------------
(* Digital inputs and outputs keep the index of their pin.                   *)
DoutBuild(es)  == [i \in DOMAIN es |-> es[i].gpio]
DoutInit(cfgs) == cfgs
DinBuild(es)   == [i \in DOMAIN es |-> es[i].gpio]
DinInit(cfgs)  == cfgs
=============================================================================
