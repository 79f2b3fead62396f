----------------------------- MODULE TimerDomain -----------------------------
(* Which timer each request gets, and the function of its pins               *)
(* (src/Inc/HALAL/Models/TimerDomain/TimerDomain.hpp).  A timer is its number. *)
EXTENDS Pins, BuildCtx, FiniteSetsExt, SequencesExt

SchedulerTimer    == 2
AnyGeneralPurpose == 0
Any32bit          == 255
Anything          == {AnyGeneralPurpose, Any32bit}

(* timer_idxmap and the tables it indexes: handles, registers, interrupts,    *)
(* callbacks.                                                                *)
TimerIdx == <<2, 3, 4, 5, 23, 24, 12, 13, 14, 15, 16, 17, 6, 7, 1, 8>>
Timers   == ToSet(TimerIdx)
Basic    == {6, 7}

(* The update of timer 8 comes through the vector of timer 13.                *)
TimerIrqn(t) == IF t = 8 THEN 13 ELSE t

-----------------------------------------------------------------------------
(* Uses of a pin: channels 1 to 4, their negations from 9 on, and the others. *)
ETR  == 13
BI1  == 14
BI2  == 15
BIC1 == 16
BIC2 == 17

U(use, af, pins) == [use |-> use, af |-> af, pins |-> pins]

(* The pins of each timer, use by use in the order they are looked through.   *)
Tim1Pins ==
    << U(BI2, 1, P("E", {6})), U(BIC2, 12, P("E", {6})), U(BI1, 1, P("A", {6})),
       U(BIC1, 11, P("A", {6})), U(9, 1, P("A", {7}) \cup P("E", {8}) \cup P("B", {13})),
       U(10, 1, P("B", {0, 14}) \cup P("E", {10})), U(11, 1, P("B", {1, 15}) \cup P("E", {12})),
       U(ETR, 1, P("E", {7}) \cup P("G", {5}) \cup P("A", {12})), U(1, 1, P("E", {9}) \cup P("A", {8})),
       U(2, 1, P("E", {11}) \cup P("A", {9})), U(3, 1, P("E", {13}) \cup P("A", {10})),
       U(4, 1, P("E", {14}) \cup P("A", {11})), U(BI1, 1, P("E", {15}) \cup P("B", {12})),
       U(BIC1, 13, P("E", {15}) \cup P("B", {12})), U(BI2, 1, P("G", {4})),
       U(BIC2, 11, P("G", {4})), U(BI2, 12, P("A", {12})) >>
Tim2Pins ==
    << U(1, 1, P("A", {0, 5, 15})), U(ETR, 1, P("A", {0, 5, 15})), U(2, 1, P("A", {1}) \cup P("B", {3})),
       U(3, 1, P("A", {2}) \cup P("B", {10})), U(4, 1, P("A", {3}) \cup P("B", {11})) >>
Tim3Pins ==
    << U(1, 2, P("A", {6}) \cup P("B", {4}) \cup P("C", {6})), U(2, 2, P("A", {7}) \cup P("B", {5}) \cup P("C", {7})),
       U(3, 2, P("B", {0}) \cup P("C", {8})), U(4, 2, P("B", {1}) \cup P("C", {9})), U(ETR, 2, P("D", {2})) >>
Tim4Pins ==
    << U(1, 2, P("B", {6}) \cup P("D", {12})), U(2, 2, P("B", {7}) \cup P("D", {13})),
       U(3, 2, P("B", {8}) \cup P("D", {14})), U(4, 2, P("B", {9}) \cup P("D", {15})), U(ETR, 2, P("E", {0})) >>
Tim5Pins ==
    << U(1, 2, P("A", {0})), U(2, 2, P("A", {1})), U(3, 2, P("A", {2})), U(4, 2, P("A", {3})),
       U(ETR, 2, P("A", {4})) >>
Tim8Pins ==
    << U(ETR, 3, P("A", {0}) \cup P("G", {8})), U(9, 3, P("A", {5, 7})), U(BI1, 3, P("A", {6})),
       U(BIC1, 10, P("A", {6})), U(BI2, 3, P("A", {8})), U(BIC2, 12, P("A", {8})),
       U(10, 3, P("B", {0, 14})), U(11, 3, P("B", {1, 15})), U(1, 3, P("C", {6})), U(2, 3, P("C", {7})),
       U(3, 3, P("C", {8})), U(4, 3, P("C", {9})), U(BI1, 3, P("G", {2})), U(BIC1, 11, P("G", {2})),
       U(BI2, 3, P("G", {3})), U(BIC2, 11, P("G", {3})) >>
Tim15Pins ==
    << U(BI1, 4, P("A", {0}) \cup P("E", {3, 4})), U(9, 4, P("A", {1})), U(1, 4, P("A", {2})),
       U(2, 4, P("A", {3}) \cup P("D", {2}) \cup P("E", {4})), U(1, 2, P("C", {12})), U(1, 4, P("E", {4})) >>
Tim16Pins == << U(1, 1, P("F", {6})), U(9, 1, P("F", {8})), U(BI1, 1, P("F", {10})) >>
Tim17Pins == << U(BI1, 1, P("B", {5}) \cup P("G", {6})), U(9, 1, P("B", {7}) \cup P("F", {9})),
                U(1, 1, P("B", {9}) \cup P("F", {7})) >>
Tim23Pins ==
    << U(ETR, 13, P("B", {2}) \cup P("G", {3})), U(1, 13, P("F", {0, 6}) \cup P("G", {12})),
       U(2, 13, P("F", {1, 7}) \cup P("G", {13})), U(3, 13, P("F", {2, 8}) \cup P("G", {14})),
       U(4, 13, P("F", {3, 9})) >>
Tim24Pins ==
    << U(ETR, 14, P("B", {3}) \cup P("G", {2})), U(1, 14, P("F", {11})), U(2, 14, P("F", {12})),
       U(3, 14, P("F", {13})), U(4, 14, P("F", {14})) >>

TimerPins(t) ==
    CASE t = 1 -> Tim1Pins [] t = 2 -> Tim2Pins [] t = 3 -> Tim3Pins
      [] t = 4 -> Tim4Pins [] t = 5 -> Tim5Pins [] t = 8 -> Tim8Pins
      [] t = 12 -> << U(1, 2, P("B", {14})), U(2, 2, P("B", {15})) >>
      [] t = 13 -> << U(1, 9, P("A", {6}) \cup P("F", {8})) >>
      [] t = 14 -> << U(1, 9, P("A", {7}) \cup P("F", {9})) >>
      [] t = 15 -> Tim15Pins [] t = 16 -> Tim16Pins [] t = 17 -> Tim17Pins
      [] t = 23 -> Tim23Pins [] t = 24 -> Tim24Pins
      [] OTHER -> <<>>

Uses(af, channel) == CASE af \in {"InputCapture", "PWM", "Encoder"} -> {channel}
                       [] af = "BreakInput" -> {BI1, BI2}
                       [] af = "BreakInputCompare" -> {BIC1, BIC2}
                       [] OTHER -> {}

(* get_gpio_af: the first use that fits decides, whatever the pin is.         *)
TimerAf(t, p) ==
    LET fits == {i \in DOMAIN TimerPins(t) :
                    TimerPins(t)[i].use \in Uses(p.af, p.channel)}
    IN  IF fits = {} THEN NO_AF ELSE TimerPins(t)[Min(fits)].af

TimerGpio(t, p) ==
    Gpio(p.pin, IF p.af \in {"PWM", "Encoder", "InputCapture"} THEN "ALT_PP"
                                                              ELSE "OUTPUT_OPENDRAIN",
         TimerAf(t, p))

TimerCompiles(d) ==
    /\ Len(d.pins) <= 7
    /\ d.request \in Anything \cup Basic => d.pins = <<>>
    /\ \A i \in DOMAIN d.pins :
          /\ TimerAf(d.request, d.pins[i]) # NO_AF
          /\ GpioCompiles(TimerGpio(d.request, d.pins[i]))

InscribeTimer(ctx, d) ==
    LET withPins == AddAll(ctx, "GPIO", [i \in DOMAIN d.pins |-> TimerGpio(d.request, d.pins[i])], d)
    IN  Add(withPins, "TIM", [request |-> d.request, trgo |-> d.trgo,
                              channels |-> [i \in DOMAIN d.pins |-> d.pins[i].channel]], d)

-----------------------------------------------------------------------------
Specific(es)  == {i \in DOMAIN es : es[i].request \notin Anything}
UsedTimers(es) == {es[i].request : i \in Specific(es)}

(* The first pass takes the requests for one timer out of the list of those   *)
(* that remain, moving the last into the place of each.                      *)
FirstPass(es) ==
    FoldLeft(LAMBDA s, i :
                IF i \in Specific(es)
                THEN [rem |-> [s.rem EXCEPT ![i] = s.rem[s.count]],
                      count |-> s.count - 1]
                ELSE s,
             [rem |-> [i \in DOMAIN es |-> i], count |-> Len(es)],
             [i \in DOMAIN es |-> i])

Left32(es) == SelectSeq(<<2, 5, 23, 24>>,
                LAMBDA t : t \notin UsedTimers(es) \cup {SchedulerTimer})

(* The second walks that list for requests of 32 bits; "took" are the requests *)
(* it served, in turn.  It never counts them: each gets the first one left.   *)
SecondPass(es) ==
    FoldLeft(LAMBDA s, k :
                CASE s.at > s.count -> s
                  [] s.at <= s.count /\ es[s.rem[s.at]].request = Any32bit ->
                        [s EXCEPT !.took = Append(@, s.rem[s.at]),
                                  !.rem[s.at] = s.rem[s.count],
                                  !.count = @ - 1]
                  [] OTHER -> [s EXCEPT !.at = @ + 1],
             [rem |-> FirstPass(es).rem, count |-> FirstPass(es).count,
              at |-> 1, took |-> <<>>],
             [i \in DOMAIN es |-> i])

(* What is left for the third: no matter what the second handed out.          *)
LeftTimers(es) == SelectSeq(<<15, 16, 17, 3, 4, 2, 5, 23, 24>>,
                            LAMBDA t : t \notin UsedTimers(es))
Rest(es) == SubSeq(SecondPass(es).rem, 1, SecondPass(es).count)

TimerAccepts(es) ==
    /\ Len(es) <= MaxInstances("TIM")
    /\ \A i \in DOMAIN es :
          /\ es[i].request \in (Timers \cup Anything) \ {SchedulerTimer}
          /\ IsInjective(es[i].channels)
    /\ \A i, j \in Specific(es) : i # j => es[i].request # es[j].request
    /\ SecondPass(es).took # <<>> => Left32(es) # <<>>
    /\ Len(Rest(es)) <= Len(LeftTimers(es))
    /\ \A k \in DOMAIN Rest(es) : es[Rest(es)[k]].request = AnyGeneralPurpose

(* Configurations come out in the order the passes make them, which is not    *)
(* that of the requests.                                                     *)
TimerBuild(es) ==
    LET named == SelectSeq([i \in DOMAIN es |-> i], LAMBDA i : i \in Specific(es))
        Cfg(t, i) == [timer |-> t, trgo |-> es[i].trgo]
    IN  [k \in DOMAIN named |-> Cfg(es[named[k]].request, named[k])]
        \o [k \in DOMAIN SecondPass(es).took |->
                Cfg(Head(Left32(es)), SecondPass(es).took[k])]
        \o [k \in DOMAIN Rest(es) |-> Cfg(LeftTimers(es)[k], Rest(es)[k])]

-----------------------------------------------------------------------------
TimerInit(cfgs) == [i \in DOMAIN cfgs |->
                        [tim |-> cfgs[i].timer, master |-> cfgs[i].trgo]]
=============================================================================
