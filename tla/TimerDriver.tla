------------------------------ MODULE TimerDriver ------------------------------
(* What shares one hardware timer: PWM outputs and an input capture            *)
(* (src/Inc/HALAL/Services/Time/TimerWrapper.hpp, PWM/PWM.hpp, PWM/DualPWM.hpp, *)
(* InputCapture/InputCapture.hpp) and the capture interrupt                    *)
(* (src/Src/HALAL/Models/TimerDomain/TimerDomain.cpp).  DualPWM cannot be       *)
(* switched off: turn_off does not compile (timer->tim).                      *)
EXTENDS Naturals, Sequences, FiniteSetsExt

CONSTANTS
    TimClock,        \* the timer's clock
    TimRange,        \* what its counter and its compare registers hold
    ClockPeriod,     \* nanoseconds of its clock
    Rigs,            \* timers and what may hang on one: [tim; pwm, dual: channels;
                     \* capture: <<rising, falling>>; frequencies, duties, dead, prescalers:
                     \* what is asked; edges: bound, of the signal]
    Gaps,            \* counts from an edge of the signal to the next
    Duties,          \* percentages a channel may hold
    FloatRange,      \* whole numbers below it are a float's (2^24)
    FloatShare(_, _) \* (uint32_t)((float)n * (duty / 100.0f))

VARIABLES
    rig,             \* the timer and what hangs on it
    tim,             \* its registers
    hal,             \* outputs whose HAL state is busy
    pwm,             \* the PWM objects and what they share
    capture,         \* the InputCapture object and its InputCaptureInfo
    isr,             \* the interrupt's loop: the last channel it read, 0 outside
    wave             \* the signal, as it is

timVars == <<rig, tim, hal, pwm, capture, isr, wave>>

CompareChannels == 1 .. 4
WordRange     == 4096     \* of 32-bit arithmetic (2^32)

CC3Timers == {"TIM1", "TIM2", "TIM3", "TIM4", "TIM5", "TIM8", "TIM23", "TIM24"}
CC2Timers == CC3Timers \cup {"TIM12", "TIM15"}

is_32bit_instance == rig.tim \in {"TIM2", "TIM5", "TIM23", "TIM24"}
is_break_instance == rig.tim \in {"TIM1", "TIM8", "TIM15", "TIM16", "TIM17"}
only_supports_upcounting == rig.tim \notin CC3Timers
is_ccxn_instance(c) == \/ rig.tim \in {"TIM1", "TIM8"} /\ c \in 1 .. 3
                       \/ rig.tim \in {"TIM15", "TIM16", "TIM17"} /\ c = 1

(* What the static_asserts of get_pwm, get_dual_pwm and get_input_capture let   *)
(* through; nothing keeps two objects off one channel.                        *)
RigCompiles(r) ==
    /\ r.pwm \cup r.dual \subseteq CompareChannels
    /\ r.capture # <<>> => /\ r.tim \in CC2Timers
                           /\ r.capture \in {<<1, 2>>, <<2, 1>>, <<3, 4>>, <<4, 3>>}
                           /\ r.capture[2] >= 3 => r.tim \in CC3Timers

(* Three roundings, each by one part in FloatRange, and a cut.                *)
IsShare(raw, share) ==
    /\ 100 * FloatRange * raw <= share * (FloatRange + 4)
    /\ share * (FloatRange - 4) < 100 * FloatRange * (raw + 1)

ASSUME FloatAssumption ==
    /\ FloatRange \in Nat \ 0 .. 3 /\ Duties \subseteq Nat /\ {0, 100} \subseteq Duties
    /\ \A n \in 0 .. TimRange, duty \in Duties :
          FloatShare(n, duty) \in Nat /\ IsShare(FloatShare(n, duty), n * duty)

(* A frequency of nothing divides by zero; two edges are a count apart.        *)
ASSUME RigsAssumption ==
    /\ TimClock \in Nat /\ TimRange \in Nat \ {0} /\ ClockPeriod \in Nat \ {0}
    /\ Gaps \subseteq Nat \ {0}
    /\ \A r \in Rigs : /\ RigCompiles(r)
                       /\ r.frequencies \subseteq Nat \ {0} /\ r.duties \subseteq Duties
                       /\ r.dead \subseteq Nat /\ r.prescalers \subseteq Nat

TimInit ==
    /\ rig \in Rigs
    /\ tim = [arr |-> TimRange - 1, psc |-> 0, cnt |-> 0, center |-> FALSE, cen |-> FALSE,
              moe |-> FALSE, dtg |-> 0, ccr |-> [c \in CompareChannels |-> 0], out |-> {},
              mode |-> [c \in CompareChannels |-> "frozen"], irq |-> {}, sr |-> {}]
    /\ hal = {}
    /\ pwm = [on |-> {}, configured |-> {}, duty |-> [c \in CompareChannels |-> 0], frequency |-> 0,
              silent |-> {}, early |-> {}, dead |-> 0]
    /\ capture = [on |-> FALSE, configured |-> FALSE, rising |-> 0, falling |-> 0, period |-> 0,
                  frequency |-> 0, duty |-> <<0, 0>>]
    /\ isr = [at |-> 0, reads |-> FALSE, seen |-> {}]
    /\ wave = [level |-> FALSE, since |-> 0, high |-> 0, period |-> 0, clean |-> 0, fits |-> FALSE,
               edges |-> 0]

(* config_output_compare_channel: the enable bit is read before it is cleared,  *)
(* so it comes back; the complementary one does not.                          *)
config_output_compare_channel(t, c) ==
    [t EXCEPT !.mode[c] = "pwm",
              !.out = IF is_ccxn_instance(c) THEN @ \ {<<c, "N">>} ELSE @]

config_input_compare_channel(t, c, edge) ==
    [t EXCEPT !.mode[c] = edge, !.out = @ \ {<<c, "P">>}]

Enable(t, o) == [t EXCEPT !.out = @ \cup {o}, !.moe = @ \/ is_break_instance, !.cen = TRUE]

are_all_channels_free(t) == t.out = {}

(* Nothing of the signal was heard since.                                     *)
Unheard == [wave EXCEPT !.since = 0, !.high = 0, !.period = 0, !.clean = 0, !.fits = FALSE]

(* The main context stands still while the interrupt runs.                     *)
MainRuns == isr.at = 0

-----------------------------------------------------------------------------
(* PWM.                                                                       *)
OutputReady(c) == IF c \in pwm.configured THEN tim ELSE config_output_compare_channel(tim, c)

TurnOn(c) ==
    /\ MainRuns /\ c \in rig.pwm /\ <<c, "P">> \notin pwm.on
    /\ tim' = Enable(OutputReady(c), <<c, "P">>)
    /\ hal' = hal \cup {<<c, "P">>}
    /\ pwm' = [pwm EXCEPT !.on = @ \cup {<<c, "P">>}, !.configured = @ \cup {c}]
    /\ UNCHANGED <<rig, capture, isr, wave>>

(* The last to go stops the counter.                                          *)
TurnOff(c) ==
    /\ MainRuns /\ c \in rig.pwm /\ <<c, "P">> \in pwm.on
    /\ LET t == [tim EXCEPT !.out = @ \ {<<c, "P">>}]
       IN  tim' = IF are_all_channels_free(t)
                  THEN [t EXCEPT !.moe = @ /\ ~is_break_instance, !.cen = FALSE] ELSE t
    /\ hal' = hal \ {<<c, "P">>}
    /\ pwm' = [pwm EXCEPT !.on = @ \ {<<c, "P">>}]
    /\ UNCHANGED <<rig, capture, isr, wave>>

(* DualPWM: turn_on configures and switches both on; each can be switched on    *)
(* alone, configured or not.                                                  *)
DualOn(c) ==
    LET halves == {<<c, "P">>, <<c, "N">>} \ pwm.on
        t == OutputReady(c)
    IN  /\ MainRuns /\ c \in rig.dual
        /\ tim' = IF halves = {} THEN t
                  ELSE [t EXCEPT !.out = @ \cup halves, !.moe = @ \/ is_break_instance, !.cen = TRUE]
        /\ hal' = hal \cup halves
        /\ pwm' = [pwm EXCEPT !.on = @ \cup halves, !.configured = @ \cup {c}]
        /\ UNCHANGED <<rig, capture, isr, wave>>

HalfOn(c, half) ==
    /\ MainRuns /\ c \in rig.dual /\ <<c, half>> \notin pwm.on
    /\ tim' = Enable(tim, <<c, half>>)
    /\ hal' = hal \cup {<<c, half>>}
    /\ pwm' = [pwm EXCEPT !.on = @ \cup {<<c, half>>},
                          !.early = IF c \in pwm.configured THEN @ ELSE @ \cup {c}]
    /\ UNCHANGED <<rig, capture, isr, wave>>

(* A percentage of the period: where it does not fit the register, the           *)
(* conversion to 32 bits stops at the top, that to 16 wraps.                   *)
RawDuty(arr, duty) ==
    IF ~is_32bit_instance THEN FloatShare(arr + 1, duty) % TimRange
    ELSE LET raw == FloatShare((arr + 1) % TimRange, duty)
         IN  IF raw < TimRange THEN raw ELSE TimRange - 1

(* A channel that captures is read-only.                                      *)
Listens(c) == tim.mode[c] \in {"rising", "falling"}

(* set_pwm_frequency: rounded (in floats, here exactly: whatever the period      *)
(* becomes) or fast; every channel with a duty follows.                        *)
Reload(frequency, mode) ==
    LET steps == (tim.psc + 1) * frequency
    IN  IF mode = "SPEED" THEN (TimClock \div (tim.psc + 1)) \div frequency
        ELSE IF 2 * TimClock <= steps THEN 0 ELSE (2 * TimClock - steps) \div (2 * steps)

SetFrequency(p, t, frequency, mode) ==
    LET f == IF tim.center THEN 2 * frequency ELSE frequency
        arr == Reload(f, mode) % TimRange
    IN  /\ tim' = [t EXCEPT !.arr = arr,
                              !.ccr = [c \in CompareChannels |-> IF p.duty[c] # 0 /\ ~Listens(c)
                                                          THEN RawDuty(arr, p.duty[c]) ELSE @[c]]]
        /\ pwm' = [p EXCEPT !.frequency = f]
        /\ wave' = Unheard
        /\ UNCHANGED <<rig, hal, capture, isr>>

(* Defect: the compare registers stay.                                        *)
FrequencyAlone(frequency, mode) ==
    /\ MainRuns /\ rig.pwm \cup rig.dual # {}
    /\ tim' = [tim EXCEPT !.arr = Reload(IF tim.center THEN 2 * frequency ELSE frequency, mode)
                                     % TimRange]
    /\ wave' = Unheard
    /\ UNCHANGED <<rig, hal, pwm, capture, isr>>

set_timer_frequency(frequency, mode) ==
    /\ MainRuns /\ rig.pwm \cup rig.dual # {}
    /\ SetFrequency(pwm, tim, frequency, mode)

set_duty_cycle(c, duty) ==
    LET d == IF duty > 100 THEN 100 ELSE duty
    IN  /\ MainRuns /\ c \in rig.pwm \cup rig.dual
        /\ tim' = IF Listens(c) THEN tim ELSE [tim EXCEPT !.ccr[c] = RawDuty(tim.arr, d)]
        /\ pwm' = [pwm EXCEPT !.duty[c] = d, !.silent = @ \ {c}]
        /\ UNCHANGED <<rig, hal, capture, isr, wave>>

(* set_dead_time: four ranges of ever larger steps; past the last it panics and *)
(* goes on with none.                                                         *)
DeadTime(ns) ==
    LET Steps(k, least) == LET n == ns \div (k * ClockPeriod) IN IF n < least THEN 0 ELSE n - least
    IN  IF ns <= 127 * ClockPeriod THEN ns \div ClockPeriod
        ELSE IF ns <= 254 * ClockPeriod THEN 128 + Steps(2, 64)
        ELSE IF ns <= 504 * ClockPeriod THEN 192 + Steps(8, 32)
        ELSE IF ns <= 1008 * ClockPeriod THEN 224 + Steps(16, 32) ELSE 0

WithDeadTime(ns) == [tim EXCEPT !.dtg = DeadTime(ns), !.moe = is_break_instance]

(* configure takes any duty as it is; with none the output keeps what it had;    *)
(* of a pair it sets the dead time as well.                                   *)
configure(c, frequency, duty) ==
    LET p == [pwm EXCEPT !.duty[c] = duty,
                         !.silent = IF duty = 0 THEN @ \cup {c} ELSE @ \ {c}]
    IN  /\ MainRuns
        /\ \/ c \in rig.pwm /\ SetFrequency(p, tim, frequency, "PRECISION")
           \/ \E ns \in rig.dead : /\ c \in rig.dual
                                  /\ SetFrequency([p EXCEPT !.dead = ns], WithDeadTime(ns),
                                                  frequency, "PRECISION")

set_counting_mode(center) ==
    /\ MainRuns /\ ~only_supports_upcounting /\ ~tim.cen
    /\ tim' = [tim EXCEPT !.center = center]
    /\ UNCHANGED <<rig, hal, pwm, capture, isr, wave>>

set_dead_time(ns) ==
    /\ MainRuns /\ rig.dual # {}
    /\ tim' = WithDeadTime(ns)
    /\ pwm' = [pwm EXCEPT !.dead = ns]
    /\ UNCHANGED <<rig, hal, capture, isr, wave>>

-----------------------------------------------------------------------------
(* InputCapture.                                                              *)
Rising  == rig.capture[1]
Falling == rig.capture[2]
Claim(c) == {<<c, "P">>, <<c, "N">>}

CaptureConfigured ==
    IF capture.configured THEN tim
    ELSE config_input_compare_channel(config_input_compare_channel(tim, Rising, "rising"),
                                      Falling, "falling")

(* get_input_capture sets the prescaler, of all that hangs on the timer.       *)
get_input_capture(prescaler) ==
    /\ MainRuns /\ rig.capture # <<>> /\ ~capture.configured
    /\ tim' = [tim EXCEPT !.psc = prescaler]
    /\ wave' = Unheard
    /\ UNCHANGED <<rig, hal, pwm, capture, isr>>

(* turn_on: a channel that is taken panics; the second gives the first back.     *)
CaptureOn ==
    LET t == [CaptureConfigured EXCEPT !.cnt = 0, !.sr = {}]
        taken == (Claim(Rising) \cup Claim(Falling)) \cap hal # {}
    IN  /\ MainRuns /\ rig.capture # <<>> /\ ~capture.on
        /\ IF taken THEN tim' = t /\ hal' = hal
           ELSE /\ tim' = [t EXCEPT !.out = @ \cup {<<Rising, "P">>, <<Falling, "P">>},
                                    !.irq = @ \cup {Rising, Falling}, !.cen = TRUE]
                /\ hal' = hal \cup Claim(Rising) \cup Claim(Falling)
        /\ capture' = [capture EXCEPT !.configured = TRUE, !.on = ~taken]
        /\ wave' = Unheard
        /\ UNCHANGED <<rig, pwm, isr>>

CaptureOff ==
    /\ MainRuns /\ capture.on
    /\ LET t == [tim EXCEPT !.out = @ \ {<<Rising, "P">>, <<Falling, "P">>},
                            !.irq = @ \ {Rising, Falling}]
       IN  tim' = [t EXCEPT !.cen = @ /\ ~are_all_channels_free(t)]
    /\ hal' = hal \ (Claim(Rising) \cup Claim(Falling))
    /\ capture' = [capture EXCEPT !.on = FALSE]
    /\ wave' = Unheard
    /\ UNCHANGED <<rig, pwm, isr>>

(* The signal changes after a while: the counter goes on, a channel that is on   *)
(* stores it and asks for the interrupt.  `clean` counts the edges in a row     *)
(* that came one at a time and without a turn of the counter.                  *)
Edge(gap) ==
    LET up     == ~wave.level
        c      == IF up THEN Rising ELSE Falling
        top    == IF tim.cnt > tim.arr THEN TimRange - 1 ELSE tim.arr
        cnt    == IF tim.cen THEN (tim.cnt + gap) % (top + 1) ELSE tim.cnt
        caught == <<c, "P">> \in tim.out /\ tim.mode[c] = IF up THEN "rising" ELSE "falling"
        calm   == isr.at = 0 /\ tim.sr = {} /\ tim.cnt + gap <= top /\ ~tim.center
    IN  /\ capture.on /\ wave.edges < rig.edges
        /\ tim' = IF caught THEN [tim EXCEPT !.cnt = cnt, !.ccr[c] = cnt, !.sr = @ \cup {c}]
                            ELSE [tim EXCEPT !.cnt = cnt]
        /\ wave' = [level |-> up, edges |-> wave.edges + 1,
                    since |-> IF up THEN 0 ELSE wave.since + gap,
                    high |-> IF up THEN wave.high ELSE gap,
                    period |-> IF up THEN wave.since + gap ELSE wave.period,
                    clean |-> IF ~calm \/ ~caught THEN 0
                              ELSE IF wave.clean < 3 THEN wave.clean + 1 ELSE 3,
                    fits |-> IF up THEN wave.fits ELSE gap < capture.period]
        /\ UNCHANGED <<rig, hal, pwm, capture, isr>>

(* What TIM_IC_CaptureCallback takes for the counts since the rising edge.       *)
Elapsed(current) == IF current >= capture.rising THEN current - capture.rising
                    ELSE (current + tim.arr + WordRange - 1 - capture.rising) % WordRange

(* Defect: the edge is only remembered when it gave a period.                  *)
CallbackForgets(c) ==
    LET current == tim.ccr[c]  n == Elapsed(current)
    IN  capture' =
          IF c = Rising
          THEN IF n # 0 /\ capture.falling < n
               THEN [capture EXCEPT !.period = n, !.duty = <<capture.falling, n>>, !.rising = current,
                                    !.frequency = (TimClock \div (tim.psc + 1)) \div n]
               ELSE capture
          ELSE IF n < capture.period THEN [capture EXCEPT !.falling = n] ELSE capture

TIM_IC_CaptureCallback(c) ==
    LET current == tim.ccr[c]  n == Elapsed(current)
    IN  capture' =
          IF c = Rising
          THEN [(IF n # 0 /\ capture.falling < n
                 THEN [capture EXCEPT !.period = n, !.duty = <<capture.falling, n>>,
                                      !.frequency = (TimClock \div (tim.psc + 1)) \div n]
                 ELSE capture) EXCEPT !.rising = current]
          ELSE IF n < capture.period THEN [capture EXCEPT !.falling = n] ELSE capture

(* TIM_InterruptCallback goes through the channels; to read one clears its flag, *)
(* and the handler clears it again, with what came in between: it loads the     *)
(* flags and writes them back, and loses what any channel set since.  Captures  *)
(* of TIM1 and TIM8 have a vector of their own, which enable_nvic leaves off.   *)
HasCaptureVector == rig.tim \notin {"TIM1", "TIM8"}

IsrRead ==
    LET waiting == {c \in tim.sr : c > isr.at}
        c == Min(waiting)
    IN  /\ ~isr.reads /\ waiting # {} /\ tim.irq # {} /\ HasCaptureVector
        /\ TIM_IC_CaptureCallback(c)
        /\ tim' = [tim EXCEPT !.sr = @ \ {c}]
        /\ isr' = [at |-> c, reads |-> TRUE, seen |-> {}]
        /\ UNCHANGED <<rig, hal, pwm, wave>>

IsrLoad ==
    /\ isr.reads /\ isr.seen = {}
    /\ isr' = [isr EXCEPT !.seen = tim.sr \cup {isr.at}]
    /\ UNCHANGED <<rig, tim, hal, pwm, capture, wave>>

IsrClear ==
    LET left == tim.sr \cap (isr.seen \ {isr.at})
    IN  /\ isr.seen # {}
        /\ tim' = [tim EXCEPT !.sr = left]
        /\ isr' = [at |-> IF \E c \in left : c > isr.at THEN isr.at ELSE 0,
                   reads |-> FALSE, seen |-> {}]
        /\ UNCHANGED <<rig, hal, pwm, capture, wave>>

TimNext ==
    \/ \E c \in CompareChannels : \/ TurnOn(c) \/ TurnOff(c) \/ DualOn(c)
                           \/ \E half \in {"P", "N"} : HalfOn(c, half)
                           \/ \E d \in rig.duties : \/ set_duty_cycle(c, d)
                                                \/ \E f \in rig.frequencies : configure(c, f, d)
    \/ \E f \in rig.frequencies, mode \in {"SPEED", "PRECISION"} : set_timer_frequency(f, mode)
    \/ \E center \in BOOLEAN : set_counting_mode(center)
    \/ \E ns \in rig.dead : set_dead_time(ns)
    \/ \E prescaler \in rig.prescalers : get_input_capture(prescaler)
    \/ CaptureOn \/ CaptureOff \/ IsrRead \/ IsrLoad \/ IsrClear
    \/ \E gap \in Gaps : Edge(gap)

TimSpec == TimInit /\ [][TimNext]_timVars

-----------------------------------------------------------------------------
(* An output that is on is driven: enabled, with the counter running and the main *)
(* gate open, for the share of the period its duty says, to a count and to four   *)
(* parts in FloatRange (a period past 2^24 counts is many counts off), whichever *)
(* object set the period last.  Not so: a channel claimed twice, a half that was *)
(* switched on before the pair was configured, a duty of nothing from configure, *)
(* and a share that does not fit the register (32 bits: nor a full period).      *)
(* A dead time that can be given is given to a step.                          *)
Claimed == {c \in CompareChannels : \E i \in DOMAIN rig.capture : rig.capture[i] = c}
Twice   == (Claimed \cap (rig.pwm \cup rig.dual)) \cup (rig.pwm \cap rig.dual)
Given(dtg) == CASE dtg < 128 -> dtg [] dtg \in 128 .. 191 -> 2 * (dtg - 64)
                [] dtg \in 192 .. 223 -> 8 * (dtg - 160) [] OTHER -> 16 * (dtg - 192)

CanShow(arr, duty) == /\ (arr + 1) * duty * (FloatRange + 4) < 100 * FloatRange * TimRange
                      /\ is_32bit_instance => arr + 1 < TimRange

PwmShowsItsDuty ==
    /\ \A o \in pwm.on : o[1] \notin Twice =>
          /\ tim.cen /\ (is_break_instance => tim.moe)
          /\ o[1] \notin pwm.early => o \in tim.out /\ tim.mode[o[1]] = "pwm"
    /\ \A c \in (rig.pwm \cup rig.dual) \ Twice :
          /\ pwm.duty[c] \in 1 .. 100 /\ CanShow(tim.arr, pwm.duty[c]) =>
                IsShare(tim.ccr[c], (tim.arr + 1) * pwm.duty[c])
          /\ pwm.duty[c] = 0 /\ c \notin pwm.silent => tim.ccr[c] = 0
    /\ pwm.dead <= 1008 * ClockPeriod =>
          /\ Given(tim.dtg) * ClockPeriod <= pwm.dead + 8 * ClockPeriod
          /\ pwm.dead < (Given(tim.dtg) + 16) * ClockPeriod

(* After a rising, a falling and a rising edge that were heard one at a time and  *)
(* without a turn of the counter, what is read is the signal: its period, and,   *)
(* of a pulse shorter than the period before, its duty and frequency.  A capture *)
(* that was refused holds nothing.                                            *)
Heard == /\ capture.on /\ Claimed \cap Twice = {} /\ isr.at = 0 /\ tim.sr = {}
         /\ wave.clean = 3 /\ wave.level /\ wave.fits

CaptureReadsTheSignal ==
    /\ Heard =>
          /\ capture.period = wave.period /\ capture.duty = <<wave.high, wave.period>>
          /\ TimClock \div (tim.psc + 1) \in capture.frequency * wave.period
                                           .. (capture.frequency + 1) * wave.period - 1
    /\ ~capture.on => tim.irq = {} /\ hal \subseteq pwm.on /\ tim.out \subseteq pwm.on
===============================================================================
