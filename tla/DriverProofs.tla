------------------------------ MODULE DriverProofs ------------------------------
(***************************************************************************)
(* The safety of the drivers that work behind a caller's back, one after   *)
(* the other since they share no state: SPI, the SD card, SNTP, MDMA, the  *)
(* timers.                                                                 *)
(***************************************************************************)
EXTENDS SpiDriver, SdCard, Sntp, Mdma, TimerDriver, WellFoundedInduction, SequenceTheorems,
        FiniteSetTheorems, TLAPS

-----------------------------------------------------------------------------
(* SPI                                                                     *)

Spis == DOMAIN SpiPeers
Peripheral == [state : {"READY", "RESET", "BUSY"}, flag : SpiCallers \cup {NoOne},
               by : SpiCallers \cup {NoOne}, aborted : BOOLEAN, errors : Nat, selected : BOOLEAN]

SpiTypeOK ==
  /\ spi \in [Spis -> Peripheral]
  /\ spiCall \in [spi : Spis, caller : SpiCallers] \cup {NoCall}
  /\ spiFlag \in [SpiCallers -> BOOLEAN]
  /\ spiOp \in [SpiCallers -> {"none", "started", "done"}]
  /\ spiCrossed \subseteq SpiCallers

(* A transfer is one caller's, and runs exactly while the HAL says so.     *)
OneTransferEach ==
  /\ \A s \in Spis : spi[s].by # NoOne <=> spi[s].state = "BUSY"
  /\ \A s, t \in Spis : spi[s].by = spi[t].by /\ spi[s].by # NoOne => s = t

(* The flag an interrupt would set under a transfer is its caller's, or    *)
(* was crossed: nobody's flag is left to speak of another's transfer.      *)
FlagsOfTransfers ==
  \A s \in Spis : spi[s].by # NoOne /\ spi[s].flag \notin spiCrossed \cup {NoOne}
                     => spi[s].flag = spi[s].by

(* Between the two halves of a call its flag is in place, and nothing runs *)
(* there, unless the call crossed another's transfer.                      *)
CallUnderWay ==
  spiCall # NoCall =>
    /\ spiOp[spiCall.caller] # "started"
    /\ spi[spiCall.spi].flag \in {spiCall.caller, NoOne}
    /\ spiCall.caller \notin spiCrossed =>
         /\ ~spiFlag[spiCall.caller]
         /\ spi[spiCall.spi].flag = spiCall.caller /\ spi[spiCall.spi].by = NoOne

SpiInv ==
  /\ SpiTypeOK
  /\ OneTransferEach
  /\ FlagsOfTransfers
  /\ CallUnderWay
  /\ SpiFlagTellsTheTruth
LEMMA SpiInvHoldsInitially == SpiInit => SpiInv
  <1> SUFFICES ASSUME SpiInit PROVE SpiInv
    OBVIOUS
  <1>1. PICK st \in {"READY", "RESET"} :
          spi = [s \in Spis |-> [state |-> st, flag |-> NoOne, by |-> NoOne,
                                 aborted |-> FALSE, errors |-> 0, selected |-> TRUE]]
    BY DEF SpiInit, Spis
  <1>2. SpiTypeOK
    BY <1>1 DEF SpiInit, SpiTypeOK, Peripheral
  <1>3. \A s \in Spis : spi[s].by = NoOne /\ spi[s].state # "BUSY"
    BY <1>1
  <1>4. DOMAIN spi = Spis
    BY <1>1
  <1> QED
    BY <1>2, <1>3, <1>4, CallersAssumption
    DEF SpiInit, SpiInv, OneTransferEach, FlagsOfTransfers, CallUnderWay, SpiFlagTellsTheTruth

(* What a step needs of a peripheral that only changed in one place.       *)
LEMMA StartCallKeepsSpiInv ==
  ASSUME NEW s \in Spis, NEW c \in SpiCallers, NEW bytes, SpiInv, StartCall(s, c, bytes)
  PROVE  SpiInv'
  <1> USE DEF SpiInv
  <1>1. /\ spiCall = NoCall /\ spiOp[c] # "started"
        /\ spi' = [spi EXCEPT ![s].flag = c]
        /\ spiFlag' = [spiFlag EXCEPT ![c] = FALSE]
        /\ spiCrossed' = Crossing(s, c)
        /\ spiOp' = [spiOp EXCEPT ![c] = "none"]
        /\ spiCall' \in {[spi |-> s, caller |-> c], NoCall}
    BY DEF StartCall
  <1>2. SpiTypeOK'
    <2>1. spi' \in [Spis -> Peripheral]
      BY <1>1 DEF SpiTypeOK, Peripheral
    <2>2. Crossing(s, c) \subseteq SpiCallers
      <3>1. spi[s].by \in SpiCallers \cup {NoOne}
        BY DEF SpiTypeOK, Peripheral
      <3> QED
        BY <3>1 DEF SpiTypeOK, Crossing
    <2> QED
      BY <1>1, <2>1, <2>2 DEF SpiTypeOK
  <1>3. \A t \in Spis : /\ spi'[t].by = spi[t].by /\ spi'[t].state = spi[t].state
                        /\ spi'[t].flag = IF t = s THEN c ELSE spi[t].flag
    BY <1>1 DEF SpiTypeOK, Peripheral
  <1>4. OneTransferEach'
    BY <1>3 DEF OneTransferEach
  <1>5. \A t \in Spis : spi[t].by # c
    BY <1>1 DEF SpiFlagTellsTheTruth, SpiTypeOK
  <1>6. DOMAIN spi = Spis /\ DOMAIN spi' = Spis
    BY <1>1 DEF SpiTypeOK
  <1>7. c # NoOne
    BY CallersAssumption
  <1>8. CASE spi[s].by # NoOne
    <2>1. spiCrossed' = spiCrossed \cup {c, spi[s].by}
      BY <1>1, <1>8 DEF Crossing
    <2>2. FlagsOfTransfers'
      BY <1>3, <2>1 DEF FlagsOfTransfers
    <2>3. CallUnderWay'
      BY <1>1, <1>3, <2>1, <1>2 DEF CallUnderWay, SpiTypeOK
    <2>4. SpiFlagTellsTheTruth'
      <3>1. (\A d \in SpiCallers \ spiCrossed : spiFlag[d] => spiOp[d] = "done")'
        BY <1>1, <2>1 DEF SpiFlagTellsTheTruth, SpiTypeOK
      <3>2. (\A t \in DOMAIN spi : spi[t].by \notin spiCrossed \cup {NoOne} => spi[t].flag = spi[t].by)'
        BY <1>3, <1>6, <2>1 DEF SpiFlagTellsTheTruth
      <3>3. (\A d \in SpiCallers : spiOp[d] = "started" <=> \E t \in DOMAIN spi : spi[t].by = d)'
        BY <1>1, <1>3, <1>5, <1>6 DEF SpiFlagTellsTheTruth, SpiTypeOK
      <3> QED
        BY <3>1, <3>2, <3>3 DEF SpiFlagTellsTheTruth
    <2> QED
      BY <1>2, <1>4, <2>2, <2>3, <2>4
  <1>9. CASE spi[s].by = NoOne
    <2>1. /\ spiCrossed' \in {spiCrossed, spiCrossed \ {c}}
          /\ (\E t \in Spis : spi[t].by # NoOne /\ spi[t].flag = c) => spiCrossed' = spiCrossed
          /\ c \in spiCrossed' => \E t \in Spis : spi[t].by # NoOne /\ spi[t].flag = c
      BY <1>1, <1>6, <1>9 DEF Crossing
    <2>2. FlagsOfTransfers'
      BY <1>3, <1>9, <2>1 DEF FlagsOfTransfers
    <2>3. CallUnderWay'
      BY <1>1, <1>3, <1>9, <2>1, <1>2 DEF CallUnderWay, SpiTypeOK
    <2>4. SpiFlagTellsTheTruth'
      <3>1. (\A d \in SpiCallers \ spiCrossed : spiFlag[d] => spiOp[d] = "done")'
        BY <1>1, <2>1 DEF SpiFlagTellsTheTruth, SpiTypeOK
      <3>2. (\A t \in DOMAIN spi : spi[t].by \notin spiCrossed \cup {NoOne} => spi[t].flag = spi[t].by)'
        BY <1>3, <1>5, <1>6, <1>9, <2>1 DEF SpiFlagTellsTheTruth
      <3>3. (\A d \in SpiCallers : spiOp[d] = "started" <=> \E t \in DOMAIN spi : spi[t].by = d)'
        BY <1>1, <1>3, <1>5, <1>6 DEF SpiFlagTellsTheTruth, SpiTypeOK
      <3> QED
        BY <3>1, <3>2, <3>3 DEF SpiFlagTellsTheTruth
    <2> QED
      BY <1>2, <1>4, <2>2, <2>3, <2>4
  <1> QED
    BY <1>8, <1>9

(* The HAL starts a transfer only on a peripheral that is ready: nobody's. *)
LEMMA HalStartKeepsSpiInv ==
  ASSUME SpiInv, HalStart
  PROVE  SpiInv'
  <1> USE DEF SpiInv
  <1>1. PICK s, c : s = spiCall.spi /\ c = spiCall.caller
    OBVIOUS
  <1>2. /\ s \in Spis /\ c \in SpiCallers
        /\ spiCall' = NoCall /\ spiFlag' = spiFlag /\ spiCrossed' = spiCrossed
        /\ spiOp[c] # "started"
        /\ spi[s].flag \in {c, NoOne}
        /\ c \notin spiCrossed => ~spiFlag[c] /\ spi[s].flag = c /\ spi[s].by = NoOne
    BY <1>1 DEF HalStart, SpiTypeOK, CallUnderWay
  <1>3. PICK status \in HalAnswers(s) :
          /\ spiOp' = [spiOp EXCEPT ![c] = Answer(status, "started")]
          /\ spi' = IF status = "OK" THEN [spi EXCEPT ![s].state = "BUSY", ![s].by = c] ELSE spi
    BY <1>1 DEF HalStart
  <1>4. DOMAIN spi = Spis /\ DOMAIN spi' = Spis
    BY <1>3 DEF SpiTypeOK
  <1>5. c # NoOne
    BY <1>2, CallersAssumption
  <1>6. \A t \in Spis : spi[t].by # c
    BY <1>2, <1>4 DEF SpiFlagTellsTheTruth
  <1>7. CASE status = "OK"
    <2>1. spi[s].state = "READY"
      BY <1>3, <1>7 DEF HalAnswers
    <2>2. spi[s].by = NoOne
      BY <1>2, <2>1 DEF OneTransferEach
    <2>3. spiOp' = [spiOp EXCEPT ![c] = "started"]
      BY <1>3, <1>7 DEF Answer
    <2>4. spi' = [spi EXCEPT ![s].state = "BUSY", ![s].by = c]
      BY <1>3, <1>7
    <2>5. SpiTypeOK'
      <3>1. spi \in [Spis -> Peripheral] /\ spi[s] \in Peripheral
        BY <1>2 DEF SpiTypeOK
      <3>2. spi'[s] = [spi[s] EXCEPT !.state = "BUSY", !.by = c]
        BY <1>2, <2>4, <3>1
      <3>3. spi'[s] \in Peripheral
        BY <1>2, <3>1, <3>2 DEF Peripheral
      <3>4. spi' \in [Spis -> Peripheral]
        BY <2>4, <3>1, <3>3
      <3> QED
        BY <1>2, <2>3, <3>4 DEF SpiTypeOK
    <2>6. \A t \in Spis : /\ spi'[t].flag = spi[t].flag
                          /\ spi'[t].by = IF t = s THEN c ELSE spi[t].by
                          /\ spi'[t].state = IF t = s THEN "BUSY" ELSE spi[t].state
      BY <1>2, <2>4, <2>5 DEF SpiTypeOK, Peripheral
    <2>7. OneTransferEach'
      BY <1>5, <1>6, <2>6 DEF OneTransferEach
    <2>8. FlagsOfTransfers'
      BY <1>2, <2>6 DEF FlagsOfTransfers
    <2>9. CallUnderWay'
      BY <1>2 DEF CallUnderWay
    <2>10. SpiFlagTellsTheTruth'
      <3>1. (\A d \in SpiCallers \ spiCrossed : spiFlag[d] => spiOp[d] = "done")'
        <4> SUFFICES ASSUME NEW d \in SpiCallers, d \notin spiCrossed, spiFlag[d]
                     PROVE  spiOp'[d] = "done"
          BY <1>2
        <4>1. spiOp[d] = "done"
          BY DEF SpiFlagTellsTheTruth
        <4>2. CASE d # c
          BY <2>3, <4>1, <4>2 DEF SpiTypeOK
        <4>3. CASE d = c
          BY <1>2, <4>3
        <4> QED
          BY <4>2, <4>3
      <3>2. (\A t \in DOMAIN spi : spi[t].by \notin spiCrossed \cup {NoOne} => spi[t].flag = spi[t].by)'
        BY <1>2, <1>4, <2>6 DEF SpiFlagTellsTheTruth
      <3>3. (\A d \in SpiCallers : spiOp[d] = "started" <=> \E t \in DOMAIN spi : spi[t].by = d)'
        <4>1. \A d \in SpiCallers : spiOp'[d] = "started" <=> d = c \/ spiOp[d] = "started"
          BY <1>2, <2>3 DEF SpiTypeOK
        <4>2. \A d \in SpiCallers : (\E t \in Spis : spi'[t].by = d) <=> d = c \/ \E t \in Spis : spi[t].by = d
          BY <1>2, <1>5, <2>2, <2>6, CallersAssumption
        <4> QED
          BY <1>4, <4>1, <4>2 DEF SpiFlagTellsTheTruth
      <3> QED
        BY <3>1, <3>2, <3>3 DEF SpiFlagTellsTheTruth
    <2> QED
      BY <2>5, <2>7, <2>8, <2>9, <2>10
  <1>8. CASE status # "OK"
    <2>1. spi' = spi /\ spiOp' = [spiOp EXCEPT ![c] = "none"]
      BY <1>3, <1>8 DEF Answer
    <2>2. SpiFlagTellsTheTruth'
      BY <1>2, <1>6, <1>4, <2>1 DEF SpiFlagTellsTheTruth, SpiTypeOK
    <2> QED
      BY <1>2, <2>1, <2>2 DEF SpiTypeOK, OneTransferEach, FlagsOfTransfers, CallUnderWay
  <1> QED
    BY <1>7, <1>8
LEMMA BlockingKeepsSpiInv ==
  ASSUME NEW s \in Spis, NEW c \in SpiCallers, NEW bytes, SpiInv, Blocking(s, c, bytes)
  PROVE  SpiInv'
  <1> USE DEF SpiInv
  <1>1. PICK what \in {"none", "done"} : spiOp' = [spiOp EXCEPT ![c] = what]
    BY DEF Blocking, Answer
  <1>2. /\ spiCall = NoCall /\ spiOp[c] # "started"
        /\ spiFlag' = [spiFlag EXCEPT ![c] = FALSE]
        /\ spi' = spi /\ spiCall' = spiCall /\ spiCrossed' = spiCrossed
    BY DEF Blocking
  <1>3. SpiTypeOK'
    BY <1>1, <1>2 DEF SpiTypeOK
  <1>4. SpiFlagTellsTheTruth'
    BY <1>1, <1>2 DEF SpiFlagTellsTheTruth, SpiTypeOK
  <1> QED
    BY <1>2, <1>3, <1>4 DEF OneTransferEach, FlagsOfTransfers, CallUnderWay

(* A transfer ends, well or not: its peripheral is nobody's, and the       *)
(* caller's last call is no longer started.                                *)
Ends(s, what) ==
  /\ \A t \in Spis \ {s} : spi'[t] = spi[t]
  /\ spi'[s].by = NoOne /\ spi'[s].flag = NoOne /\ spi'[s].state # "BUSY"
  /\ spi' \in [Spis -> Peripheral]
  /\ spiOp' = Over(s, what)
  /\ spiCall' = spiCall /\ spiCrossed' = spiCrossed

LEMMA EndKeepsSpiInv ==
  ASSUME NEW s \in Spis, NEW what \in {"none", "done"}, SpiInv, Ends(s, what),
         spi[s].by # NoOne \/ spiCall = NoCall,
         \/ spiFlag' = spiFlag
         \/ /\ what = "done" /\ spi[s].by # NoOne
            /\ spiFlag' = IF spi[s].flag = NoOne THEN spiFlag ELSE [spiFlag EXCEPT ![spi[s].flag] = TRUE]
  PROVE  SpiInv'
  <1> USE DEF SpiInv
  <1>1. PICK b, f : b = spi[s].by /\ f = spi[s].flag
    OBVIOUS
  <1>2. b \in SpiCallers \cup {NoOne} /\ f \in SpiCallers \cup {NoOne}
    BY <1>1 DEF SpiTypeOK, Peripheral
  <1>3. DOMAIN spi = Spis /\ DOMAIN spi' = Spis
    BY DEF SpiTypeOK, Ends
  <1>4. spiOp' = IF b = NoOne THEN spiOp ELSE [spiOp EXCEPT ![b] = what]
    BY <1>1 DEF Ends, Over
  <1>5. \A t \in Spis : /\ spi'[t].by = IF t = s THEN NoOne ELSE spi[t].by
                        /\ spi'[t].flag = IF t = s THEN NoOne ELSE spi[t].flag
                        /\ t # s => spi'[t].state = spi[t].state
    BY DEF Ends
  <1>6. \/ spiFlag' = spiFlag
        \/ /\ what = "done" /\ b # NoOne
           /\ spiFlag' = IF f = NoOne THEN spiFlag ELSE [spiFlag EXCEPT ![f] = TRUE]
    BY <1>1
  <1>7. SpiTypeOK'
    BY <1>2, <1>4, <1>6 DEF SpiTypeOK, Ends
  <1>8. OneTransferEach'
    BY <1>5 DEF OneTransferEach, Ends
  <1>9. FlagsOfTransfers'
    BY <1>5 DEF FlagsOfTransfers, Ends
  <1>10. b # NoOne => spiOp[b] = "started" /\ (f \notin spiCrossed \cup {NoOne} => f = b)
    BY <1>1, <1>2, <1>3 DEF SpiFlagTellsTheTruth, FlagsOfTransfers
  <1>11. CallUnderWay'
    <2> SUFFICES ASSUME spiCall # NoCall PROVE CallUnderWay'
      BY DEF Ends, CallUnderWay
    <2>1. PICK u, c : u = spiCall.spi /\ c = spiCall.caller
      OBVIOUS
    <2>2. /\ u \in Spis /\ c \in SpiCallers /\ spiOp[c] # "started"
          /\ spi[u].flag \in {c, NoOne}
          /\ c \notin spiCrossed => ~spiFlag[c] /\ spi[u].flag = c /\ spi[u].by = NoOne
      BY <2>1 DEF CallUnderWay, SpiTypeOK
    <2>3. spiOp'[c] # "started"
      BY <1>2, <1>4, <2>2 DEF SpiTypeOK
    <2>4. spi'[u].flag \in {c, NoOne}
      BY <1>5, <2>2
    <2>5. ASSUME c \notin spiCrossed
          PROVE  ~spiFlag'[c] /\ spi'[u].flag = c /\ spi'[u].by = NoOne
      <3>1. u # s /\ f # c
        BY <1>1, <1>10, <2>2, <2>5, CallersAssumption
      <3>2. spi'[u].flag = c /\ spi'[u].by = NoOne
        BY <1>5, <2>2, <2>5, <3>1
      <3>3. ~spiFlag'[c]
        BY <1>2, <1>6, <2>2, <2>5, <3>1 DEF SpiTypeOK
      <3> QED
        BY <3>2, <3>3
    <2> QED
      BY <2>1, <2>3, <2>4, <2>5 DEF CallUnderWay, Ends
  <1>12. SpiFlagTellsTheTruth'
    <2>1. (\A d \in SpiCallers \ spiCrossed : spiFlag[d] => spiOp[d] = "done")'
      <3> SUFFICES ASSUME NEW d \in SpiCallers, d \notin spiCrossed, spiFlag'[d]
                   PROVE  spiOp'[d] = "done"
        BY DEF Ends
      <3>1. spiFlag[d] => spiOp[d] = "done" /\ d # b
        BY <1>10, <1>2, CallersAssumption DEF SpiFlagTellsTheTruth
      <3>2. CASE spiFlag[d]
        BY <1>2, <1>4, <3>1, <3>2 DEF SpiTypeOK
      <3>3. CASE ~spiFlag[d]
        <4>1. what = "done" /\ b # NoOne /\ f = d
          BY <1>2, <1>6, <3>3 DEF SpiTypeOK
        <4>2. d = b
          BY <1>10, <4>1, CallersAssumption
        <4> QED
          BY <1>4, <4>1, <4>2 DEF SpiTypeOK
      <3> QED
        BY <3>2, <3>3
    <2>2. (\A t \in DOMAIN spi : spi[t].by \notin spiCrossed \cup {NoOne} => spi[t].flag = spi[t].by)'
      BY <1>3, <1>5 DEF SpiFlagTellsTheTruth, Ends
    <2>3. (\A d \in SpiCallers : spiOp[d] = "started" <=> \E t \in DOMAIN spi : spi[t].by = d)'
      <3>1. \A d \in SpiCallers : spiOp'[d] = "started" <=> d # b /\ spiOp[d] = "started"
        BY <1>2, <1>4, CallersAssumption DEF SpiTypeOK
      <3>2. \A d \in SpiCallers : (\E t \in Spis : spi'[t].by = d) <=> d # b /\ \E t \in Spis : spi[t].by = d
        BY <1>1, <1>5, CallersAssumption DEF OneTransferEach
      <3> QED
        BY <1>3, <3>1, <3>2 DEF SpiFlagTellsTheTruth
    <2> QED
      BY <2>1, <2>2, <2>3 DEF SpiFlagTellsTheTruth
  <1> QED
    BY <1>7, <1>8, <1>9, <1>11, <1>12

(* Both ways a transfer is given up.                                       *)
LEMMA RecoveryKeepsSpiInv ==
  ASSUME NEW s \in Spis, SpiInv, AbortAndRecover(s) \/ ErrorCallback(s)
  PROVE  SpiInv'
  <1>1. PICK ok \in BOOLEAN : spi' = Recovered(s, ok)
    BY DEF AbortAndRecover, ErrorCallback
  <1>2. spi \in [Spis -> Peripheral]
    BY DEF SpiInv, SpiTypeOK
  <1>3. spi'[s] = [spi[s] EXCEPT !.state = IF ok THEN "READY" ELSE "RESET", !.flag = NoOne,
                                 !.by = NoOne, !.aborted = TRUE, !.errors = spi[s].errors + 1]
    BY <1>1, <1>2 DEF Recovered, Peripheral
  <1>4. spi' \in [Spis -> Peripheral] /\ \A t \in Spis \ {s} : spi'[t] = spi[t]
    BY <1>1, <1>2 DEF Recovered, Peripheral
  <1>5. spi'[s].by = NoOne /\ spi'[s].flag = NoOne /\ spi'[s].state # "BUSY"
    BY <1>2, <1>3 DEF Peripheral
  <1>8. Ends(s, "none")
    BY <1>4, <1>5 DEF Ends, AbortAndRecover, ErrorCallback
  <1>9. spiFlag' = spiFlag /\ (spi[s].by # NoOne \/ spiCall = NoCall)
    BY DEF AbortAndRecover, ErrorCallback, SpiInv, OneTransferEach
  <1> QED
    BY <1>8, <1>9, EndKeepsSpiInv

LEMMA CompletionKeepsSpiInv ==
  ASSUME NEW s \in Spis, SpiInv, TxCpltCallback(s)
  PROVE  SpiInv'
  <1>1. spi \in [Spis -> Peripheral] /\ spi[s].state = "BUSY"
    BY DEF SpiInv, SpiTypeOK, TxCpltCallback
  <1>2. spi' = [spi EXCEPT ![s].state = "READY", ![s].flag = NoOne, ![s].by = NoOne]
    BY DEF TxCpltCallback
  <1>3. spi'[s] = [spi[s] EXCEPT !.state = "READY", !.flag = NoOne, !.by = NoOne]
    BY <1>1, <1>2
  <1>4. spi[s] \in Peripheral
    BY <1>1
  <1>5. spi'[s] \in Peripheral /\ spi'[s].by = NoOne /\ spi'[s].flag = NoOne /\ spi'[s].state # "BUSY"
    BY <1>3, <1>4 DEF Peripheral
  <1>6. spi' \in [Spis -> Peripheral] /\ \A t \in Spis \ {s} : spi'[t] = spi[t]
    BY <1>1, <1>2, <1>5
  <1>7. Ends(s, "done")
    BY <1>5, <1>6 DEF Ends, TxCpltCallback
  <1>8. spi[s].by # NoOne
    BY <1>1 DEF SpiInv, OneTransferEach
  <1> QED
    BY <1>7, <1>8, EndKeepsSpiInv DEF TxCpltCallback

(* What is left changes neither a transfer nor a flag.                     *)
LEMMA SettingsKeepSpiInv ==
  ASSUME NEW s \in Spis, NEW selected \in BOOLEAN, SpiInv,
         clear_abort_flag(s) \/ set_software_nss(s, selected)
  PROVE  SpiInv'
  <1>1. PICK a \in BOOLEAN, n \in BOOLEAN :
          spi' = [spi EXCEPT ![s] = [spi[s] EXCEPT !.aborted = a, !.selected = n]]
    <2>1. spi \in [Spis -> Peripheral] /\ spi[s] \in Peripheral
      BY DEF SpiInv, SpiTypeOK
    <2>2. CASE clear_abort_flag(s)
      <3>1. spi' = [spi EXCEPT ![s] = [spi[s] EXCEPT !.aborted = FALSE]]
        BY <2>2 DEF clear_abort_flag
      <3>2. [spi[s] EXCEPT !.aborted = FALSE] = [spi[s] EXCEPT !.aborted = FALSE, !.selected = spi[s].selected]
        BY <2>1 DEF Peripheral
      <3>3. spi[s].selected \in BOOLEAN
        BY <2>1 DEF Peripheral
      <3> QED
        BY <3>1, <3>2, <3>3
    <2>3. CASE set_software_nss(s, selected)
      <3>1. spi' = [spi EXCEPT ![s] = [spi[s] EXCEPT !.selected = selected]]
        BY <2>3 DEF set_software_nss
      <3>2. [spi[s] EXCEPT !.selected = selected] = [spi[s] EXCEPT !.aborted = spi[s].aborted, !.selected = selected]
        BY <2>1 DEF Peripheral
      <3>3. spi[s].aborted \in BOOLEAN
        BY <2>1 DEF Peripheral
      <3> QED
        BY <3>1, <3>2, <3>3
    <2> QED
      BY <2>2, <2>3
  <1>2. spi \in [Spis -> Peripheral] /\ spi[s] \in Peripheral
    BY DEF SpiInv, SpiTypeOK
  <1>3. spi'[s] \in Peripheral /\ spi'[s].by = spi[s].by /\ spi'[s].flag = spi[s].flag /\ spi'[s].state = spi[s].state
    <2>1. spi'[s] = [spi[s] EXCEPT !.aborted = a, !.selected = n]
      BY <1>1, <1>2
    <2> QED
      BY <1>2, <2>1 DEF Peripheral
  <1>4. spi' \in [Spis -> Peripheral] /\ \A t \in Spis \ {s} : spi'[t] = spi[t]
    BY <1>1, <1>2, <1>3
  <1>5. \A t \in Spis : spi'[t].by = spi[t].by /\ spi'[t].flag = spi[t].flag /\ spi'[t].state = spi[t].state
    BY <1>3, <1>4
  <1>6. DOMAIN spi = Spis /\ DOMAIN spi' = Spis
    BY <1>2, <1>4
  <1>7. UNCHANGED <<spiCall, spiFlag, spiOp, spiCrossed>>
    BY DEF clear_abort_flag, set_software_nss
  <1>8. SpiTypeOK' /\ OneTransferEach' /\ FlagsOfTransfers'
    BY <1>4, <1>5, <1>7 DEF SpiInv, SpiTypeOK, OneTransferEach, FlagsOfTransfers
  <1>9. CallUnderWay' /\ SpiFlagTellsTheTruth'
    BY <1>5, <1>6, <1>7 DEF SpiInv, SpiTypeOK, CallUnderWay, SpiFlagTellsTheTruth
  <1> QED
    BY <1>8, <1>9 DEF SpiInv

(* A flag that is set speaks of a transfer that ended, and a transfer      *)
(* under way will set its own caller's, unless a call crossed another's:   *)
(* for any number of peripherals and callers, at whatever step of a call   *)
(* the interrupt of the transfer before comes in.                          *)
THEOREM FlagsSpeakTheTruth == SpiSpec => []SpiFlagTellsTheTruth
  <1>1. SpiInv /\ [SpiNext]_spiVars => SpiInv'
    <2> SUFFICES ASSUME SpiInv, [SpiNext]_spiVars PROVE SpiInv'
      OBVIOUS
    <2>1. ASSUME NEW s \in Spis, NEW c \in SpiCallers, NEW bytes \in SpiBytes, NEW rx \in SpiBytes,
                 MasterStart(s, c, bytes) \/ SlaveStart(s, c, bytes) \/ SlaveTransceive(s, c, bytes, rx)
          PROVE  SpiInv'
      BY <2>1, StartCallKeepsSpiInv DEF MasterStart, SlaveStart, SlaveTransceive
    <2>2. ASSUME NEW s \in Spis, NEW c \in SpiCallers, NEW bytes \in SpiBytes, Blocking(s, c, bytes)
          PROVE  SpiInv'
      BY <2>2, BlockingKeepsSpiInv
    <2>3. CASE HalStart
      BY <2>3, HalStartKeepsSpiInv
    <2>4. ASSUME NEW s \in Spis, AbortAndRecover(s) \/ ErrorCallback(s)
          PROVE  SpiInv'
      BY <2>4, RecoveryKeepsSpiInv
    <2>5. ASSUME NEW s \in Spis, TxCpltCallback(s)
          PROVE  SpiInv'
      BY <2>5, CompletionKeepsSpiInv
    <2>6. ASSUME NEW s \in Spis, NEW selected \in BOOLEAN, clear_abort_flag(s) \/ set_software_nss(s, selected)
          PROVE  SpiInv'
      BY <2>6, SettingsKeepSpiInv
    <2>7. CASE UNCHANGED spiVars
      BY <2>7 DEF spiVars, SpiInv, SpiTypeOK, OneTransferEach, FlagsOfTransfers, CallUnderWay,
                  SpiFlagTellsTheTruth
    <2> QED
      BY <2>1, <2>2, <2>3, <2>4, <2>5, <2>6, <2>7 DEF SpiNext, Spis
  <1>2. SpiInv => SpiFlagTellsTheTruth
    BY DEF SpiInv
  <1> QED
    BY SpiInvHoldsInitially, <1>1, <1>2, PTL DEF SpiSpec
-----------------------------------------------------------------------------
(* The SD card                                                             *)

Card == [state : {"RESET", "READY", "BUSY", "PROGRAMMING"}, initialized : BOOLEAN, current : {0, 1},
         idma : {0, 1}, bases : BOOLEAN, blocks : Nat, filled : Nat, flag : BOOLEAN,
         card : {"TRANSFER", "PROGRAMMING"}, present : BOOLEAN, protected : BOOLEAN]

(* The property is inductive once the fields are what they are.            *)
SdInv ==
  /\ sd \in Card
  /\ sdDone \in BOOLEAN
  /\ SdBuffersAreApart

(* One step for each operation: what it leaves of the controller.          *)
LEMMA SdStepKeepsSdInv ==
  ASSUME SdInv, SdNext
  PROVE  SdInv'
  <1> USE DEF SdInv
  <1>1. /\ sd.state = "BUSY" /\ sd.blocks <= SdBlocks => sd.idma # sd.current
        /\ sdLast = "waits" => sd.initialized /\ sd.state = "BUSY"
        /\ sdLast = "waits" /\ sdCall = NoRequest => ~sdDone
    BY DEF SdBuffersAreApart, is_busy, get_current_buffer
  <1>2. ASSUME /\ sd' \in Card /\ sdDone' \in BOOLEAN
               /\ sd'.state = "BUSY" /\ sd'.blocks <= SdBlocks => sd'.idma # sd'.current
               /\ sdLast' = "waits" => sd'.initialized /\ sd'.state = "BUSY"
               /\ sdLast' = "waits" /\ sdCall' = NoRequest => ~sdDone'
        PROVE  SdInv'
    BY <1>2 DEF SdBuffersAreApart, is_busy, get_current_buffer
  <1>3. ASSUME NEW step \in Steps \cup {"none"}, init_card(step)
        PROVE  SdInv'
    <2>1. sdCall' = sdCall /\ sdDone' = sdDone
          /\ sdLast' = IF sd.state = "BUSY" /\ sd'.state # "BUSY" THEN "cut" ELSE sdLast
      BY <1>3 DEF init_card, CutShort
    <2>2. CASE sd' = sd
      BY <1>1, <1>2, <2>1, <2>2
    <2>3. CASE sd' # sd
      <3>1. PICK st \in {"READY", "PROGRAMMING"}, ba \in BOOLEAN, ini \in BOOLEAN :
              sd' = [sd EXCEPT !.state = st, !.bases = ba, !.initialized = ini]
        <4>1. PICK ba : ba = (step \in {"speed", "none"} \/ (sd.bases /\ sd.state # "RESET"))
          OBVIOUS
        <4>2. ba \in BOOLEAN
          BY <4>1
        <4>3. PICK st \in {"READY", "PROGRAMMING"} : st = IF step = "init" THEN "PROGRAMMING" ELSE "READY"
          OBVIOUS
        <4>4. PICK ini \in BOOLEAN : ini = (step = "none")
          OBVIOUS
        <4>5. sd' = [sd EXCEPT !.state = st, !.bases = ba, !.initialized = ini]
          BY <1>3, <2>3, <4>1, <4>3, <4>4 DEF init_card
        <4> QED
          BY <4>2, <4>5
      <3>2. sd' \in Card /\ sd'.state # "BUSY"
        BY <3>1 DEF Card
      <3> QED
        BY <1>1, <1>2, <2>1, <3>2
    <2> QED
      BY <2>2, <2>3
  <1>4. ASSUME NEW ok \in BOOLEAN, deinit_card(ok)
        PROVE  SdInv'
    <2>1. sdCall' = sdCall /\ sdDone' = sdDone
          /\ sdLast' = IF sd.state = "BUSY" /\ sd'.state # "BUSY" THEN "cut" ELSE sdLast
      BY <1>4 DEF deinit_card, CutShort
    <2>2. CASE sd' = sd
      BY <1>1, <1>2, <2>1, <2>2
    <2>3. CASE sd' = [sd EXCEPT !.state = "RESET", !.initialized = FALSE]
      <3>1. sd' \in Card /\ sd'.state # "BUSY"
        BY <2>3 DEF Card
      <3> QED
        BY <1>1, <1>2, <2>1, <3>1
    <2> QED
      BY <1>4, <2>2, <2>3 DEF deinit_card
  <1>5. ASSUME NEW r \in SdRequests, NEW taken \in BOOLEAN, StartBlocks(r, taken)
        PROVE  SdInv'
    <2>1. CASE ~CardReady
      BY <1>1, <1>2, <1>5, <2>1 DEF StartBlocks
    <2>2. CASE CardReady
      <3>1. sd.state # "BUSY" /\ sdCall' = r /\ sdDone' = sdDone /\ sd' = Multi(r, taken)
        BY <1>5, <2>2 DEF StartBlocks, CardReady
      <3>2. r # NoRequest
        BY RequestsAssumption DEF NoRequest
      <3>3. sdLast' = "waits" => Status(r) = "OK" /\ taken /\ sd.initialized
        BY <1>5, <2>2 DEF StartBlocks
      <3>4. CASE Status(r) # "OK"
        BY <1>1, <1>2, <3>1, <3>2, <3>3, <3>4 DEF Multi
      <3>5. CASE Status(r) = "OK"
        <4>1. /\ sd' = [Switched EXCEPT !.state = IF taken THEN "BUSY" ELSE "READY",
                                        !.blocks = r.blocks, !.filled = 0]
              /\ r.blocks \in Nat
          BY <3>1, <3>5, RequestsAssumption DEF Multi
        <4>2. Switched \in Card /\ Switched.idma # Switched.current /\ Switched.initialized = sd.initialized
          <5>1. PICK o \in {0, 1} : o = 1 - sd.current /\ o # sd.current
            BY DEF Card
          <5>2. Switched = [sd EXCEPT !.idma = sd.current, !.current = o]
            BY <5>1 DEF Switched, Other
          <5> QED
            BY <5>1, <5>2 DEF Card
        <4>3. sd' \in Card /\ sd'.idma # sd'.current /\ sd'.initialized = sd.initialized
              /\ sd'.state = IF taken THEN "BUSY" ELSE "READY"
          BY <4>1, <4>2 DEF Card
        <4> QED
          BY <1>2, <3>1, <3>2, <3>3, <4>3
      <3> QED
        BY <3>4, <3>5
    <2> QED
      BY <2>1, <2>2
  <1>6. CASE SetFlag
    <2>1. sd' = [sd EXCEPT !.flag = TRUE] /\ sdDone' = FALSE /\ sdLast' = sdLast
      BY <1>6 DEF SetFlag
    <2>2. /\ sd' \in Card /\ sd'.state = sd.state /\ sd'.idma = sd.idma /\ sd'.current = sd.current
          /\ sd'.initialized = sd.initialized /\ sd'.blocks = sd.blocks
      BY <2>1 DEF Card
    <2> QED
      BY <1>1, <1>2, <2>1, <2>2
  <1>7. CASE DmaComplete
    <2>1. sd' = [sd EXCEPT !.state = "READY", !.flag = FALSE] /\ sdLast' = "done"
      BY <1>7 DEF DmaComplete
    <2>2. sdDone' \in BOOLEAN
      BY <1>7 DEF DmaComplete, Card
    <2>3. sd' \in Card /\ sd'.state # "BUSY"
      BY <2>1 DEF Card
    <2> QED
      BY <1>2, <2>1, <2>2, <2>3
  <1>8. ASSUME NEW what \in {"error", "aborted"}, DmaError(what)
        PROVE  SdInv'
    <2>1. sd' = [sd EXCEPT !.state = "READY"] /\ sdLast' = what /\ sdDone' = sdDone
      BY <1>8 DEF DmaError
    <2>2. sd' \in Card /\ sd'.state # "BUSY"
      BY <2>1 DEF Card
    <2> QED
      BY <1>2, <2>1, <2>2
  <1>9. CASE CardChanges
    <2>1. UNCHANGED <<sdCall, sdDone, sdLast>>
      BY <1>9 DEF CardChanges
    <2>2. /\ sd' \in Card /\ sd'.state = sd.state /\ sd'.idma = sd.idma /\ sd'.current = sd.current
          /\ sd'.initialized = sd.initialized /\ sd'.blocks = sd.blocks
      <3>1. CASE sd' = [sd EXCEPT !.card = IF sd.card = "TRANSFER" THEN "PROGRAMMING" ELSE "TRANSFER"]
        BY <3>1 DEF Card
      <3>2. CASE sd' = [sd EXCEPT !.present = ~sd.present]
        BY <3>2 DEF Card
      <3>3. CASE sd' = [sd EXCEPT !.protected = ~sd.protected]
        BY <3>3 DEF Card
      <3> QED
        BY <1>9, <3>1, <3>2, <3>3 DEF CardChanges
    <2> QED
      BY <1>1, <1>2, <2>1, <2>2
  <1>10. CASE IdmaTurns
    <2>1. /\ UNCHANGED <<sdCall, sdDone, sdLast>>
          /\ sd' = [sd EXCEPT !.idma = Other(sd.idma), !.filled = sd.filled + 1]
          /\ sd.blocks > SdBlocks * (sd.filled + 1)
      BY <1>10 DEF IdmaTurns, Remains
    <2>2. Other(sd.idma) \in {0, 1} /\ sd.blocks \in Nat /\ sd.filled \in Nat
      BY DEF Card, Other
    <2>3. sd.blocks > SdBlocks
      <3>1. PICK m, n, k \in Nat : m = sd.blocks /\ n = sd.filled /\ k = SdBlocks
        BY <2>2, RequestsAssumption
      <3>2. k * (n + 1) = k * n + k /\ k * n \in Nat
        BY <3>1
      <3> QED
        BY <2>1, <3>1, <3>2
    <2>4. /\ sd' \in Card /\ sd'.state = sd.state /\ sd'.blocks = sd.blocks
          /\ sd'.initialized = sd.initialized
      <3>1. PICK o \in {0, 1}, f \in Nat : o = Other(sd.idma) /\ f = sd.filled + 1
        BY <2>2
      <3>2. sd' = [sd EXCEPT !.idma = o, !.filled = f]
        BY <2>1, <3>1
      <3> QED
        BY <3>2 DEF Card
    <2> QED
      BY <1>1, <1>2, <2>1, <2>2, <2>3, <2>4, RequestsAssumption
  <1> QED
    BY <1>3, <1>4, <1>5, <1>6, <1>7, <1>8, <1>9, <1>10 DEF SdNext

(* While a request moves that fits a buffer the CPU is not shown the one that *)
(* the controller uses, after whatever requests failed half-way or were too   *)
(* large; a transfer that was started is busy until it ends, and its flag is  *)
(* not set before.                                                            *)
THEOREM CardBuffersStayApart == SdSpec => []SdBuffersAreApart
  <1>1. SdInit => SdInv
    <2> SUFFICES ASSUME SdInit PROVE SdInv
      OBVIOUS
    <2>1. sd \in Card /\ sd.state # "BUSY" /\ sdDone \in BOOLEAN /\ sdLast # "waits"
      BY DEF SdInit, Card
    <2> QED
      BY <2>1 DEF SdInv, SdBuffersAreApart
  <1>2. SdInv /\ [SdNext]_sdVars => SdInv'
    <2> SUFFICES ASSUME SdInv, [SdNext]_sdVars PROVE SdInv'
      OBVIOUS
    <2>1. CASE UNCHANGED sdVars
      BY <2>1 DEF sdVars, SdInv, SdBuffersAreApart, is_busy, get_current_buffer
    <2> QED
      BY <2>1, SdStepKeepsSdInv
  <1>3. SdInv => SdBuffersAreApart
    BY DEF SdInv
  <1> QED
    BY <1>1, <1>2, <1>3, PTL DEF SdSpec
-----------------------------------------------------------------------------
(* SNTP                                                                    *)

Timeout == [id : TimerIds, calls : {"request", "retry"}]
Clock == [started : BOOLEAN, valid : BOOLEAN, time : Stamps \cup {FACTORY},
          date : Stamps \cup {FACTORY}, shown : Stamps \cup {FACTORY}]

(* The timeouts are the client's own, at most one of them, and it knows it; *)
(* after a kiss of death there is something left of what it started.        *)
OneChain(p, ts, req, next, k, st) ==
  /\ k => ts # {}
  /\ ~k =>
       /\ ~p => ts = {}
       /\ p /\ ~st => ts # {}
       /\ \A t \in ts : t.id \in {req, next}
       /\ \A t, u \in ts : t = u

TheClockIsAnAnswers == rtc.valid => rtc.time = rtc.date /\ rtc.time \in Stamps

SntpInv ==
  /\ pcb \in BOOLEAN /\ kissed \in BOOLEAN /\ starved \in BOOLEAN
  /\ timers \subseteq Timeout
  /\ OneChain(pcb, timers, requestId, nextId, kissed, starved)
  /\ rtc \in Clock
  /\ TheClockIsAnAnswers

(* The least id that is free is one of those that are free.                *)
LEMMA LeastIsAMember ==
  ASSUME NEW F \in SUBSET Nat, F # {}
  PROVE  Min(F) \in F
  <1>1. PICK x \in F : \A y \in F : ~(<<y, x>> \in OpToRel(<, Nat))
    BY NatLessThanWellFounded, WFMin
  <1>2. \A y \in F : x <= y
    <2> SUFFICES ASSUME NEW y \in F, y < x PROVE FALSE
      OBVIOUS
    <2>1. <<y, x>> \in Nat \X Nat
      OBVIOUS
    <2>2. <<y, x>> \in OpToRel(<, Nat)
      BY <2>1 DEF OpToRel
    <2> QED
      BY <1>1, <2>2
  <1> QED
    BY <1>1, <1>2 DEF Min

(* set_timeout adds a timeout with a new id, or adds none and says so.     *)
LEMMA SetTimeoutAnswers ==
  ASSUME NEW ts \in SUBSET Timeout, NEW calls \in {"request", "retry"}, NEW ok \in BOOLEAN
  PROVE  \/ /\ IdOf(ok) = INVALID
            /\ SetTimeout(ts, calls, ok) = ts
         \/ /\ IdOf(ok) \in TimerIds /\ IdOf(ok) # INVALID
            /\ SetTimeout(ts, calls, ok) = ts \cup {[id |-> IdOf(ok), calls |-> calls]}
            /\ [id |-> IdOf(ok), calls |-> calls] \in Timeout
  <1>1. CASE ok /\ Free # {}
    <2>1. Free \subseteq Nat /\ Free \subseteq TimerIds /\ Free # {}
      BY <1>1, IdsAssumption DEF Free
    <2>2. Min(Free) \in TimerIds
      BY <2>1, LeastIsAMember
    <2>3. IdOf(ok) = Min(Free) /\ SetTimeout(ts, calls, ok) = ts \cup {[id |-> Min(Free), calls |-> calls]}
      BY <1>1 DEF IdOf, SetTimeout
    <2> QED
      BY <2>2, <2>3, IdsAssumption DEF Timeout
  <1>2. CASE ~(ok /\ Free # {})
    BY <1>2 DEF IdOf, SetTimeout
  <1> QED
    BY <1>1, <1>2

(* A call that leaves a chain behind, or ends it.                          *)
LEMMA LeaveKeepsTheChain ==
  ASSUME NEW over \in BOOLEAN, NEW ts \in SUBSET Timeout, NEW req, NEW next, NEW none \in BOOLEAN,
         SntpInv, Leave(over, ts, req, next, none),
         pcb /\ ~over /\ ts = {} => none \/ starved,
         ~kissed => /\ \A t \in ts : t.id \in {req, next}
                    /\ \A t, u \in ts : t = u
                    /\ ~pcb => ts = {},
         UNCHANGED rtc \/ (rtc' \in Clock /\ TheClockIsAnAnswers')
  PROVE  SntpInv'
  <1>1. /\ pcb' = (pcb /\ ~over)
        /\ timers' = (IF over THEN Stopped(ts, req, next) ELSE ts)
        /\ requestId' = (IF over THEN INVALID ELSE req)
        /\ nextId' = (IF over THEN INVALID ELSE next)
        /\ starved' = (pcb' /\ (starved \/ none))
        /\ kissed' = (kissed /\ timers' # {})
    BY DEF Leave
  <1>2. pcb \in BOOLEAN /\ kissed \in BOOLEAN /\ starved \in BOOLEAN
    BY DEF SntpInv
  <1>3. pcb' \in BOOLEAN /\ kissed' \in BOOLEAN /\ starved' \in BOOLEAN
    BY <1>1
  <1>4. timers' \subseteq ts
    BY <1>1 DEF Stopped, Cancel
  <1>5. rtc' \in Clock /\ TheClockIsAnAnswers'
    BY DEF SntpInv, TheClockIsAnAnswers
  <1>6. OneChain(pcb', timers', requestId', nextId', kissed', starved')
    <2>1. CASE over
      <3>1. ~pcb' /\ timers' = (IF pcb THEN Cancel(ts, {req, next}) ELSE ts)
        BY <1>1, <2>1 DEF Stopped
      <3>2. CASE kissed
        BY <1>1, <3>1, <3>2 DEF OneChain
      <3>3. CASE ~kissed
        <4>1. timers' = {}
          BY <3>1, <3>3 DEF Cancel
        <4> QED
          BY <1>1, <3>1, <3>3, <4>1 DEF OneChain
      <3> QED
        BY <3>2, <3>3
    <2>2. CASE ~over
      <3>1. timers' = ts /\ requestId' = req /\ nextId' = next /\ pcb' = pcb
        BY <1>1, <1>2, <2>2
      <3>2. starved' = (pcb /\ (starved \/ none)) /\ kissed' = (kissed /\ ts # {})
        BY <1>1, <3>1
      <3>3. CASE kissed
        BY <1>2, <2>2, <3>1, <3>2, <3>3 DEF OneChain
      <3>4. CASE ~kissed
        BY <1>2, <2>2, <3>1, <3>2, <3>4 DEF OneChain
      <3> QED
        BY <3>3, <3>4
    <2> QED
      BY <2>1, <2>2
  <1> QED
    BY <1>3, <1>4, <1>5, <1>6 DEF SntpInv, OneChain
(* A request or a retry after the timeouts ts, of which the client keeps   *)
(* none unless a kiss of death came: a chain of one again.                 *)
LEMMA RequestKeepsSntpInv ==
  ASSUME NEW ts \in SUBSET timers, NEW address \in BOOLEAN, NEW memory \in BOOLEAN, NEW ok \in BOOLEAN,
         SntpInv, pcb \/ kissed, ~kissed => ts = {}, Request(ts, address, memory, ok)
  PROVE  SntpInv'
  <1> DEFINE calls == Asks(address, memory)
             over == requests + 1 > REQUEST_MAX
             after == SetTimeout(ts, calls, ok)
             req == IF calls = "request" THEN IdOf(ok) ELSE requestId
             next == IF calls = "retry" THEN IdOf(ok) ELSE nextId
  <1>1. calls \in {"request", "retry"}
    BY DEF Asks
  <1>2. ts \in SUBSET Timeout
    BY DEF SntpInv
  <1>3. \/ IdOf(ok) = INVALID /\ after = ts
        \/ /\ IdOf(ok) # INVALID /\ after = ts \cup {[id |-> IdOf(ok), calls |-> calls]}
           /\ [id |-> IdOf(ok), calls |-> calls] \in Timeout
    BY <1>1, <1>2, SetTimeoutAnswers
  <1>4. Leave(over, after, req, next, IdOf(ok) = INVALID) /\ UNCHANGED rtc
    BY DEF Request
  <1>5. after \in SUBSET Timeout
    BY <1>2, <1>3
  <1>6. after = {} => IdOf(ok) = INVALID
    BY <1>3
  <1>7. ASSUME ~kissed
        PROVE  /\ \A t \in after : t.id \in {req, next}
               /\ \A t, u \in after : t = u
               /\ pcb
    <2>1. \A t \in after : t = [id |-> IdOf(ok), calls |-> calls]
      BY <1>3, <1>7
    <2>2. IdOf(ok) \in {req, next}
      BY <1>1
    <2> QED
      BY <1>7, <2>1, <2>2
  <1> QED
    <2>1. (IdOf(ok) = INVALID) \in BOOLEAN /\ over \in BOOLEAN
      OBVIOUS
    <2> HIDE DEF calls, over, after, req, next
    <2> QED
      BY <1>4, <1>5, <1>6, <1>7, <2>1, LeaveKeepsTheChain
LEMMA StartKeepsSntpInv ==
  ASSUME NEW address \in BOOLEAN, NEW memory \in BOOLEAN, NEW ok \in BOOLEAN,
         SntpInv, SntpStart(address, memory, ok)
  PROVE  SntpInv'
  <1>1. CASE pcb
    BY <1>1 DEF SntpStart, SntpInv, OneChain, TheClockIsAnAnswers
  <1>2. CASE ~pcb
    <2> DEFINE calls == Asks(address, memory)
    <2>1. calls \in {"request", "retry"}
      BY DEF Asks
    <2>2. PICK new : new = [id |-> IdOf(ok), calls |-> calls]
      OBVIOUS
    <2>3. timers \in SUBSET Timeout
      BY DEF SntpInv
    <2>4. \/ IdOf(ok) = INVALID /\ timers' = timers
          \/ IdOf(ok) # INVALID /\ timers' = timers \cup {new} /\ new \in Timeout
      BY <1>2, <2>1, <2>2, <2>3, SetTimeoutAnswers DEF SntpStart
    <2>5. /\ pcb' = TRUE /\ rtc' = rtc
          /\ starved' = (IdOf(ok) = INVALID)
          /\ kissed' = (timers # {})
          /\ IdOf(ok) \in {requestId', nextId'}
      BY <1>2, <2>1 DEF SntpStart
    <2>6. CASE kissed
      <3>1. kissed' = TRUE /\ timers' # {}
        BY <2>4, <2>5, <2>6 DEF SntpInv, OneChain
      <3> QED
        BY <2>3, <2>4, <2>5, <3>1 DEF SntpInv, OneChain, TheClockIsAnAnswers
    <2>7. CASE ~kissed
      <3>1. timers = {} /\ kissed' = FALSE
        BY <1>2, <2>5, <2>7 DEF SntpInv, OneChain
      <3>2. (IdOf(ok) = INVALID) \in BOOLEAN
        OBVIOUS
      <3>3. new.id = IdOf(ok)
        BY <2>2
      <3>4. \/ IdOf(ok) = INVALID /\ timers' = {}
            \/ IdOf(ok) # INVALID /\ timers' = {new} /\ new \in Timeout
        BY <2>4, <3>1
      <3>5. starved' \in BOOLEAN /\ (starved' <=> IdOf(ok) = INVALID)
        BY <2>5, <3>2
      <3>6. OneChain(pcb', timers', requestId', nextId', kissed', starved')
        BY <2>5, <3>1, <3>3, <3>4, <3>5 DEF OneChain
      <3>7. timers' \subseteq Timeout
        BY <3>4
      <3> QED
        BY <2>5, <3>1, <3>5, <3>6, <3>7 DEF SntpInv, OneChain, TheClockIsAnAnswers
    <2> QED
      BY <2>6, <2>7
  <1> QED
    BY <1>1, <1>2 DEF SntpInv

(* The one timeout of a chain fires, and leaves at most one.               *)
LEMMA FireKeepsSntpInv ==
  ASSUME NEW t \in timers, NEW address \in BOOLEAN, NEW memory \in BOOLEAN, NEW ok \in BOOLEAN,
         SntpInv, Fire(t, address, memory, ok)
  PROVE  SntpInv'
  <1>1. PICK ts : ts = timers \ {t}
    OBVIOUS
  <1>2. ts \in SUBSET timers /\ (pcb \/ kissed) /\ (~kissed => ts = {})
    BY <1>1 DEF SntpInv, OneChain
  <1>3. CASE t.calls = "request"
    BY <1>1, <1>2, <1>3, RequestKeepsSntpInv DEF Fire
  <1>4. CASE t.calls # "request"
    <2>1. PICK after : after = SetTimeout(ts, "request", ok)
      OBVIOUS
    <2>2. ts \in SUBSET Timeout
      BY <1>2 DEF SntpInv
    <2>3. \/ IdOf(ok) = INVALID /\ after = ts
          \/ /\ IdOf(ok) # INVALID /\ after = ts \cup {[id |-> IdOf(ok), calls |-> "request"]}
             /\ [id |-> IdOf(ok), calls |-> "request"] \in Timeout
      BY <2>1, <2>2, SetTimeoutAnswers
    <2>4. Leave(FALSE, after, IdOf(ok), nextId, IdOf(ok) = INVALID) /\ UNCHANGED rtc
      BY <1>1, <1>4, <2>1 DEF Fire
    <2>5. after \in SUBSET Timeout
      BY <2>2, <2>3
    <2>6. after = {} => IdOf(ok) = INVALID
      BY <2>3
    <2>7. ASSUME ~kissed
          PROVE  /\ \A u \in after : u.id \in {IdOf(ok), nextId}
                 /\ \A u, v \in after : u = v
                 /\ pcb
      BY <1>2, <2>3, <2>7
    <2>8. (IdOf(ok) = INVALID) \in BOOLEAN
      OBVIOUS
    <2> QED
      BY <2>4, <2>5, <2>6, <2>7, <2>8, LeaveKeepsTheChain
  <1> QED
    BY <1>3, <1>4

-----------------------------------------------------------------------------
(* The clock that is started has its factory calendar, and is not valid.   *)
LEMMA EnsuredIsAClock ==
  ASSUME NEW ok \in BOOLEAN, SntpInv
  PROVE  /\ Ensured(ok) \in Clock
         /\ Ensured(ok).valid => Ensured(ok) = rtc
  <1>1. rtc \in Clock
    BY DEF SntpInv
  <1>2. CASE rtc.started
    BY <1>1, <1>2 DEF Ensured
  <1>3. CASE ~rtc.started /\ ok
    <2>1. Ensured(ok) = [rtc EXCEPT !.started = TRUE, !.valid = FALSE, !.time = FACTORY, !.date = FACTORY]
      BY <1>1, <1>3 DEF Ensured, Clock
    <2> QED
      BY <1>1, <2>1 DEF Clock
  <1>4. CASE ~rtc.started /\ ~ok
    <2>1. Ensured(ok) = [rtc EXCEPT !.started = FALSE, !.valid = rtc.valid, !.time = rtc.time, !.date = rtc.date]
      BY <1>1, <1>4 DEF Ensured, Clock
    <2>2. Ensured(ok) = rtc
      BY <1>1, <1>4, <2>1 DEF Clock
    <2> QED
      BY <1>1, <2>2
  <1> QED
    BY <1>2, <1>3, <1>4

LEMMA SetRtcIsAClock ==
  ASSUME NEW stamp \in Stamps, NEW started \in BOOLEAN, NEW timeOk \in BOOLEAN, NEW dateOk \in BOOLEAN,
         SntpInv, rtc' = SetRtc(stamp, started, timeOk, dateOk)
  PROVE  rtc' \in Clock /\ TheClockIsAnAnswers'
  <1>1. PICK r : r = Ensured(started)
    OBVIOUS
  <1>2. r \in Clock /\ (r.valid => r = rtc)
    BY <1>1, EnsuredIsAClock
  <1>3. CASE ~r.started
    <2>1. rtc' = r
      BY <1>1, <1>3 DEF SetRtc
    <2> QED
      BY <1>2, <2>1 DEF TheClockIsAnAnswers, SntpInv
  <1>4. CASE r.started
    <2>1. PICK w : w = [r EXCEPT !.time = IF timeOk THEN stamp ELSE r.time,
                                 !.date = IF dateOk THEN stamp ELSE r.date, !.valid = timeOk /\ dateOk]
      OBVIOUS
    <2>2. w \in Clock /\ (w.valid => w.time = stamp /\ w.date = stamp)
      BY <1>2, <2>1 DEF Clock
    <2>3. rtc' = [w EXCEPT !.shown = IF w.valid THEN stamp ELSE w.shown]
      BY <1>1, <1>2, <1>4, <2>1 DEF SetRtc, Clock
    <2>4. rtc' \in Clock /\ (rtc'.valid => rtc'.time = stamp /\ rtc'.date = stamp)
      BY <2>2, <2>3 DEF Clock
    <2> QED
      BY <2>4 DEF TheClockIsAnAnswers
  <1> QED
    BY <1>3, <1>4
-----------------------------------------------------------------------------
LEMMA TooManyOrNot == TooMany \in BOOLEAN
  BY DEF TooMany

(* An answer cancels what the client knows, which is all of a chain.       *)
LEMMA AnswerKeepsSntpInv ==
  ASSUME NEW stamp \in Stamps, NEW started \in BOOLEAN, NEW timeOk \in BOOLEAN, NEW dateOk \in BOOLEAN,
         NEW ok \in BOOLEAN, SntpInv, RecvTime(stamp, started, timeOk, dateOk, ok)
  PROVE  SntpInv'
  <1>1. rtc' \in Clock /\ TheClockIsAnAnswers'
    BY SetRtcIsAClock DEF RecvTime
  <1>2. PICK ts : ts = Cancel(timers, {requestId, nextId})
    OBVIOUS
  <1>3. ts \in SUBSET Timeout /\ (~kissed => ts = {})
    BY <1>2 DEF Cancel, SntpInv, OneChain
  <1>4. PICK after : after = SetTimeout(ts, "request", ok)
    OBVIOUS
  <1>5. \/ IdOf(ok) = INVALID /\ after = ts
        \/ /\ IdOf(ok) # INVALID /\ after = ts \cup {[id |-> IdOf(ok), calls |-> "request"]}
           /\ [id |-> IdOf(ok), calls |-> "request"] \in Timeout
    BY <1>3, <1>4, SetTimeoutAnswers
  <1>6. PICK over \in BOOLEAN : over = TooMany
    BY TooManyOrNot
  <1>7. Leave(over, after, IdOf(ok), nextId, IdOf(ok) = INVALID) /\ pcb
    BY <1>2, <1>4, <1>6 DEF RecvTime
  <1>8. after \in SUBSET Timeout /\ (after = {} => IdOf(ok) = INVALID)
    BY <1>3, <1>5
  <1>9. ~kissed => /\ \A u \in after : u.id \in {IdOf(ok), nextId}
                   /\ \A u, v \in after : u = v
    BY <1>3, <1>5
  <1>10. (IdOf(ok) = INVALID) \in BOOLEAN
    OBVIOUS
  <1> QED
    BY <1>1, <1>7, <1>8, <1>9, <1>10, LeaveKeepsTheChain

(* A kiss of death leaves the chain that was, and another: nothing is said *)
(* of those until the client is quiet again.                               *)
LEMMA KissKeepsSntpInv ==
  ASSUME NEW ok \in BOOLEAN, SntpInv, RecvKiss(ok)
  PROVE  SntpInv'
  <1>1. PICK ts : ts = SetTimeout(timers, "request", ok)
    OBVIOUS
  <1>2. timers \in SUBSET Timeout /\ rtc \in Clock /\ TheClockIsAnAnswers /\ starved \in BOOLEAN
    BY DEF SntpInv
  <1>3. \/ IdOf(ok) = INVALID /\ ts = timers
        \/ /\ IdOf(ok) # INVALID /\ ts = timers \cup {[id |-> IdOf(ok), calls |-> "request"]}
           /\ [id |-> IdOf(ok), calls |-> "request"] \in Timeout
    BY <1>1, <1>2, SetTimeoutAnswers
  <1>4. PICK over \in BOOLEAN : over = TooMany
    BY TooManyOrNot
  <1>5. /\ pcb /\ pcb' = ~over /\ rtc' = rtc
        /\ timers' = IF over THEN Stopped(ts, IdOf(ok), nextId) ELSE ts
        /\ kissed' = (timers' # {})
        /\ starved' = (~over /\ (starved \/ IdOf(ok) = INVALID))
    BY <1>1, <1>4 DEF RecvKiss
  <1>6. timers' \subseteq Timeout
    BY <1>2, <1>3, <1>5 DEF Stopped, Cancel
  <1>7. pcb' \in BOOLEAN /\ kissed' \in BOOLEAN /\ starved' \in BOOLEAN
    BY <1>5
  <1>8. OneChain(pcb', timers', requestId', nextId', kissed', starved')
    <2>1. CASE timers' # {}
      BY <1>5, <2>1 DEF OneChain
    <2>2. CASE timers' = {}
      <3>1. CASE over
        BY <1>5, <2>2, <3>1 DEF OneChain
      <3>2. CASE ~over
        <4>1. IdOf(ok) = INVALID
          BY <1>3, <1>5, <2>2, <3>2
        <4>2. starved' = TRUE
          BY <1>5, <3>2, <4>1
        <4> QED
          BY <1>5, <2>2, <4>2 DEF OneChain
      <3> QED
        BY <3>1, <3>2
    <2> QED
      BY <2>1, <2>2
  <1> QED
    BY <1>2, <1>5, <1>6, <1>7, <1>8 DEF SntpInv, TheClockIsAnAnswers

(* stop, and a datagram that is ignored, which may be one too many.        *)
LEMMA QuietStepKeepsSntpInv ==
  ASSUME SntpInv, RecvOther \/ SntpStop
  PROVE  SntpInv'
  <1>1. PICK over \in BOOLEAN : Leave(over, timers, requestId, nextId, FALSE) /\ pcb /\ UNCHANGED rtc
    BY TooManyOrNot DEF RecvOther, SntpStop
  <1>2. timers \in SUBSET Timeout
    BY DEF SntpInv
  <1>3. timers = {} => starved
    BY <1>1 DEF SntpInv, OneChain
  <1>4. ~kissed => /\ \A t \in timers : t.id \in {requestId, nextId}
                   /\ \A t, u \in timers : t = u
    BY DEF SntpInv, OneChain
  <1> QED
    BY <1>1, <1>2, <1>3, <1>4, LeaveKeepsTheChain

LEMMA UpdateRtcKeepsSntpInv ==
  ASSUME NEW ok \in BOOLEAN, SntpInv, UpdateRtc(ok)
  PROVE  SntpInv'
  <1>1. PICK r : r = Ensured(ok)
    OBVIOUS
  <1>2. r \in Clock /\ (r.valid => r = rtc)
    BY <1>1, EnsuredIsAClock
  <1>3. rtc' = IF ~r.started THEN r ELSE [r EXCEPT !.shown = IF r.valid THEN r.time ELSE FACTORY]
    BY <1>1 DEF UpdateRtc
  <1>4. rtc' \in Clock /\ rtc'.valid = r.valid /\ rtc'.time = r.time /\ rtc'.date = r.date
    <2>1. CASE ~r.started
      BY <1>2, <1>3, <2>1
    <2>2. CASE r.started
      <3>1. PICK x \in Stamps \cup {FACTORY} : x = IF r.valid THEN r.time ELSE FACTORY
        BY <1>2 DEF Clock
      <3>2. rtc' = [r EXCEPT !.shown = x]
        BY <1>2, <1>3, <2>2, <3>1 DEF Clock
      <3> QED
        BY <1>2, <3>2 DEF Clock
    <2> QED
      BY <2>1, <2>2
  <1> QED
    BY <1>2, <1>4 DEF SntpInv, OneChain, TheClockIsAnAnswers, UpdateRtc

(* While the client runs one timeout drives it, and it knows its id, so    *)
(* that stop() leaves none behind; unless a kiss of death started a second *)
(* chain, or set_timeout had no slot.  A time that is valid is one answer's. *)
THEOREM OneTimeoutDrivesTheClient == SntpSpec => []SntpHasOneChain
  <1>1. SntpInit => SntpInv
    <2> SUFFICES ASSUME SntpInit PROVE SntpInv
      OBVIOUS
    <2>1. rtc \in Clock /\ ~rtc.valid
      BY DEF SntpInit, Clock
    <2> QED
      BY <2>1 DEF SntpInit, SntpInv, OneChain, TheClockIsAnAnswers
  <1>2. SntpInv /\ [SntpNext]_sntpVars => SntpInv'
    <2> SUFFICES ASSUME SntpInv, [SntpNext]_sntpVars PROVE SntpInv'
      OBVIOUS
    <2>1. ASSUME NEW ok \in BOOLEAN, NEW address \in BOOLEAN, NEW memory \in BOOLEAN,
                 SntpStart(address, memory, ok)
          PROVE  SntpInv'
      BY <2>1, StartKeepsSntpInv
    <2>2. ASSUME NEW ok \in BOOLEAN, NEW address \in BOOLEAN, NEW memory \in BOOLEAN,
                 NEW t \in timers, Fire(t, address, memory, ok)
          PROVE  SntpInv'
      BY <2>2, FireKeepsSntpInv
    <2>3. ASSUME NEW ok \in BOOLEAN, NEW stamp \in Stamps, NEW started \in BOOLEAN,
                 NEW timeOk \in BOOLEAN, NEW dateOk \in BOOLEAN,
                 RecvTime(stamp, started, timeOk, dateOk, ok)
          PROVE  SntpInv'
      BY <2>3, AnswerKeepsSntpInv
    <2>4. ASSUME NEW ok \in BOOLEAN, RecvKiss(ok)
          PROVE  SntpInv'
      BY <2>4, KissKeepsSntpInv
    <2>5. ASSUME NEW ok \in BOOLEAN, UpdateRtc(ok)
          PROVE  SntpInv'
      BY <2>5, UpdateRtcKeepsSntpInv
    <2>6. CASE SntpStop \/ RecvOther
      BY <2>6, QuietStepKeepsSntpInv
    <2>7. CASE UNCHANGED sntpVars
      BY <2>7 DEF sntpVars, SntpInv, OneChain, TheClockIsAnAnswers
    <2> QED
      BY <2>1, <2>2, <2>3, <2>4, <2>5, <2>6, <2>7 DEF SntpNext
  <1>3. SntpInv => SntpHasOneChain
    BY DEF SntpInv, OneChain, TheClockIsAnAnswers, SntpHasOneChain
  <1> QED
    BY <1>1, <1>2, <1>3, PTL DEF SntpSpec

-----------------------------------------------------------------------------
(* MDMA                                                                    *)

(* The unit goes through s when it starts at n and the nodes are those of N. *)
Chain(N, n, s) ==
  /\ s \in Seq(NodeNames) /\ s # <<>> /\ s[1] = n
  /\ Reach(n) \in Nat /\ Len(s) <= Reach(n)
  /\ \A k \in 1 .. Len(s) - 1 : N[s[k]].next = s[k + 1]
  /\ N[s[Len(s)]].next = NoNode

LEMMA NodesAreNamed ==
  \A n : n \in NodeNames <=>
    \/ \E p \in Sent : \E i \in 0 .. Count(p) : n = <<p, "build", i>>
    \/ \E p \in Received : \E i \in 0 .. Count(p) : n = <<p, "parse", i>>
    \/ \E i \in Ids : n = <<"channel", "raw", i>>
  <1> TAKE n
  <1> DEFINE Builds == UNION {{<<p, "build", i>> : i \in 0 .. Count(p)} : p \in Sent}
             Parses == UNION {{<<p, "parse", i>> : i \in 0 .. Count(p)} : p \in Received}
  <1>1. n \in Builds <=> \E p \in Sent : \E i \in 0 .. Count(p) : n = <<p, "build", i>>
    OBVIOUS
  <1>2. n \in Parses <=> \E p \in Received : \E i \in 0 .. Count(p) : n = <<p, "parse", i>>
    OBVIOUS
  <1>3. n \in NodeNames <=> n \in Builds \/ n \in Parses \/ n \in {<<"channel", "raw", i>> : i \in Ids}
    BY Zenon DEF NodeNames
  <1> QED
    BY <1>1, <1>2, <1>3, Zenon

LEMMA NoNodeIsNoNode == NoNode \notin NodeNames
  <1>1. \A p, kind, i : <<p, kind, i>> # <<>>
    <2>1. \A p, kind, i : Len(<<p, kind, i>>) = 3 /\ Len(<<>>) = 0
      OBVIOUS
    <2> QED
      BY <2>1
  <1>2. SUFFICES ASSUME <<>> \in NodeNames PROVE FALSE
    BY DEF NoNode
  <1>3. \E p, kind, i : <<>> = <<p, kind, i>>
    BY <1>2, NodesAreNamed, Zenon
  <1> QED
    BY <1>1, <1>3, Zenon

(* A function on the positive numbers by its first value and the one after.*)
LEMMA WalkFollowsAChain ==
  ASSUME NEW n, NEW s, Chain(nodes, n, s)
  PROVE  \A k \in Nat \ {0} : Walk(n)[k] = IF k <= Len(s) THEN s[k] ELSE NoNode
  <1> DEFINE Rest == Nat \ {0}
             W == [k \in Rest |-> IF k <= Len(s) THEN s[k] ELSE NoNode]
             Goes(f) == f = [k \in Rest |-> IF k = 1 THEN n ELSE NextOf(f[k - 1])]
  <1>1. Len(s) \in Nat \ {0} /\ \A k \in 1 .. Len(s) : s[k] \in NodeNames /\ s[k] # NoNode
    BY NoNodeIsNoNode DEF Chain
  <1>2. Goes(W)
    <2>1. ASSUME NEW k \in Rest
          PROVE  W[k] = IF k = 1 THEN n ELSE NextOf(W[k - 1])
      <3>1. CASE k = 1
        BY <1>1, <3>1 DEF Chain
      <3>2. CASE k # 1 /\ k <= Len(s)
        <4>1. k - 1 \in 1 .. Len(s) - 1
          BY <1>1, <3>2
        <4>2. W[k - 1] = s[k - 1] /\ W[k] = s[k]
          BY <1>1, <3>2, <4>1
        <4>3. nodes[s[k - 1]].next = s[k]
          BY <4>1 DEF Chain
        <4> QED
          BY <1>1, <3>2, <4>1, <4>2, <4>3 DEF NextOf
      <3>3. CASE k = Len(s) + 1
        <4>1. W[k - 1] = s[Len(s)] /\ W[k] = NoNode
          BY <1>1, <3>3
        <4> QED
          BY <1>1, <3>3, <4>1 DEF NextOf, Chain
      <3>4. CASE k > Len(s) + 1
        <4>1. W[k - 1] = NoNode /\ W[k] = NoNode
          BY <1>1, <3>4
        <4> QED
          BY <1>1, <3>4, <4>1 DEF NextOf
      <3> QED
        BY <1>1, <3>1, <3>2, <3>3, <3>4
    <2>2. W = [k \in Rest |-> W[k]]
      OBVIOUS
    <2> QED
      BY <2>1, <2>2
  <1>3. Walk(n) = [k \in Rest |-> IF k = 1 THEN n ELSE NextOf(Walk(n)[k - 1])]
    <2>1. Walk(n) = CHOOSE f : Goes(f)
      BY DEF Walk
    <2>2. \E f : Goes(f)
      BY <1>2
    <2>3. Goes(CHOOSE f : Goes(f))
      <3> HIDE DEF Goes
      <3> QED BY <2>2
    <2> QED
      BY <2>1, <2>3
  <1> DEFINE Wrong == {k \in Rest : Walk(n)[k] # W[k]}
  <1>4. Wrong = {}
    <2> SUFFICES ASSUME Wrong # {} PROVE FALSE
      OBVIOUS
    <2>1. PICK k \in Wrong : \A j \in Wrong : ~(<<j, k>> \in OpToRel(<, Nat))
      BY NatLessThanWellFounded, WFMin
    <2>2. k # 1
      BY <1>3, <1>1 DEF Chain
    <2>3. k - 1 \in Rest /\ k - 1 < k
      BY <2>2
    <2>4. k - 1 \notin Wrong
      BY <2>1, <2>3 DEF OpToRel
    <2>5. Walk(n)[k] = NextOf(Walk(n)[k - 1]) /\ W[k] = NextOf(W[k - 1])
      BY <1>2, <1>3, <2>2
    <2> QED
      BY <2>1, <2>3, <2>4, <2>5
  <1> QED
    BY <1>4

LEMMA ListIsTheChain ==
  ASSUME NEW n, NEW s, Chain(nodes, n, s)
  PROVE  List(n) = s
  <1>1. Len(s) \in Nat \ {0} /\ Len(s) <= Reach(n) /\ s = [k \in 1 .. Len(s) |-> s[k]]
    BY DEF Chain
  <1>2. \A k \in 1 .. Len(s) : s[k] # NoNode
    BY NoNodeIsNoNode DEF Chain
  <1>3. {j \in 1 .. Reach(n) : Walk(n)[j] # NoNode} = 1 .. Len(s)
    <2>1. Reach(n) \in Nat
      BY DEF Chain
    <2>2. \A k \in 1 .. Reach(n) : Walk(n)[k] # NoNode <=> k \in 1 .. Len(s)
      BY <1>1, <1>2, <2>1, WalkFollowsAChain
    <2> QED
      BY <1>1, <2>1, <2>2
  <1>4. List(n) = [k \in 1 .. Len(s) |-> s[k]]
    BY <1>3, WalkFollowsAChain DEF List
  <1> QED
    BY <1>1, <1>4

-----------------------------------------------------------------------------
(* A node, and one whose settings are those of its addresses.              *)
IsNode(r) == r = [src |-> r.src, dst |-> r.dst, size |-> r.size, next |-> r.next,
                  elem |-> r.elem, burst |-> r.burst, tcm |-> r.tcm]
Near(r)    == {side \in {"src", "dst"} : is_tcm(r[side])}
WellSet(r) == LET e == compute_elem_size(r.src, r.dst, r.size)
              IN  r.elem = e /\ r.burst = buf_len(r.size, e) /\ r.tcm = Near(r)

LEMMA ConfiguredIsWellSet ==
  ASSUME NEW r, IsNode(r)
  PROVE  /\ r = Configured(r) <=> WellSet(r)
         /\ IsNode(Configured(r)) /\ Configured(Configured(r)) = Configured(r)
         /\ Configured(r).src = r.src /\ Configured(r).dst = r.dst
         /\ Configured(r).size = r.size /\ Configured(r).next = r.next
  <1> DEFINE e == compute_elem_size(r.src, r.dst, r.size)
             b == buf_len(r.size, e)
             c == [src |-> r.src, dst |-> r.dst, size |-> r.size, next |-> r.next,
                   elem |-> e, burst |-> b, tcm |-> Near(r)]
  <1>1. Configured(r) = c
    <2>1. Configured(r) = [r EXCEPT !.elem = e, !.burst = b, !.tcm = Near(r)]
      BY DEF Configured, Near
    <2> HIDE DEF e, b
    <2>2. PICK src, dst, size, next, elem, burst, tcm :
            r = [src |-> src, dst |-> dst, size |-> size, next |-> next,
                 elem |-> elem, burst |-> burst, tcm |-> tcm]
      BY DEF IsNode
    <2>3. PICK q, near : q = [r EXCEPT !.elem = e, !.burst = b, !.tcm = near] /\ near = Near(r)
      OBVIOUS
    <2>4. q = [src |-> src, dst |-> dst, size |-> size, next |-> next,
               elem |-> e, burst |-> b, tcm |-> near]
      BY <2>2, <2>3
    <2>5. r.src = src /\ r.dst = dst /\ r.size = size /\ r.next = next
      BY <2>2
    <2>6. q = c
      BY <2>3, <2>4, <2>5
    <2> QED
      BY <2>1, <2>3, <2>6
  <1>2. Near(c) = Near(r)
    BY DEF Near
  <1>3. Configured(c) = c
    <2>1. Configured(c) = [c EXCEPT !.elem = e, !.burst = b, !.tcm = Near(c)]
      BY DEF Configured, Near
    <2> QED
      BY <1>2, <2>1
  <1>4. r = c <=> WellSet(r)
    <2>1. r = [src |-> r.src, dst |-> r.dst, size |-> r.size, next |-> r.next,
               elem |-> r.elem, burst |-> r.burst, tcm |-> r.tcm]
      BY DEF IsNode
    <2> HIDE DEF e, b
    <2>2. r = c <=> r.elem = e /\ r.burst = b /\ r.tcm = Near(r)
      BY <2>1
    <2> QED
      BY <2>2 DEF WellSet, e, b
  <1> QED
    BY <1>1, <1>3, <1>4 DEF IsNode

(* Another link changes no setting.                                        *)
LEMMA LinkedIsWellSet ==
  ASSUME NEW r, NEW n, IsNode(r)
  PROVE  LET q == [r EXCEPT !.next = n]
         IN  /\ IsNode(q) /\ (r = Configured(r) => q = Configured(q))
             /\ q.src = r.src /\ q.dst = r.dst /\ q.size = r.size /\ q.next = n
  <1> DEFINE q == [r EXCEPT !.next = n]
  <1>1. q = [src |-> r.src, dst |-> r.dst, size |-> r.size, next |-> n,
             elem |-> r.elem, burst |-> r.burst, tcm |-> r.tcm]
    BY DEF IsNode
  <1>2. IsNode(q) /\ q.src = r.src /\ q.dst = r.dst /\ q.size = r.size /\ q.next = n
        /\ q.elem = r.elem /\ q.burst = r.burst /\ q.tcm = r.tcm
    BY <1>1 DEF IsNode
  <1>3. Near(q) = Near(r)
    BY <1>2 DEF Near
  <1> HIDE DEF q
  <1>4. WellSet(r) => WellSet(q)
    BY <1>2, <1>3 DEF WellSet
  <1>5. r = Configured(r) => q = Configured(q)
    BY <1>2, <1>4, ConfiguredIsWellSet
  <1> QED
    BY <1>2, <1>5 DEF q

LEMMA AddressedIsWellSet ==
  ASSUME NEW r, NEW a, IsNode(r)
  PROVE  /\ LET q == set_destination(r, a)
            IN  /\ IsNode(q) /\ q = Configured(q)
                /\ q.src = r.src /\ q.dst = a /\ q.size = r.size /\ q.next = r.next
         /\ LET q == set_source(r, a)
            IN  /\ IsNode(q) /\ q = Configured(q)
                /\ q.src = a /\ q.dst = r.dst /\ q.size = r.size /\ q.next = r.next
  <1>1. PICK d : d = [r EXCEPT !.dst = a]
    OBVIOUS
  <1>2. IsNode(d) /\ d.src = r.src /\ d.dst = a /\ d.size = r.size /\ d.next = r.next
    BY <1>1 DEF IsNode
  <1>3. PICK u : u = [r EXCEPT !.src = a]
    OBVIOUS
  <1>4. IsNode(u) /\ u.src = a /\ u.dst = r.dst /\ u.size = r.size /\ u.next = r.next
    BY <1>3 DEF IsNode
  <1>5. set_destination(r, a) = Configured(d) /\ set_source(r, a) = Configured(u)
    BY <1>1, <1>3 DEF set_destination, set_source
  <1> QED
    BY <1>2, <1>4, <1>5, ConfiguredIsWellSet

-----------------------------------------------------------------------------
(* What a node moves; whose node it is; that a list which starts at first is *)
(* the caller's own, and moves what it asks.                                 *)
Job(r)   == [src |-> r.src, dst |-> r.dst, size |-> r.size]
Owner(n) == IF n[1] = "channel" THEN "raw" ELSE n[1]

Serves(N, asks, first, c) ==
  \E s : /\ Chain(N, first, s)
         /\ \A k \in 1 .. Len(s) : Owner(s[k]) = c
         /\ [k \in DOMAIN s |-> Job(N[s[k]])] = asks

(* The nodes as MdmaPacket left them.  Only the last link of a list to build  *)
(* and the first one of a list to parse depend on what was asked before.      *)
WellMade(N) ==
  /\ N = [n \in NodeNames |-> N[n]]
  /\ \A n \in NodeNames : IsNode(N[n]) /\ (n[1] # "channel" => N[n] = Configured(N[n]))
  /\ \A i \in Ids : N[<<"channel", "raw", i>>].next = NoNode

BuildsWell(N, p) ==
  /\ \A i \in 1 .. Count(p) : Job(N[<<p, "build", i>>]) = Gather(p)[i]
  /\ \A i \in 1 .. Count(p) - 1 : N[<<p, "build", i>>].next = <<p, "build", i + 1>>
  /\ N[<<p, "build", 0>>].src = Buffer[p] /\ N[<<p, "build", 0>>].size = Size(p)
  /\ N[<<p, "build", 0>>].next = NoNode

ParsesWell(N, p) ==
  /\ \A i \in 1 .. Count(p) : Job(N[<<p, "parse", i>>]) = Scatter(p)[i]
  /\ \A i \in 2 .. Count(p) - 1 : N[<<p, "parse", i>>].next = <<p, "parse", i + 1>>
  /\ Count(p) > 1 => N[<<p, "parse", 1>>].next \in {NoNode, <<p, "parse", 2>>}
  /\ N[<<p, "parse", Count(p)>>].next = NoNode
  /\ N[<<p, "parse", 0>>].dst = Buffer[p] /\ N[<<p, "parse", 0>>].size = Size(p)

NodesOK(N) ==
  /\ WellMade(N)
  /\ \A p \in Sent : BuildsWell(N, p)
  /\ \A p \in Received : ParsesWell(N, p)

LEMMA PacketsHaveValues ==
  \A p \in Sent \cup Received :
    /\ p \in Packets /\ p # "channel" /\ p # "raw" /\ p # Null /\ p \in Callers
    /\ Count(p) \in Nat \ {0} /\ Values[p] # <<>>
    /\ Gather(p) = [i \in 1 .. Count(p) |-> Gather(p)[i]] /\ Gather(p) # <<>>
    /\ Scatter(p) = [i \in 1 .. Count(p) |-> Scatter(p)[i]] /\ Scatter(p) # <<>>
  <1> TAKE p \in Sent \cup Received
  <1>1. p \in Packets /\ p # "channel" /\ p # "raw" /\ p # Null /\ p \in Callers
    BY MdmaAssumption DEF Callers
  <1>2. Values[p] \in Seq(Nat \X Nat) /\ Values[p] # <<>>
    BY <1>1, MdmaAssumption
  <1>3. Count(p) \in Nat \ {0} /\ DOMAIN Values[p] = 1 .. Count(p)
    BY <1>2 DEF Count
  <1>4. DOMAIN Parts(p) = 1 .. Count(p)
    BY <1>3 DEF Parts
  <1>5. Gather(p) = [i \in 1 .. Count(p) |-> Gather(p)[i]] /\ Gather(p) # <<>>
    BY <1>3, <1>4 DEF Gather
  <1>6. Scatter(p) = [i \in 1 .. Count(p) |-> Scatter(p)[i]] /\ Scatter(p) # <<>>
    BY <1>3, <1>4 DEF Scatter
  <1> QED
    BY <1>1, <1>2, <1>3, <1>5, <1>6

(* A list stays a caller's, whatever happens to the nodes of the others.      *)
LEMMA StillServes ==
  ASSUME NEW N, NEW M, NEW asks, NEW first, NEW c, Serves(N, asks, first, c),
         \A n \in NodeNames : Owner(n) = c => M[n] = N[n]
  PROVE  Serves(M, asks, first, c)
  <1>1. PICK s : /\ Chain(N, first, s)
                 /\ \A k \in 1 .. Len(s) : Owner(s[k]) = c
                 /\ [k \in DOMAIN s |-> Job(N[s[k]])] = asks
    BY DEF Serves
  <1>2. \A k \in 1 .. Len(s) : M[s[k]] = N[s[k]]
    BY <1>1 DEF Chain
  <1>3. Chain(M, first, s)
    BY <1>1, <1>2, SMTT(30) DEF Chain
  <1>4. [k \in DOMAIN s |-> Job(M[s[k]])] = [k \in DOMAIN s |-> Job(N[s[k]])]
    <2>1. DOMAIN s = 1 .. Len(s)
      BY <1>1 DEF Chain
    <2> QED
      BY <1>2, <2>1
  <1> QED
    BY <1>1, <1>3, <1>4 DEF Serves

LEMMA ServedListMoves ==
  ASSUME NEW asks, NEW first, NEW c, Serves(nodes, asks, first, c)
  PROVE  Moves(List(first)) = asks
  <1>1. PICK s : /\ Chain(nodes, first, s)
                 /\ [k \in DOMAIN s |-> Job(nodes[s[k]])] = asks
    BY DEF Serves
  <1>2. List(first) = s
    BY <1>1, ListIsTheChain
  <1> QED
    BY <1>1, <1>2 DEF Moves, Job


(* A line of a caller's nodes serves it.                                      *)
LEMMA ServesAlong ==
  ASSUME NEW M, NEW c, NEW asks, NEW len \in Nat \ {0}, NEW s \in [1 .. len -> NodeNames],
         Reach(s[1]) \in Nat, len <= Reach(s[1]),
         \A k \in 1 .. len : Owner(s[k]) = c,
         \A k \in 1 .. len - 1 : M[s[k]].next = s[k + 1],
         M[s[len]].next = NoNode,
         asks = [k \in 1 .. len |-> Job(M[s[k]])]
  PROVE  Serves(M, asks, s[1], c)
  <1>1. s \in Seq(NodeNames) /\ Len(s) = len /\ DOMAIN s = 1 .. len /\ s # <<>>
    OBVIOUS
  <1>2. Chain(M, s[1], s)
    BY <1>1 DEF Chain
  <1> QED
    BY <1>1, <1>2 DEF Serves

LEMMA PacketsOwnTheirNodes ==
  /\ \A p \in Sent : \A i \in 0 .. Count(p) :
        /\ <<p, "build", i>> \in NodeNames /\ Owner(<<p, "build", i>>) = p
        /\ Reach(<<p, "build", i>>) = Count(p) + 1
  /\ \A p \in Received : \A i \in 0 .. Count(p) :
        /\ <<p, "parse", i>> \in NodeNames /\ Owner(<<p, "parse", i>>) = p
        /\ Reach(<<p, "parse", i>>) = Count(p) + 1
  /\ \A i \in Ids :
        /\ <<"channel", "raw", i>> \in NodeNames /\ Owner(<<"channel", "raw", i>>) = "raw"
        /\ Reach(<<"channel", "raw", i>>) = 1
  <1>1. \A p \in Sent : \A i \in 0 .. Count(p) : <<p, "build", i>> \in NodeNames
    BY NodesAreNamed, Zenon
  <1>2. \A p \in Received : \A i \in 0 .. Count(p) : <<p, "parse", i>> \in NodeNames
    BY NodesAreNamed, Zenon
  <1>3. \A i \in Ids : <<"channel", "raw", i>> \in NodeNames
    BY NodesAreNamed, Zenon
  <1>4. \A p \in Sent \cup Received : p # "channel"
    BY PacketsHaveValues
  <1> QED
    BY <1>1, <1>2, <1>3, <1>4 DEF Owner, Reach

(* What build leaves of the nodes: its own list gathers what is asked.        *)
LEMMA BuildSetsItsNodes ==
  ASSUME NodesOK(nodes), NEW p \in Sent, NEW to
  PROVE  LET M == set_build_destination(p, to)
             asks == Gather(p) \o (IF to = 0 THEN <<>> ELSE Whole(p, Buffer[p], to))
         IN  /\ NodesOK(M) /\ Serves(M, asks, <<p, "build", 1>>, p)
             /\ \A n \in NodeNames : Owner(n) # p => M[n] = nodes[n]
  <1> DEFINE M == set_build_destination(p, to)
             asks == Gather(p) \o (IF to = 0 THEN <<>> ELSE Whole(p, Buffer[p], to))
             last  == <<p, "build", Count(p)>>
             extra == <<p, "build", 0>>
             hung  == IF to = 0 THEN NoNode ELSE extra
             linked == [nodes[last] EXCEPT !.next = hung]
             ended == set_destination(nodes[extra], to)
  <1>1. /\ p \in Packets /\ p # "channel" /\ Count(p) \in Nat \ {0}
        /\ last \in NodeNames /\ extra \in NodeNames /\ last # extra
        /\ last[1] = p /\ extra[1] = p /\ Owner(last) = p /\ Owner(extra) = p
    BY PacketsHaveValues, PacketsOwnTheirNodes
  <1>2. WellMade(nodes) /\ BuildsWell(nodes, p)
    BY DEF NodesOK
  <1>3. /\ IsNode(nodes[last]) /\ nodes[last] = Configured(nodes[last])
        /\ IsNode(nodes[extra]) /\ nodes[extra] = Configured(nodes[extra])
    BY <1>1, <1>2 DEF WellMade
  <1>4. /\ IsNode(linked) /\ linked = Configured(linked) /\ linked.next = hung
        /\ linked.src = nodes[last].src /\ linked.dst = nodes[last].dst
        /\ linked.size = nodes[last].size
    BY <1>3, LinkedIsWellSet
  <1>5. /\ IsNode(ended) /\ ended = Configured(ended) /\ ended.dst = to
        /\ ended.src = nodes[extra].src /\ ended.size = nodes[extra].size
        /\ ended.next = nodes[extra].next
    BY <1>3, AddressedIsWellSet
  <1>6. M = [n \in NodeNames |-> CASE n = last -> linked
                                   [] n = extra /\ to # 0 -> ended
                                   [] OTHER -> nodes[n]]
    <2>1. nodes = [n \in NodeNames |-> nodes[n]]
      BY <1>2 DEF WellMade
    <2> HIDE DEF last, extra
    <2>2. CASE to = 0
      <3>1. M = [nodes EXCEPT ![last].next = NoNode]
        BY <2>2 DEF set_build_destination, last
      <3> QED
        BY <1>1, <2>1, <2>2, <3>1
    <2>3. CASE to # 0
      <3> DEFINE to2 == to
      <3>1. M = [nodes EXCEPT ![last].next = extra, ![extra] = set_destination(@, to)]
        BY <2>3 DEF set_build_destination, last, extra
      <3>2. M = [[nodes EXCEPT ![last].next = extra] EXCEPT ![extra] = ended]
        BY <1>1, <2>1, <3>1
      <3> HIDE DEF ended
      <3> QED
        BY <1>1, <2>1, <2>3, <3>2
    <2> QED
      BY <2>2, <2>3
  <1>7. /\ M = [n \in NodeNames |-> M[n]] /\ M[last] = linked
        /\ M[extra] = IF to = 0 THEN nodes[extra] ELSE ended
        /\ \A n \in NodeNames : n \notin {last, extra} => M[n] = nodes[n]
    <2> HIDE DEF M, linked, ended, last, extra
    <2> QED
      BY <1>1, <1>6
  <1> HIDE DEF M, linked, ended
  <1>8. \A n \in NodeNames : Owner(n) # p => M[n] = nodes[n]
    BY <1>1, <1>7
  <1>9. NodesOK(M)
    <2>1. WellMade(M)
      <3>1. \A n \in NodeNames : IsNode(M[n]) /\ (n[1] # "channel" => M[n] = Configured(M[n]))
        <4> HIDE DEF last, extra
        <4> QED
          BY <1>1, <1>2, <1>3, <1>4, <1>5, <1>7 DEF WellMade
      <3>2. \A i \in Ids : M[<<"channel", "raw", i>>].next = NoNode
        BY <1>1, <1>2, <1>7, PacketsOwnTheirNodes DEF WellMade
      <3> QED
        BY <1>7, <3>1, <3>2 DEF WellMade
    <2>2. ASSUME NEW q \in Sent PROVE BuildsWell(M, q)
      <3>1. BuildsWell(nodes, q) /\ Count(q) \in Nat \ {0}
        BY PacketsHaveValues DEF NodesOK
      <3>2. \A i \in 0 .. Count(q) : <<q, "build", i>> \in NodeNames
        BY PacketsOwnTheirNodes
      <3>3. CASE q = p
        <4>1. \A i \in 1 .. Count(p) - 1 : M[<<p, "build", i>>] = nodes[<<p, "build", i>>]
          BY <3>2, <3>3, <1>7, <1>1
        <4>2. Job(M[last]) = Job(nodes[last])
          BY <1>7, <1>4 DEF Job
        <4>3. M[extra].src = nodes[extra].src /\ M[extra].size = nodes[extra].size
              /\ M[extra].next = nodes[extra].next
          BY <1>7, <1>5
        <4> QED
          BY <1>1, <3>1, <3>3, <4>1, <4>2, <4>3 DEF BuildsWell
      <3>4. CASE q # p
        <4>1. \A i \in 0 .. Count(q) : M[<<q, "build", i>>] = nodes[<<q, "build", i>>]
          BY <3>2, <3>4, <1>7, <1>1
        <4> QED
          BY <3>1, <4>1 DEF BuildsWell
      <3> QED
        BY <3>3, <3>4
    <2>3. ASSUME NEW q \in Received PROVE ParsesWell(M, q)
      <3>1. ParsesWell(nodes, q) /\ Count(q) \in Nat \ {0}
        BY PacketsHaveValues DEF NodesOK
      <3>2. \A i \in 0 .. Count(q) : <<q, "parse", i>> \in NodeNames
        BY PacketsOwnTheirNodes
      <3>3. \A i \in 0 .. Count(q) : M[<<q, "parse", i>>] = nodes[<<q, "parse", i>>]
        BY <3>2, <1>7, <1>1
      <3> QED
        BY <3>1, <3>3 DEF ParsesWell
    <2> QED
      BY <2>1, <2>2, <2>3 DEF NodesOK
  <1>10. Serves(M, asks, <<p, "build", 1>>, p)
    <2> DEFINE At(i) == <<p, "build", i>>
               len == Count(p)
    <2>1. \A i \in 1 .. len : Job(M[At(i)]) = Gather(p)[i]
      BY <1>9 DEF NodesOK, BuildsWell
    <2>2. \A i \in 1 .. len - 1 : M[At(i)].next = At(i + 1)
      BY <1>9 DEF NodesOK, BuildsWell
    <2>3. \A i \in 0 .. len : At(i) \in NodeNames /\ Owner(At(i)) = p
      BY PacketsOwnTheirNodes
    <2>4. Reach(At(1)) = len + 1
      BY <1>1, PacketsOwnTheirNodes
    <2>5. Gather(p) = [i \in 1 .. len |-> Gather(p)[i]]
      BY PacketsHaveValues
    <2>6. len \in Nat \ {0}
      BY <1>1
    <2>7. M[At(len)].next = hung /\ M[At(0)].next = NoNode
      BY <1>4, <1>7, <1>9 DEF NodesOK, BuildsWell
    <2>8. to # 0 => Job(M[At(0)]) = [src |-> Buffer[p], dst |-> to, size |-> Size(p)]
      BY <1>2, <1>5, <1>7 DEF Job, BuildsWell
    <2>9. hung = IF to = 0 THEN NoNode ELSE At(0)
      OBVIOUS
    <2> HIDE DEF At, hung, len
    <2>10. CASE to = 0
      <3> DEFINE s == [k \in 1 .. len |-> At(k)]
      <3>1. asks = Gather(p)
        BY <2>5, <2>6, <2>10
      <3>2. asks = [k \in 1 .. len |-> Job(M[s[k]])]
        BY <2>1, <2>5, <3>1
      <3>3. s \in [1 .. len -> NodeNames] /\ s[1] = At(1) /\ s[len] = At(len)
        BY <2>3, <2>6
      <3>4. \A k \in 1 .. len - 1 : M[s[k]].next = s[k + 1]
        BY <2>2, <2>6
      <3>5. \A k \in 1 .. len : Owner(s[k]) = p
        BY <2>3, <2>6
      <3> HIDE DEF s, asks
      <3>6. Reach(s[1]) \in Nat /\ len <= Reach(s[1]) /\ M[s[len]].next = NoNode
        BY <2>4, <2>6, <2>7, <2>9, <2>10, <3>3
      <3>7. Serves(M, asks, s[1], p)
        BY <2>6, <3>2, <3>3, <3>4, <3>5, <3>6, ServesAlong, Zenon
      <3> QED
        BY <3>3, <3>7 DEF At
    <2>11. CASE to # 0
      <3> DEFINE s == [k \in 1 .. len + 1 |-> IF k <= len THEN At(k) ELSE At(0)]
                 w == [src |-> Buffer[p], dst |-> to, size |-> Size(p)]
      <3>1. asks = [k \in 1 .. len + 1 |-> IF k <= len THEN Gather(p)[k] ELSE w]
        <4>1. asks = Gather(p) \o <<w>>
          BY <2>11 DEF Whole
        <4>2. PICK g, v : g = Gather(p) /\ v = w
          OBVIOUS
        <4>3. g = [i \in 1 .. len |-> g[i]]
          BY <2>5, <4>2
        <4>4. g \o <<v>> = [k \in 1 .. len + 1 |-> IF k <= len THEN g[k] ELSE v]
          BY <2>6, <4>3
        <4> QED
          BY <4>1, <4>2, <4>4
      <3> HIDE DEF w
      <3>2. asks = [k \in 1 .. len + 1 |-> Job(M[s[k]])]
        <4>1. \A k \in 1 .. len + 1 :
                (IF k <= len THEN Gather(p)[k] ELSE w) = Job(M[s[k]])
          <5> TAKE k \in 1 .. len + 1
          <5>1. CASE k <= len
            BY <2>1, <2>6, <5>1
          <5>2. CASE ~(k <= len)
            BY <2>6, <2>8, <2>11, <5>2 DEF w
          <5> QED
            BY <5>1, <5>2
        <4> QED
          BY <3>1, <4>1, Zenon
      <3>3. s \in [1 .. len + 1 -> NodeNames] /\ s[1] = At(1) /\ s[len + 1] = At(0)
        BY <2>3, <2>6
      <3>4. \A k \in 1 .. len : M[s[k]].next = s[k + 1]
        <4>1. ASSUME NEW k \in 1 .. len - 1 PROVE M[s[k]].next = s[k + 1]
          BY <2>2, <2>6
        <4>2. M[s[len]].next = s[len + 1]
          BY <2>6, <2>7, <2>9, <2>11
        <4>3. \A k \in 1 .. len : k \in 1 .. len - 1 \/ k = len
          BY <2>6
        <4> QED
          BY <4>1, <4>2, <4>3, Zenon
      <3>5. \A k \in 1 .. len + 1 : Owner(s[k]) = p
        BY <2>3, <2>6
      <3> HIDE DEF s, asks
      <3>6. PICK many \in Nat \ {0} : many = len + 1
        BY <2>6
      <3>7. /\ Reach(s[1]) \in Nat /\ many <= Reach(s[1]) /\ M[s[many]].next = NoNode
            /\ \A k \in 1 .. many - 1 : M[s[k]].next = s[k + 1]
        BY <2>4, <2>6, <2>7, <3>3, <3>4, <3>6
      <3>8. Serves(M, asks, s[1], p)
        BY <3>2, <3>3, <3>5, <3>6, <3>7, ServesAlong, Zenon
      <3> QED
        BY <3>3, <3>8 DEF At
    <2> QED
      BY <2>10, <2>11
  <1> QED
    BY <1>8, <1>9, <1>10 DEF M


(* What parse leaves of the nodes: its own list scatters what is asked, and   *)
(* that is only the first value when the list was cut there.                  *)
LEMMA ParseSetsItsNodes ==
  ASSUME NodesOK(nodes), NEW p \in Received, NEW from
  PROVE  LET M == set_parse_source(p, from)
             first == IF from = 0 THEN <<p, "parse", 1>> ELSE <<p, "parse", 0>>
             values == IF from = 0 \/ nodes[<<p, "parse", 1>>].next = NoNode
                       THEN <<Head(Scatter(p))>> ELSE Scatter(p)
             asks == (IF from = 0 THEN <<>> ELSE Whole(p, from, Buffer[p])) \o values
         IN  /\ NodesOK(M) /\ Serves(M, asks, first, p)
             /\ \A n \in NodeNames : Owner(n) # p => M[n] = nodes[n]
  <1> DEFINE M == set_parse_source(p, from)
             begins == IF from = 0 THEN <<p, "parse", 1>> ELSE <<p, "parse", 0>>
             values == IF from = 0 \/ nodes[<<p, "parse", 1>>].next = NoNode
                       THEN <<Head(Scatter(p))>> ELSE Scatter(p)
             asks == (IF from = 0 THEN <<>> ELSE Whole(p, from, Buffer[p])) \o values
             first == <<p, "parse", 1>>
             extra == <<p, "parse", 0>>
             severed   == [nodes[first] EXCEPT !.next = NoNode]
             moved == set_source(nodes[extra], from)
             hung  == [moved EXCEPT !.next = first]
  <1>1. /\ p \in Packets /\ p # "channel" /\ Count(p) \in Nat \ {0}
        /\ first \in NodeNames /\ extra \in NodeNames /\ first # extra
        /\ first[1] = p /\ extra[1] = p /\ Owner(first) = p /\ Owner(extra) = p
    BY PacketsHaveValues, PacketsOwnTheirNodes
  <1>2. WellMade(nodes) /\ ParsesWell(nodes, p)
    BY DEF NodesOK
  <1>3. /\ IsNode(nodes[first]) /\ nodes[first] = Configured(nodes[first])
        /\ IsNode(nodes[extra]) /\ nodes[extra] = Configured(nodes[extra])
    BY <1>1, <1>2 DEF WellMade
  <1>4. /\ IsNode(severed) /\ severed = Configured(severed) /\ severed.next = NoNode
        /\ severed.src = nodes[first].src /\ severed.dst = nodes[first].dst
        /\ severed.size = nodes[first].size
    BY <1>3, LinkedIsWellSet
  <1>5. /\ IsNode(hung) /\ hung = Configured(hung) /\ hung.src = from
        /\ hung.dst = nodes[extra].dst /\ hung.size = nodes[extra].size /\ hung.next = first
    <2>1. /\ IsNode(moved) /\ moved = Configured(moved) /\ moved.src = from
          /\ moved.dst = nodes[extra].dst /\ moved.size = nodes[extra].size
      BY <1>3, AddressedIsWellSet
    <2> HIDE DEF moved
    <2> QED
      BY <2>1, LinkedIsWellSet
  <1>6. /\ M = [n \in NodeNames |-> M[n]]
        /\ M[first] = IF from = 0 THEN severed ELSE nodes[first]
        /\ M[extra] = IF from = 0 THEN nodes[extra] ELSE hung
        /\ \A n \in NodeNames : n \notin {first, extra} => M[n] = nodes[n]
    <2>1. nodes = [n \in NodeNames |-> nodes[n]]
      BY <1>2 DEF WellMade
    <2>2. CASE from = 0
      <3>1. M = [nodes EXCEPT ![first].next = NoNode]
        BY <2>2 DEF set_parse_source
      <3> HIDE DEF first, extra, M
      <3> QED
        BY <1>1, <2>1, <2>2, <3>1
    <2>3. CASE from # 0
      <3>1. M = [nodes EXCEPT ![extra] = hung]
        BY <1>1, <2>1, <2>3 DEF set_parse_source
      <3> HIDE DEF first, extra, M, hung
      <3> QED
        BY <1>1, <2>1, <2>3, <3>1
    <2> QED
      BY <2>2, <2>3
  <1> HIDE DEF M, severed, hung
  <1>7. \A n \in NodeNames : Owner(n) # p => M[n] = nodes[n]
    BY <1>1, <1>6
  <1>8. NodesOK(M)
    <2>1. WellMade(M)
      <3>1. \A n \in NodeNames : IsNode(M[n]) /\ (n[1] # "channel" => M[n] = Configured(M[n]))
        <4> HIDE DEF first, extra
        <4> QED
          BY <1>1, <1>2, <1>3, <1>4, <1>5, <1>6 DEF WellMade
      <3>2. \A i \in Ids : M[<<"channel", "raw", i>>].next = NoNode
        BY <1>1, <1>2, <1>6, PacketsOwnTheirNodes DEF WellMade
      <3> QED
        BY <1>6, <3>1, <3>2 DEF WellMade
    <2>2. ASSUME NEW q \in Received PROVE ParsesWell(M, q)
      <3>1. ParsesWell(nodes, q) /\ Count(q) \in Nat \ {0}
        BY PacketsHaveValues DEF NodesOK
      <3>2. \A i \in 0 .. Count(q) : <<q, "parse", i>> \in NodeNames
        BY PacketsOwnTheirNodes
      <3>3. CASE q = p
        <4>1. \A i \in 2 .. Count(p) : M[<<p, "parse", i>>] = nodes[<<p, "parse", i>>]
          BY <3>2, <3>3, <1>6, <1>1
        <4>2. Job(M[first]) = Job(nodes[first])
          BY <1>6, <1>4 DEF Job
        <4>3. M[extra].dst = nodes[extra].dst /\ M[extra].size = nodes[extra].size
          BY <1>6, <1>5
        <4>4. M[first].next \in {NoNode, nodes[first].next}
          BY <1>4, <1>6
        <4>5. \A i \in 1 .. Count(p) : Job(M[<<p, "parse", i>>]) = Scatter(p)[i]
          <5>1. ASSUME NEW i \in 1 .. Count(p), i # 1
                PROVE  Job(M[<<p, "parse", i>>]) = Scatter(p)[i]
            <6>1. i \in 2 .. Count(p)
              BY <1>1, <5>1
            <6> QED
              BY <3>1, <3>3, <4>1, <6>1 DEF ParsesWell
          <5>2. Job(M[first]) = Scatter(p)[1]
            BY <1>1, <3>1, <3>3, <4>2 DEF ParsesWell
          <5> QED
            BY <5>1, <5>2
        <4>6. \A i \in 2 .. Count(p) - 1 : M[<<p, "parse", i>>].next = <<p, "parse", i + 1>>
          <5> TAKE i \in 2 .. Count(p) - 1
          <5>1. i \in 2 .. Count(p)
            BY <1>1
          <5> QED
            BY <3>1, <3>3, <4>1, <5>1 DEF ParsesWell
        <4>7. Count(p) > 1 => M[first].next \in {NoNode, <<p, "parse", 2>>}
          BY <3>1, <3>3, <4>4 DEF ParsesWell
        <4>8. M[<<p, "parse", Count(p)>>].next = NoNode
          <5>1. CASE Count(p) = 1
            BY <3>1, <3>3, <4>4, <5>1 DEF ParsesWell
          <5>2. CASE Count(p) # 1
            <6>1. Count(p) \in 2 .. Count(p)
              BY <1>1, <5>2
            <6> QED
              BY <3>1, <3>3, <4>1, <6>1 DEF ParsesWell
          <5> QED
            BY <5>1, <5>2
        <4>9. M[extra].dst = Buffer[p] /\ M[extra].size = Size(p)
          BY <3>1, <3>3, <4>3 DEF ParsesWell
        <4> QED
          BY <3>3, <4>5, <4>6, <4>7, <4>8, <4>9, Zenon DEF ParsesWell
      <3>4. CASE q # p
        <4>1. \A i \in 0 .. Count(q) : M[<<q, "parse", i>>] = nodes[<<q, "parse", i>>]
          BY <3>2, <3>4, <1>6, <1>1
        <4> QED
          BY <3>1, <4>1 DEF ParsesWell
      <3> QED
        BY <3>3, <3>4
    <2>3. ASSUME NEW q \in Sent PROVE BuildsWell(M, q)
      <3>1. BuildsWell(nodes, q) /\ Count(q) \in Nat \ {0}
        BY PacketsHaveValues DEF NodesOK
      <3>2. \A i \in 0 .. Count(q) : <<q, "build", i>> \in NodeNames
        BY PacketsOwnTheirNodes
      <3>3. \A i \in 0 .. Count(q) : M[<<q, "build", i>>] = nodes[<<q, "build", i>>]
        BY <3>2, <1>6, <1>1
      <3> QED
        BY <3>1, <3>3 DEF BuildsWell
    <2> QED
      BY <2>1, <2>2, <2>3 DEF NodesOK
  <1>9. Serves(M, asks, begins, p)
    <2> DEFINE At(i) == <<p, "parse", i>>
               len == Count(p)
    <2>1. \A i \in 1 .. len : Job(M[At(i)]) = Scatter(p)[i]
      BY <1>8 DEF NodesOK, ParsesWell
    <2>2. /\ \A i \in 2 .. len - 1 : M[At(i)].next = At(i + 1)
          /\ len > 1 => M[At(1)].next \in {NoNode, At(2)}
          /\ M[At(len)].next = NoNode
      BY <1>8 DEF NodesOK, ParsesWell
    <2>3. \A i \in 0 .. len : At(i) \in NodeNames /\ Owner(At(i)) = p
      BY PacketsOwnTheirNodes
    <2>4. Reach(At(1)) = len + 1 /\ Reach(At(0)) = len + 1
      BY <1>1, PacketsOwnTheirNodes
    <2>5. Scatter(p) = [i \in 1 .. len |-> Scatter(p)[i]] /\ Scatter(p) # <<>>
      BY PacketsHaveValues
    <2>6. len \in Nat \ {0}
      BY <1>1
    <2>7. /\ from = 0 => M[At(1)].next = NoNode
          /\ from # 0 => M[At(1)].next = nodes[At(1)].next /\ M[At(0)].next = At(1)
      BY <1>4, <1>5, <1>6
    <2>8. from # 0 => Job(M[At(0)]) = [src |-> from, dst |-> Buffer[p], size |-> Size(p)]
      BY <1>2, <1>5, <1>6 DEF Job, ParsesWell
    <2>9. begins = IF from = 0 THEN At(1) ELSE At(0)
      OBVIOUS
    <2>10. values = IF from = 0 \/ M[At(1)].next = NoNode THEN <<Head(Scatter(p))>> ELSE Scatter(p)
      BY <2>7
    <2>11. Head(Scatter(p)) = Job(M[At(1)])
      BY <2>1, <2>5, <2>6
    <2> DEFINE w == [src |-> from, dst |-> Buffer[p], size |-> Size(p)]
    <2>12. asks = (IF from = 0 THEN <<>> ELSE <<w>>) \o values
      BY DEF Whole
    <2> HIDE DEF At, len, begins, values, asks, w
    <2>13. CASE from = 0
      <3> DEFINE s == [k \in 1 .. 1 |-> At(1)]
      <3>1. PICK v : v = Head(Scatter(p)) /\ asks = <<>> \o <<v>>
        BY <2>10, <2>12, <2>13
      <3>2. asks = [k \in 1 .. 1 |-> Job(M[s[k]])]
        <4>1. v = Job(M[At(1)])
          BY <2>11, <3>1
        <4>2. <<>> \o <<v>> = [k \in 1 .. 1 |-> v]
          OBVIOUS
        <4>3. \A k \in 1 .. 1 : s[k] = At(1)
          OBVIOUS
        <4> QED
          BY <3>1, <4>1, <4>2, <4>3
      <3>3. s \in [1 .. 1 -> NodeNames] /\ s[1] = At(1)
        BY <2>3, <2>6
      <3>4. /\ Reach(s[1]) \in Nat /\ 1 <= Reach(s[1]) /\ M[s[1]].next = NoNode
            /\ \A k \in 1 .. 1 : Owner(s[k]) = p
            /\ \A k \in 1 .. 1 - 1 : M[s[k]].next = s[k + 1]
            /\ 1 \in Nat \ {0}
        BY <2>3, <2>4, <2>6, <2>7, <2>13
      <3> HIDE DEF s
      <3>5. Serves(M, asks, s[1], p)
        BY <3>2, <3>3, <3>4, ServesAlong, Zenon
      <3> QED
        BY <2>9, <2>13, <3>3, <3>5
    <2>14. CASE from # 0 /\ M[At(1)].next = NoNode
      <3> DEFINE s == [k \in 1 .. 2 |-> IF k = 1 THEN At(0) ELSE At(1)]
      <3>1. PICK v, u : v = Head(Scatter(p)) /\ u = w /\ asks = <<u>> \o <<v>>
        BY <2>10, <2>12, <2>14
      <3>2. asks = [k \in 1 .. 2 |-> Job(M[s[k]])]
        <4>1. v = Job(M[At(1)]) /\ u = Job(M[At(0)])
          BY <2>8, <2>11, <2>14, <3>1 DEF w
        <4>2. <<u>> \o <<v>> = [k \in 1 .. 2 |-> IF k = 1 THEN u ELSE v]
          OBVIOUS
        <4>3. s[1] = At(0) /\ s[2] = At(1)
          OBVIOUS
        <4> HIDE DEF s
        <4>4. \A k \in 1 .. 2 : (IF k = 1 THEN u ELSE v) = Job(M[s[k]])
          BY <4>1, <4>3
        <4> QED
          BY <3>1, <4>2, <4>4
      <3>3. s \in [1 .. 2 -> NodeNames] /\ s[1] = At(0) /\ s[2] = At(1)
        BY <2>3, <2>6
      <3>4. /\ Reach(s[1]) \in Nat /\ 2 <= Reach(s[1]) /\ M[s[2]].next = NoNode
            /\ \A k \in 1 .. 2 : Owner(s[k]) = p
            /\ \A k \in 1 .. 2 - 1 : M[s[k]].next = s[k + 1]
            /\ 2 \in Nat \ {0}
        <4> HIDE DEF s
        <4>1. \A k \in 1 .. 2 : k = 1 \/ k = 2
          OBVIOUS
        <4>2. \A k \in 1 .. 2 - 1 : k = 1
          OBVIOUS
        <4>3. M[s[1]].next = s[1 + 1]
          BY <2>7, <2>14, <3>3
        <4>4. Owner(s[1]) = p /\ Owner(s[2]) = p
          BY <2>3, <2>6, <3>3
        <4> QED
          BY <2>4, <2>6, <2>14, <3>3, <4>1, <4>2, <4>3, <4>4
      <3> HIDE DEF s
      <3>5. Serves(M, asks, s[1], p)
        BY <3>2, <3>3, <3>4, ServesAlong, Zenon
      <3> QED
        BY <2>9, <2>14, <3>3, <3>5
    <2>15. CASE from # 0 /\ M[At(1)].next # NoNode
      <3> DEFINE s == [k \in 1 .. len + 1 |-> At(k - 1)]
      <3>1. len > 1 /\ M[At(1)].next = At(2)
        BY <2>2, <2>6, <2>15
      <3>2. asks = [k \in 1 .. len + 1 |-> IF k = 1 THEN w ELSE Scatter(p)[k - 1]]
        <4>1. asks = <<w>> \o Scatter(p)
          BY <2>10, <2>12, <2>15
        <4>2. PICK g, u : g = Scatter(p) /\ u = w
          OBVIOUS
        <4>3. g = [i \in 1 .. len |-> g[i]]
          BY <2>5, <4>2
        <4>4. <<u>> \o g = [k \in 1 .. len + 1 |-> IF k = 1 THEN u ELSE g[k - 1]]
          BY <2>6, <4>3
        <4> QED
          BY <4>1, <4>2, <4>4
      <3>3. s \in [1 .. len + 1 -> NodeNames] /\ s[1] = At(0)
            /\ \A k \in 1 .. len + 1 : s[k] = At(k - 1)
        BY <2>3, <2>6
      <3> HIDE DEF s
      <3>4. asks = [k \in 1 .. len + 1 |-> Job(M[s[k]])]
        <4>1. \A k \in 1 .. len + 1 :
                (IF k = 1 THEN w ELSE Scatter(p)[k - 1]) = Job(M[s[k]])
          <5> TAKE k \in 1 .. len + 1
          <5>1. CASE k = 1
            BY <2>6, <2>8, <2>15, <3>3, <5>1 DEF w
          <5>2. CASE k # 1
            <6>1. k - 1 \in 1 .. len /\ s[k] = At(k - 1)
              BY <2>6, <3>3, <5>2
            <6> QED
              BY <2>1, <5>2, <6>1
          <5> QED
            BY <5>1, <5>2
        <4> QED
          BY <3>2, <4>1, Zenon
      <3>5. \A k \in 1 .. len : M[s[k]].next = s[k + 1]
        <4> TAKE k \in 1 .. len
        <4>1. s[k] = At(k - 1) /\ s[k + 1] = At(k)
          BY <2>6, <3>3
        <4>2. CASE k = 1
          BY <2>7, <2>15, <4>1, <4>2
        <4>3. CASE k = 2
          BY <3>1, <4>1, <4>3
        <4>4. CASE k > 2
          <5>1. k - 1 \in 2 .. len - 1 /\ (k - 1) + 1 = k
            BY <2>6, <4>4
          <5> QED
            BY <2>2, <4>1, <5>1
        <4> QED
          BY <4>2, <4>3, <4>4
      <3>6. PICK many \in Nat \ {0} : many = len + 1
        BY <2>6
      <3>7. /\ Reach(s[1]) \in Nat /\ many <= Reach(s[1]) /\ M[s[many]].next = NoNode
            /\ \A k \in 1 .. many - 1 : M[s[k]].next = s[k + 1]
            /\ \A k \in 1 .. many : Owner(s[k]) = p
        <4>1. Reach(s[1]) = many
          BY <2>4, <3>3, <3>6
        <4>2. s[many] = At(len)
          BY <2>6, <3>3, <3>6
        <4>3. \A k \in 1 .. many : Owner(s[k]) = p
          BY <2>3, <2>6, <3>3, <3>6
        <4>4. \A k \in 1 .. many - 1 : M[s[k]].next = s[k + 1]
          BY <2>6, <3>5, <3>6
        <4> QED
          BY <2>2, <3>6, <4>1, <4>2, <4>3, <4>4
      <3>8. Serves(M, asks, s[1], p)
        BY <3>3, <3>4, <3>6, <3>7, ServesAlong, Zenon
      <3> QED
        BY <2>9, <2>15, <3>3, <3>8
    <2> QED
      BY <2>13, <2>14, <2>15
  <1> QED
    BY <1>7, <1>8, <1>9 DEF M


(* What transfer_data writes into the channel's own node.                     *)
RawNode(i) ==
  [nodes EXCEPT ![<<"channel", "raw", i>>].src = Raw.src,
                ![<<"channel", "raw", i>>].dst = Raw.dst,
                ![<<"channel", "raw", i>>].size = Raw.size]

LEMMA DataSetsItsNode ==
  ASSUME NodesOK(nodes), NEW id \in Ids
  PROVE  LET M == RawNode(id)
         IN  /\ NodesOK(M) /\ Serves(M, <<Raw>>, <<"channel", "raw", id>>, "raw")
             /\ \A n \in NodeNames : Owner(n) # "raw" => M[n] = nodes[n]
  <1> DEFINE node == <<"channel", "raw", id>>
  <1>1. node \in NodeNames /\ node[1] = "channel" /\ Owner(node) = "raw" /\ Reach(node) = 1
    BY PacketsOwnTheirNodes
  <1>2. /\ nodes = [n \in NodeNames |-> nodes[n]]
        /\ \A n \in NodeNames : IsNode(nodes[n]) /\ (n[1] # "channel" => nodes[n] = Configured(nodes[n]))
        /\ \A i \in Ids : nodes[<<"channel", "raw", i>>].next = NoNode
    BY DEF NodesOK, WellMade
  <1>3. PICK M : M = RawNode(id)
    OBVIOUS
  <1>4. PICK r : r = [nodes[node] EXCEPT !.src = Raw.src, !.dst = Raw.dst, !.size = Raw.size]
    OBVIOUS
  <1>5. IsNode(r) /\ r.src = Raw.src /\ r.dst = Raw.dst /\ r.size = Raw.size /\ r.next = NoNode
    <2>1. PICK o : o = nodes[node]
      OBVIOUS
    <2>2. IsNode(o) /\ o.next = NoNode
      BY <1>1, <1>2, <2>1
    <2>3. PICK src, dst, size, next, elem, burst, tcm :
            o = [src |-> src, dst |-> dst, size |-> size, next |-> next,
                 elem |-> elem, burst |-> burst, tcm |-> tcm]
      BY <2>2 DEF IsNode
    <2>4. next = NoNode
      BY <2>2, <2>3
    <2>5. PICK a, b, c : a = Raw.src /\ b = Raw.dst /\ c = Raw.size
      OBVIOUS
    <2>6. r = [o EXCEPT !.src = a, !.dst = b, !.size = c]
      BY <1>4, <2>1, <2>5
    <2>7. r = [src |-> a, dst |-> b, size |-> c, next |-> next,
               elem |-> elem, burst |-> burst, tcm |-> tcm]
      BY <2>3, <2>6
    <2> QED
      BY <2>4, <2>5, <2>7 DEF IsNode
  <1>6. M = [nodes EXCEPT ![node] = r]
    <2> HIDE DEF node
    <2>1. M = [nodes EXCEPT ![node].src = Raw.src, ![node].dst = Raw.dst, ![node].size = Raw.size]
      BY <1>3 DEF RawNode, node
    <2> QED
      BY <1>1, <1>2, <1>4, <2>1
  <1>7. /\ M = [n \in NodeNames |-> M[n]] /\ M[node] = r
        /\ \A n \in NodeNames : n # node => M[n] = nodes[n]
    <2> HIDE DEF node
    <2> QED
      BY <1>1, <1>2, <1>6
  <1>8. \A n \in NodeNames : Owner(n) # "raw" => M[n] = nodes[n]
    BY <1>1, <1>7
  <1>9. WellMade(M)
    <2>1. \A n \in NodeNames : IsNode(M[n]) /\ (n[1] # "channel" => M[n] = Configured(M[n]))
      <3> HIDE DEF node
      <3> QED
        BY <1>1, <1>2, <1>5, <1>7
    <2>2. \A i \in Ids : M[<<"channel", "raw", i>>].next = NoNode
      BY <1>1, <1>2, <1>5, <1>7, PacketsOwnTheirNodes
    <2> QED
      BY <1>7, <2>1, <2>2 DEF WellMade
  <1>10. ASSUME NEW q \in Sent PROVE BuildsWell(M, q)
    <2>1. BuildsWell(nodes, q) /\ Count(q) \in Nat \ {0} /\ q # "raw"
      BY PacketsHaveValues DEF NodesOK
    <2>2. \A i \in 0 .. Count(q) : M[<<q, "build", i>>] = nodes[<<q, "build", i>>]
      BY <1>8, <2>1, PacketsOwnTheirNodes
    <2> QED
      BY <2>1, <2>2 DEF BuildsWell
  <1>11. ASSUME NEW q \in Received PROVE ParsesWell(M, q)
    <2>1. ParsesWell(nodes, q) /\ Count(q) \in Nat \ {0} /\ q # "raw"
      BY PacketsHaveValues DEF NodesOK
    <2>2. \A i \in 0 .. Count(q) : M[<<q, "parse", i>>] = nodes[<<q, "parse", i>>]
      BY <1>8, <2>1, PacketsOwnTheirNodes
    <2> QED
      BY <2>1, <2>2 DEF ParsesWell
  <1>12. Serves(M, <<Raw>>, node, "raw")
    <2> DEFINE s == [k \in 1 .. 1 |-> node]
    <2>1. Job(r) = Raw
      BY <1>5, MdmaAssumption DEF Job
    <2>2. s \in [1 .. 1 -> NodeNames] /\ s[1] = node
      BY <1>1
    <2>3. <<Raw>> = [k \in 1 .. 1 |-> Job(M[s[k]])]
      BY <1>7, <2>1
    <2>4. /\ Reach(s[1]) \in Nat /\ 1 <= Reach(s[1]) /\ M[s[1]].next = NoNode
          /\ \A k \in 1 .. 1 : Owner(s[k]) = "raw"
          /\ \A k \in 1 .. 1 - 1 : M[s[k]].next = s[k + 1]
          /\ 1 \in Nat \ {0}
      <3> HIDE DEF node, s
      <3> QED
        BY <1>1, <1>5, <1>7, <2>2
    <2> HIDE DEF node, s
    <2>5. Serves(M, <<Raw>>, s[1], "raw")
      BY <2>2, <2>3, <2>4, ServesAlong, Zenon
    <2> QED
      BY <2>2, <2>5
  <1> QED
    BY <1>3, <1>8, <1>9, <1>10, <1>11, <1>12 DEF NodesOK

LEMMA NodesAreMade ==
  ASSUME NEW src, NEW dst, NEW size, NEW next
  PROVE  LET r == Node(src, dst, size, next)
         IN  /\ IsNode(r) /\ r = Configured(r)
             /\ Job(r) = [src |-> src, dst |-> dst, size |-> size]
             /\ r.src = src /\ r.dst = dst /\ r.size = size /\ r.next = next
  <1>1. PICK b : b = [src |-> src, dst |-> dst, size |-> size, next |-> next,
                      elem |-> 1, burst |-> 1, tcm |-> {}]
    OBVIOUS
  <1>2. IsNode(b) /\ b.src = src /\ b.dst = dst /\ b.size = size /\ b.next = next
    BY <1>1 DEF IsNode
  <1>3. Node(src, dst, size, next) = Configured(b)
    BY <1>1 DEF Node
  <1> QED
    BY <1>2, <1>3, ConfiguredIsWellSet DEF Job

LEMMA NodesStartOK == MdmaInit => NodesOK(nodes)
  <1> SUFFICES ASSUME MdmaInit PROVE NodesOK(nodes)
    OBVIOUS
  <1>1. nodes = [n \in NodeNames |-> IF n[1] = "channel" THEN BareNode ELSE PacketNode(n)]
    BY DEF MdmaInit
  <1>2. ASSUME NEW n \in NodeNames
        PROVE  IsNode(nodes[n]) /\ (n[1] # "channel" => nodes[n] = Configured(nodes[n]))
    <2>1. CASE n[1] = "channel"
      BY <1>1, <2>1 DEF BareNode, IsNode
    <2>2. CASE n[1] # "channel"
      <3>1. nodes[n] = PacketNode(n)
        BY <1>1, <2>2
      <3>2. \E src, dst, size, next : PacketNode(n) = Node(src, dst, size, next)
        <4> DEFINE v == Parts(n[1])[n[3]]
        <4>1. PacketNode(n) \in {Node(Buffer[n[1]], 0, Size(n[1]), NoNode),
                                Node(Buffer[n[1]], Buffer[n[1]], Size(n[1]), NoNode),
                                Node(v.at, Buffer[n[1]] + v.offset, v.size, Following(n)),
                                Node(Buffer[n[1]] + v.offset, v.at, v.size, Following(n))}
          <5> HIDE DEF v
          <5>1. PICK bare, whole, gathers, scatters :
                  /\ bare = Node(Buffer[n[1]], 0, Size(n[1]), NoNode)
                  /\ whole = Node(Buffer[n[1]], Buffer[n[1]], Size(n[1]), NoNode)
                  /\ gathers = Node(v.at, Buffer[n[1]] + v.offset, v.size, Following(n))
                  /\ scatters = Node(Buffer[n[1]] + v.offset, v.at, v.size, Following(n))
            OBVIOUS
          <5>2. PacketNode(n) = CASE n[2] = "build" /\ n[3] = 0 -> bare
                                  [] n[2] = "parse" /\ n[3] = 0 -> whole
                                  [] n[2] = "build" /\ n[3] > 0 -> gathers
                                  [] OTHER -> scatters
            BY <5>1, Zenon DEF PacketNode, v
          <5>3. PacketNode(n) \in {bare, whole, gathers, scatters}
            BY <5>2
          <5> QED
            BY <5>1, <5>3
        <4> QED
          BY <4>1, Zenon
      <3> QED
        BY <3>1, <3>2, NodesAreMade
    <2> QED
      BY <2>1, <2>2
  <1>3. \A i \in Ids : nodes[<<"channel", "raw", i>>].next = NoNode
    BY <1>1, PacketsOwnTheirNodes DEF BareNode
  <1>4. ASSUME NEW p \in Sent PROVE BuildsWell(nodes, p)
    <2>1. p # "channel" /\ Count(p) \in Nat \ {0}
      BY PacketsHaveValues
    <2>2. ASSUME NEW i \in 0 .. Count(p)
          PROVE  nodes[<<p, "build", i>>] = PacketNode(<<p, "build", i>>)
      <3>1. PICK n : n = <<p, "build", i>>
        OBVIOUS
      <3>2. n \in NodeNames /\ n[1] # "channel"
        BY <2>1, <3>1, PacketsOwnTheirNodes
      <3> QED
        BY <1>1, <3>1, <3>2
    <2>3. ASSUME NEW i \in 1 .. Count(p)
          PROVE  PacketNode(<<p, "build", i>>)
                 = Node(Parts(p)[i].at, Buffer[p] + Parts(p)[i].offset, Parts(p)[i].size,
                        Following(<<p, "build", i>>))
      BY <2>1 DEF PacketNode
    <2>4. PacketNode(<<p, "build", 0>>) = Node(Buffer[p], 0, Size(p), NoNode)
      BY DEF PacketNode
    <2>5. \A i \in 1 .. Count(p) - 1 : Following(<<p, "build", i>>) = <<p, "build", i + 1>>
      BY <2>1 DEF Following
    <2>6. ASSUME NEW i \in 1 .. Count(p) PROVE Job(nodes[<<p, "build", i>>]) = Gather(p)[i]
      <3>1. DOMAIN Gather(p) = 1 .. Count(p)
        BY PacketsHaveValues
      <3>2. Gather(p)[i] = [src |-> Parts(p)[i].at, size |-> Parts(p)[i].size,
                            dst |-> Buffer[p] + Parts(p)[i].offset]
        BY <3>1 DEF Gather
      <3> QED
        BY <2>1, <2>2, <2>3, <3>2, NodesAreMade
    <2>7. ASSUME NEW i \in 1 .. Count(p) - 1
          PROVE  nodes[<<p, "build", i>>].next = <<p, "build", i + 1>>
      BY <2>1, <2>2, <2>3, <2>5, NodesAreMade
    <2>8. nodes[<<p, "build", 0>>] = Node(Buffer[p], 0, Size(p), NoNode)
      BY <2>1, <2>2, <2>4
    <2> QED
      BY <2>6, <2>7, <2>8, NodesAreMade DEF BuildsWell
  <1>5. ASSUME NEW p \in Received PROVE ParsesWell(nodes, p)
    <2>1. p # "channel" /\ Count(p) \in Nat \ {0}
      BY PacketsHaveValues
    <2>2. ASSUME NEW i \in 0 .. Count(p)
          PROVE  nodes[<<p, "parse", i>>] = PacketNode(<<p, "parse", i>>)
      <3>1. PICK n : n = <<p, "parse", i>>
        OBVIOUS
      <3>2. n \in NodeNames /\ n[1] # "channel"
        BY <2>1, <3>1, PacketsOwnTheirNodes
      <3> QED
        BY <1>1, <3>1, <3>2
    <2>3. ASSUME NEW i \in 1 .. Count(p)
          PROVE  PacketNode(<<p, "parse", i>>)
                 = Node(Buffer[p] + Parts(p)[i].offset, Parts(p)[i].at, Parts(p)[i].size,
                        Following(<<p, "parse", i>>))
      BY <2>1 DEF PacketNode
    <2>4. PacketNode(<<p, "parse", 0>>) = Node(Buffer[p], Buffer[p], Size(p), NoNode)
      BY DEF PacketNode
    <2>5. /\ \A i \in 1 .. Count(p) - 1 : Following(<<p, "parse", i>>) = <<p, "parse", i + 1>>
          /\ Following(<<p, "parse", Count(p)>>) = NoNode
      BY <2>1 DEF Following
    <2>6. ASSUME NEW i \in 1 .. Count(p) PROVE Job(nodes[<<p, "parse", i>>]) = Scatter(p)[i]
      <3>1. DOMAIN Scatter(p) = 1 .. Count(p)
        BY PacketsHaveValues
      <3>2. Scatter(p)[i] = [dst |-> Parts(p)[i].at, size |-> Parts(p)[i].size,
                             src |-> Buffer[p] + Parts(p)[i].offset]
        BY <3>1 DEF Scatter
      <3> QED
        BY <2>1, <2>2, <2>3, <3>2, NodesAreMade
    <2>7. ASSUME NEW i \in 1 .. Count(p)
          PROVE  nodes[<<p, "parse", i>>].next = Following(<<p, "parse", i>>)
      BY <2>1, <2>2, <2>3, NodesAreMade
    <2>8. nodes[<<p, "parse", 0>>] = Node(Buffer[p], Buffer[p], Size(p), NoNode)
      BY <2>1, <2>2, <2>4
    <2>9. /\ \A i \in 2 .. Count(p) - 1 : nodes[<<p, "parse", i>>].next = <<p, "parse", i + 1>>
          /\ Count(p) > 1 => nodes[<<p, "parse", 1>>].next = <<p, "parse", 2>>
          /\ nodes[<<p, "parse", Count(p)>>].next = NoNode
      BY <2>1, <2>5, <2>7
    <2> QED
      BY <2>6, <2>8, <2>9, NodesAreMade DEF ParsesWell
  <1> QED
    BY <1>1, <1>2, <1>3, <1>4, <1>5 DEF NodesOK, WellMade


-----------------------------------------------------------------------------
(* The invariant: what each place that may hold a request says of it.         *)
MdmaTypeOK ==
  /\ channel \in [Ids -> [state : {"READY", "BUSY"}, done : Callers \cup {Null},
                          node : NodeNames \cup {NoNode}, moves : BOOLEAN]]
  /\ freeMap \in SUBSET Ids
  /\ stack \in Seq([first : NodeNames, done : Packets])
  /\ loop \in [at : {"idle", "list", "data", "pop", "next"}, id : Ids \cup {0}, word : SUBSET Ids]
  /\ blocked \in Callers \cup {Null}
  /\ done \in [Callers -> BOOLEAN]
  /\ caller = [c \in Callers |-> [asks |-> caller[c].asks, moved |-> caller[c].moved]]
  /\ failed \subseteq Callers

(* A channel that moves data is busy, and no free one is; one whose request    *)
(* was refused stays busy, one whose transfer failed is ready but not free.   *)
Taken(id) == channel[id].state = "BUSY"

ChannelsOK ==
  /\ \A id \in Ids : /\ channel[id].moves => Taken(id)
                     /\ id \in freeMap => ~Taken(id)
  /\ loop.at \in {"list", "data"} => loop.id \in loop.word /\ loop.word \subseteq freeMap
  /\ loop.at \in {"list", "pop"} => stack # <<>>
  /\ loop.at = "list" => /\ channel[loop.id].done = stack[Len(stack)].done
                         /\ channel[loop.id].node = stack[Len(stack)].first
  /\ loop.at = "data" => channel[loop.id].done = "raw"

Asked(c)  == caller[c].asks # <<>>
InUnit(c) == \E id \in Ids : channel[id].moves /\ channel[id].done = c

(* A packet parsed from its own buffer has lost its list: what serves it may   *)
(* be anything.                                                               *)
Serving(N, first, c) == c \notin cut => Serves(N, caller[c].asks, first, c)

Held(c)   == \/ \E k \in DOMAIN stack : stack[k].done = c /\ ~(loop.at = "pop" /\ k = Len(stack))
             \/ InUnit(c)
             \/ loop.at = "data" /\ c = "raw"
             \/ done[c]

StackOK ==
  /\ \A j, k \in DOMAIN stack : stack[j].done = stack[k].done => j = k
  /\ \A k \in DOMAIN stack :
        /\ Asked(stack[k].done)
        /\ Serving(nodes, stack[k].first, stack[k].done)
        /\ done[stack[k].done] \/ InUnit(stack[k].done) \/ stack[k].done \in failed
           => loop.at = "pop" /\ k = Len(stack)

UnitOK ==
  /\ \A i, j \in Ids :
        channel[i].moves /\ channel[j].moves /\ channel[i].done = channel[j].done => i = j
  /\ \A id \in Ids : channel[id].moves =>
        /\ channel[id].done # Null /\ ~done[channel[id].done] /\ Asked(channel[id].done)
        /\ Serving(nodes, channel[id].node, channel[id].done)

DataOK ==
  loop.at = "data" =>
     /\ ~done["raw"] /\ Asked("raw") /\ ~InUnit("raw") /\ "raw" \notin failed
     /\ Serving(nodes, channel[loop.id].node, "raw")

FlagsOK  == \A c \in Callers : done[c] => /\ Asked(c)
                                          /\ c \notin cut => caller[c].moved = caller[c].asks
FailedOK == \A c \in failed : Asked(c) /\ ~done[c] /\ ~InUnit(c)
KeptOK   == \A c \in Callers : Asked(c) => Held(c) \/ c \in failed

(* Only a packet parsed from its own buffer has its list cut.                 *)
CutOK == \A p \in Received \ cut : Count(p) > 1 => nodes[<<p, "parse", 1>>].next # NoNode

MdmaInv == /\ MdmaTypeOK /\ NodesOK(nodes) /\ ChannelsOK
           /\ StackOK /\ UnitOK /\ DataOK
        /\ FlagsOK /\ FailedOK /\ KeptOK /\ CutOK

LEMMA RawIsACaller == "raw" \in Callers /\ "raw" \notin Packets /\ Null \notin Callers
  BY MdmaAssumption DEF Callers, Null

LEMMA EntriesAreTyped ==
  ASSUME MdmaTypeOK
  PROVE  /\ Len(stack) \in Nat /\ DOMAIN stack = 1 .. Len(stack)
         /\ \A k \in DOMAIN stack : /\ stack[k] \in [first : NodeNames, done : Packets]
                                   /\ stack[k].first \in NodeNames /\ stack[k].done \in Packets
                                   /\ stack[k].done \in Callers /\ stack[k].done # "raw"
  <1> DEFINE Entries == [first : NodeNames, done : Packets]
  <1>1. stack \in Seq(Entries)
    BY DEF MdmaTypeOK
  <1>2. \A e \in Entries : e.first \in NodeNames /\ e.done \in Packets
    OBVIOUS
  <1> HIDE DEF Entries
  <1>3. /\ Len(stack) \in Nat /\ DOMAIN stack = 1 .. Len(stack)
        /\ \A k \in DOMAIN stack : stack[k] \in Entries
    BY <1>1
  <1> QED
    BY <1>2, <1>3, RawIsACaller DEF Callers, Entries

LEMMA ListsStartWhole == MdmaInit => CutOK
  <1> SUFFICES ASSUME MdmaInit, NEW p \in Received, Count(p) > 1
               PROVE  nodes[<<p, "parse", 1>>].next # NoNode
    BY DEF CutOK
  <1>1. PICK n : n = <<p, "parse", 1>>
    OBVIOUS
  <1>2. p # "channel" /\ Count(p) \in Nat \ {0} /\ n \in NodeNames
    BY <1>1, PacketsHaveValues, PacketsOwnTheirNodes
  <1>3. nodes[n] = PacketNode(n)
    BY <1>1, <1>2 DEF MdmaInit
  <1>4. PacketNode(n) = Node(Buffer[p] + Parts(p)[1].offset, Parts(p)[1].at, Parts(p)[1].size,
                             Following(n))
    BY <1>1 DEF PacketNode
  <1>5. Following(n) = <<p, "parse", 2>>
    BY <1>1, <1>2 DEF Following
  <1>6. <<p, "parse", 2>> \in NodeNames
    BY <1>2, PacketsOwnTheirNodes
  <1> QED
    BY <1>1, <1>3, <1>4, <1>5, <1>6, NodesAreMade, NoNodeIsNoNode

LEMMA MdmaStartsWell == MdmaInit => MdmaInv
  <1> SUFFICES ASSUME MdmaInit PROVE MdmaInv
    OBVIOUS
  <1>1. MdmaTypeOK
    <2>1. stack \in Seq([first : NodeNames, done : Packets])
      BY DEF MdmaInit
    <2>2. channel \in [Ids -> [state : {"READY", "BUSY"}, done : Callers \cup {Null},
                               node : NodeNames \cup {NoNode}, moves : BOOLEAN]]
      BY DEF MdmaInit
    <2>3. caller = [c \in Callers |-> [asks |-> caller[c].asks, moved |-> caller[c].moved]]
      BY DEF MdmaInit
    <2> QED
      BY <2>1, <2>2, <2>3 DEF MdmaTypeOK, MdmaInit, Idle
  <1>2. \A id \in Ids : ~Taken(id) /\ ~channel[id].moves
    BY DEF MdmaInit, Taken
  <1>3. ChannelsOK
    BY <1>2 DEF ChannelsOK, MdmaInit, Idle
  <1>4. StackOK
    BY DEF StackOK, MdmaInit
  <1>5. UnitOK
    BY <1>2 DEF UnitOK
  <1>6. DataOK /\ FlagsOK /\ FailedOK /\ KeptOK
    BY DEF DataOK, FlagsOK, FailedOK, KeptOK, Asked, MdmaInit, Idle
  <1> QED
    BY <1>1, <1>3, <1>4, <1>5, <1>6, NodesStartOK, ListsStartWhole DEF MdmaInv

(* The invariant says what the run checks: one place for each request.        *)
LEMMA MdmaInvServes == MdmaInv => MdmaServesItsCallers
  <1> SUFFICES ASSUME MdmaInv PROVE MdmaServesItsCallers
    OBVIOUS
  <1>1. \A c \in Callers \ cut : done[c] => caller[c].moved = caller[c].asks
    BY DEF MdmaInv, FlagsOK
  <1>2. \A n \in NodeNames : n[1] # "channel" => nodes[n] = Configured(nodes[n])
    BY DEF MdmaInv, NodesOK, WellMade
  <1>3. \A id \in freeMap : channel[id].state = "READY" /\ ~channel[id].moves
    BY DEF MdmaInv, ChannelsOK, MdmaTypeOK, Taken
  <1>4. ASSUME NEW c \in Callers
        PROVE  Places(c) = IF caller[c].asks = <<>> \/ c \in failed THEN 0 ELSE 1
    <2> DEFINE S == {k \in DOMAIN stack : stack[k].done = c /\ ~(loop.at = "pop" /\ k = Len(stack))}
               U == {id \in Ids : channel[id].moves /\ channel[id].done = c}
               d == IF loop.at = "data" /\ c = "raw" THEN 1 ELSE 0
               f == IF done[c] THEN 1 ELSE 0
    <2>1. Places(c) = Cardinality(S) + Cardinality(U) + d + f
      BY DEF Places
    <2>2. U # {} <=> InUnit(c)
      BY DEF InUnit
    <2>3. \A i, j \in U : i = j
      BY DEF MdmaInv, UnitOK
    <2>4. \A i, j \in S : i = j
      BY DEF MdmaInv, StackOK
    <2>5. S # {} => ~done[c] /\ U = {} /\ Asked(c) /\ c \notin failed
      <3> SUFFICES ASSUME NEW k \in S PROVE ~done[c] /\ U = {} /\ Asked(c) /\ c \notin failed
        OBVIOUS
      <3>1. k \in DOMAIN stack /\ stack[k].done = c /\ ~(loop.at = "pop" /\ k = Len(stack))
        OBVIOUS
      <3> QED
        BY <2>2, <3>1 DEF MdmaInv, StackOK
    <2>6. S # {} => ~(loop.at = "data" /\ c = "raw")
      <3> SUFFICES ASSUME NEW k \in S, c = "raw" PROVE FALSE
        OBVIOUS
      <3>1. stack[k].done \in Packets
        BY EntriesAreTyped DEF MdmaInv
      <3> QED
        BY <3>1, RawIsACaller
    <2>7. U # {} => ~done[c] /\ Asked(c) /\ c \notin failed
      <3> SUFFICES ASSUME NEW id \in U PROVE ~done[c] /\ Asked(c) /\ c \notin failed
        OBVIOUS
      <3> QED
        BY <2>2 DEF MdmaInv, UnitOK, FailedOK
    <2>8. loop.at = "data" /\ c = "raw" => ~done[c] /\ U = {} /\ Asked(c) /\ c \notin failed
      BY <2>2 DEF MdmaInv, DataOK
    <2>9. done[c] => Asked(c) /\ c \notin failed
      BY DEF MdmaInv, FlagsOK, FailedOK
    <2>10. Asked(c) /\ c \notin failed => S # {} \/ U # {} \/ (loop.at = "data" /\ c = "raw") \/ done[c]
      <3> SUFFICES ASSUME Asked(c), c \notin failed
                   PROVE  S # {} \/ U # {} \/ (loop.at = "data" /\ c = "raw") \/ done[c]
        OBVIOUS
      <3>1. Held(c)
        BY DEF MdmaInv, KeptOK
      <3> QED
        BY <2>2, <3>1 DEF Held
    <2>11. /\ S = {} => Cardinality(S) = 0
           /\ S # {} => Cardinality(S) = 1
      <3>1. S # {} => \E x : S = {x}
        BY <2>4, ZenonT(30)
      <3> HIDE DEF S
      <3> QED
        BY <3>1, FS_EmptySet, FS_Singleton
    <2>12. /\ U = {} => Cardinality(U) = 0
           /\ U # {} => Cardinality(U) = 1
      <3>1. U # {} => \E x : U = {x}
        BY <2>3
      <3> HIDE DEF U
      <3> QED
        BY <3>1, FS_EmptySet, FS_Singleton
    <2>13. done[c] \in BOOLEAN
      BY DEF MdmaInv, MdmaTypeOK
    <2> HIDE DEF S, U
    <2>14. Cardinality(S) + Cardinality(U) + d + f = IF Asked(c) /\ c \notin failed THEN 1 ELSE 0
      <3>1. CASE S # {}
        BY <2>5, <2>6, <2>11, <2>12, <3>1
      <3>2. CASE S = {} /\ U # {}
        BY <2>7, <2>8, <2>11, <2>12, <3>2
      <3>3. CASE S = {} /\ U = {} /\ loop.at = "data" /\ c = "raw"
        BY <2>8, <2>11, <2>12, <3>3
      <3>4. CASE S = {} /\ U = {} /\ ~(loop.at = "data" /\ c = "raw")
        BY <2>9, <2>10, <2>11, <2>12, <2>13, <3>4
      <3> QED
        BY <3>1, <3>2, <3>3, <3>4
    <2> QED
      BY <2>1, <2>14 DEF Asked
  <1> QED
    BY <1>1, <1>2, <1>3, <1>4
       DEF MdmaServesItsCallers, RequestsAreKept, WhatWasAskedIsMoved


LEMMA NewRequest ==
  ASSUME MdmaTypeOK, NEW p \in Callers, NEW asks,
         caller' = [caller EXCEPT ![p].asks = asks, ![p].moved = <<>>]
  PROVE  /\ caller' = [c \in Callers |-> [asks |-> caller'[c].asks, moved |-> caller'[c].moved]]
         /\ caller'[p].asks = asks
         /\ \A c \in Callers : c # p => caller'[c] = caller[c]
  <1>1. caller = [c \in Callers |-> [asks |-> caller[c].asks, moved |-> caller[c].moved]]
    BY DEF MdmaTypeOK
  <1>2. PICK q : q = [caller[p] EXCEPT !.asks = asks, !.moved = <<>>]
    OBVIOUS
  <1>3. q = [asks |-> asks, moved |-> <<>>]
    <2>1. PICK a, m : caller[p] = [asks |-> a, moved |-> m]
      BY <1>1
    <2> QED
      BY <1>2, <2>1
  <1>4. caller' = [caller EXCEPT ![p] = q]
    BY <1>1, <1>2
  <1>5. caller' = [c \in Callers |-> IF c = p THEN q ELSE caller[c]]
    BY <1>1, <1>4
  <1>6. \A c \in Callers : caller'[c] = IF c = p THEN q ELSE caller[c]
    BY <1>5
  <1>7. \A c \in Callers : caller'[c] = [asks |-> caller'[c].asks, moved |-> caller'[c].moved]
    BY <1>1, <1>3, <1>6
  <1> QED
    BY <1>3, <1>5, <1>6, <1>7

(* build and parse push a request of a caller that has none.                  *)
LEMMA AskingKeepsMdmaInv ==
  ASSUME MdmaInv, NEW p \in Packets, NEW first \in NodeNames, NEW asks, asks # <<>>,
         Ready(p), transfer_list(first, p, asks),
         NodesOK(nodes'), p \notin cut' => Serves(nodes', asks, first, p), CutOK',
         \A n \in NodeNames : Owner(n) # p => nodes'[n] = nodes[n],
         cut' \in {cut, cut \cup {p}}, blocked' \in Callers \cup {Null},
         UNCHANGED <<channel, freeMap, loop, done, failed>>
  PROVE  MdmaInv'
  <1>1. /\ loop.at = "idle" /\ ~Asked(p) /\ p \in Callers /\ p # Null
        /\ MdmaTypeOK /\ ChannelsOK /\ StackOK /\ UnitOK /\ DataOK /\ FlagsOK /\ FailedOK /\ KeptOK
    BY RawIsACaller DEF MdmaInv, Ready, Idle, Asked, Callers
  <1>2. /\ ~done[p] /\ ~InUnit(p) /\ p \notin failed /\ \A k \in DOMAIN stack : stack[k].done # p
    BY <1>1 DEF FlagsOK, FailedOK, InUnit, UnitOK, StackOK
  <1>3. done' = done /\ failed' = failed
    OBVIOUS
  <1>4. /\ \A id \in Ids : Taken(id)' = Taken(id)
        /\ \A c : InUnit(c)' = InUnit(c)
    BY DEF Taken, InUnit
  <1>5. ASSUME NEW c, NEW f, c # p, caller'[c] = caller[c], Serving(nodes, f, c)
        PROVE  c \notin cut' => Serves(nodes', caller'[c].asks, f, c)
    BY <1>5, StillServes DEF Serving
  <1>6. CASE Len(stack) >= TRANSFER_QUEUE_MAX_SIZE
    <2>1. UNCHANGED <<stack, caller>>
      BY <1>6 DEF transfer_list
    <2>2. MdmaTypeOK'
      BY <1>1, <1>3, <2>1 DEF MdmaTypeOK
    <2>3. ChannelsOK'
      BY <1>1, <1>4, <2>1 DEF ChannelsOK
    <2>4. StackOK'
      BY <1>1, <1>2, <1>3, <1>4, <1>5, <2>1 DEF StackOK, Asked, Serving
    <2>5. UnitOK'
      BY <1>1, <1>2, <1>3, <1>4, <1>5, <2>1 DEF UnitOK, Asked, InUnit, Serving
    <2>6. DataOK' /\ FlagsOK' /\ FailedOK' /\ KeptOK'
      BY <1>1, <1>3, <1>4, <2>1 DEF DataOK, FlagsOK, FailedOK, KeptOK, Held, Asked
    <2> QED
      BY <2>2, <2>3, <2>4, <2>5, <2>6 DEF MdmaInv
  <1>7. CASE ~(Len(stack) >= TRANSFER_QUEUE_MAX_SIZE)
    <2> DEFINE e == [first |-> first, done |-> p]
    <2>1. /\ stack' = Append(stack, e)
          /\ caller' = [caller EXCEPT ![p].asks = asks, ![p].moved = <<>>]
      BY <1>7 DEF transfer_list
    <2>2. /\ stack \in Seq([first : NodeNames, done : Packets]) /\ e \in [first : NodeNames, done : Packets]
          /\ e.first = first /\ e.done = p
      BY <1>1 DEF MdmaTypeOK
    <2> HIDE DEF e
    <2>3. /\ stack' \in Seq([first : NodeNames, done : Packets])
          /\ Len(stack) \in Nat /\ DOMAIN stack = 1 .. Len(stack)
          /\ Len(stack') = Len(stack) + 1 /\ DOMAIN stack' = 1 .. Len(stack) + 1
          /\ \A k \in 1 .. Len(stack) : stack'[k] = stack[k]
          /\ stack'[Len(stack) + 1] = e
      BY <2>1, <2>2
    <2>4. /\ caller' = [c \in Callers |-> [asks |-> caller'[c].asks, moved |-> caller'[c].moved]]
          /\ caller'[p].asks = asks
          /\ \A c \in Callers : c # p => caller'[c] = caller[c]
      BY <1>1, <2>1, NewRequest
    <2>5. /\ Asked(p)' /\ \A c \in Callers : c # p => Asked(c)' = Asked(c)
      BY <2>4 DEF Asked
    <2>6. \A k \in 1 .. Len(stack) : stack[k].done \in Callers /\ stack[k].done # p
      BY <1>1, <1>2, <2>3, EntriesAreTyped
    <2>7. MdmaTypeOK'
      BY <1>1, <1>3, <2>3, <2>4 DEF MdmaTypeOK
    <2>8. ChannelsOK'
      BY <1>1, <1>4 DEF ChannelsOK
    <2>9. StackOK'
      <3>1. \A j, k \in DOMAIN stack' : stack'[j].done = stack'[k].done => j = k
        <4> SUFFICES ASSUME NEW j \in 1 .. Len(stack) + 1, NEW k \in 1 .. Len(stack) + 1,
                            stack'[j].done = stack'[k].done
                     PROVE  j = k
          BY <2>3
        <4>1. CASE j \in 1 .. Len(stack) /\ k \in 1 .. Len(stack)
          BY <1>1, <2>3, <4>1 DEF StackOK
        <4>2. CASE j \in 1 .. Len(stack) /\ k = Len(stack) + 1
          BY <2>2, <2>3, <2>6, <4>2
        <4>3. CASE j = Len(stack) + 1 /\ k \in 1 .. Len(stack)
          BY <2>2, <2>3, <2>6, <4>3
        <4> QED
          BY <2>3, <4>1, <4>2, <4>3
      <3>2. ASSUME NEW k \in DOMAIN stack'
            PROVE  /\ Asked(stack[k].done)'
                   /\ Serving(nodes, stack[k].first, stack[k].done)'
                   /\ done'[stack'[k].done] \/ InUnit(stack[k].done)' \/ stack'[k].done \in failed'
                      => loop'.at = "pop" /\ k = Len(stack')
        <4>1. CASE k \in 1 .. Len(stack)
          <5>1. PICK c, f : c = stack[k].done /\ f = stack[k].first
            OBVIOUS
          <5>2. c \in Callers /\ c # p /\ stack'[k].done = c /\ stack'[k].first = f
            BY <2>3, <2>6, <4>1, <5>1
          <5>3. /\ Asked(c) /\ Serving(nodes, f, c) /\ ~done[c] /\ ~InUnit(c) /\ c \notin failed
            BY <1>1, <2>3, <4>1, <5>1 DEF StackOK
          <5>4. /\ Asked(c)' /\ ~done'[c] /\ ~InUnit(c)' /\ c \notin failed'
                /\ c \notin cut' => Serves(nodes', caller'[c].asks, f, c)
            BY <1>3, <1>4, <1>5, <2>4, <2>5, <5>2, <5>3
          <5> QED
            BY <5>2, <5>4 DEF Asked, InUnit, Serving
        <4>2. CASE k = Len(stack) + 1
          <5>1. stack'[k].done = p /\ stack'[k].first = first
            BY <2>2, <2>3, <4>2
          <5>2. ~done'[p] /\ ~InUnit(p)'
            BY <1>2, <1>3, <1>4
          <5> QED
            BY <1>2, <1>3, <2>4, <5>1, <5>2 DEF Asked, InUnit, Serving
        <4> QED
          BY <2>3, <4>1, <4>2
      <3> QED
        BY <3>1, <3>2 DEF StackOK, Asked, InUnit
    <2>10. UnitOK'
      <3>1. ASSUME NEW id \in Ids, channel[id].moves
            PROVE  /\ channel'[id].done # Null /\ ~done'[channel'[id].done] /\ Asked(channel[id].done)'
                   /\ Serving(nodes, channel[id].node, channel[id].done)'
        <4>1. PICK c, f : c = channel[id].done /\ f = channel[id].node
          OBVIOUS
        <4>2. c \in Callers \cup {Null}
          BY <1>1, <4>1 DEF MdmaTypeOK
        <4>3. /\ c # Null /\ ~done[c] /\ Asked(c) /\ Serving(nodes, f, c) /\ c # p
          BY <1>1, <1>2, <3>1, <4>1 DEF UnitOK, InUnit
        <4>4. /\ ~done'[c] /\ Asked(c)'
              /\ c \notin cut' => Serves(nodes', caller'[c].asks, f, c)
          BY <1>3, <1>5, <2>4, <2>5, <4>2, <4>3
        <4> QED
          BY <4>1, <4>3, <4>4 DEF Asked, Serving
      <3> QED
        BY <1>1, <1>4, <3>1 DEF UnitOK, Asked
    <2>11. DataOK' /\ FlagsOK' /\ FailedOK'
      <3>1. DataOK'
        BY <1>1 DEF DataOK
      <3>2. FlagsOK'
        BY <1>1, <1>2, <1>3, <2>4, <2>5 DEF FlagsOK
      <3>3. FailedOK'
        BY <1>1, <1>2, <1>3, <1>4, <2>5 DEF FailedOK, MdmaTypeOK
      <3> QED
        BY <3>1, <3>2, <3>3
    <2>12. KeptOK'
      <3> SUFFICES ASSUME NEW c \in Callers, Asked(c)', c \notin failed PROVE Held(c)'
        BY <1>3 DEF KeptOK
      <3>1. loop'.at # "pop"
        BY <1>1
      <3>2. CASE c = p
        <4>1. Len(stack) + 1 \in DOMAIN stack' /\ stack'[Len(stack) + 1].done = c
          BY <2>2, <2>3, <3>2
        <4> QED
          BY <3>1, <4>1 DEF Held
      <3>3. CASE c # p
        <4>1. Held(c)
          BY <1>1, <2>5, <3>3 DEF KeptOK
        <4>2. \A k \in DOMAIN stack : k \in DOMAIN stack' /\ stack'[k] = stack[k]
          BY <2>3
        <4> QED
          BY <1>3, <1>4, <3>1, <4>1, <4>2 DEF Held
      <3> QED
        BY <3>2, <3>3
    <2> QED
      BY <2>7, <2>8, <2>9, <2>10, <2>11, <2>12 DEF MdmaInv
  <1> QED
    BY <1>6, <1>7


LEMMA BuildKeepsMdmaInv ==
  ASSUME MdmaInv, NEW p \in Sent, NEW to, NEW blocking \in BOOLEAN, Build(p, to, blocking)
  PROVE  MdmaInv'
  <1>1. PICK asks, first : /\ asks = Gather(p) \o (IF to = 0 THEN <<>> ELSE Whole(p, Buffer[p], to))
                           /\ first = <<p, "build", 1>>
    OBVIOUS
  <1>2. p \in Packets /\ p \in Callers /\ first \in NodeNames
    BY <1>1, PacketsHaveValues, PacketsOwnTheirNodes
  <1>3. asks # <<>>
    <2>1. PICK g, w : g = Gather(p) /\ w = (IF to = 0 THEN <<>> ELSE Whole(p, Buffer[p], to))
      OBVIOUS
    <2>2. g \in Seq({g[i] : i \in DOMAIN g}) /\ Len(g) > 0
      BY <2>1, PacketsHaveValues
    <2>3. w = <<>> \/ \E x : w = <<x>>
      BY <2>1 DEF Whole
    <2>4. Len(g \o w) > 0
      BY <2>2, <2>3
    <2> QED
      BY <1>1, <2>1, <2>4
  <1>4. /\ NodesOK(nodes') /\ Serves(nodes', asks, first, p)
        /\ \A n \in NodeNames : Owner(n) # p => nodes'[n] = nodes[n]
    <2>1. nodes' = set_build_destination(p, to)
      BY DEF Build
    <2> QED
      BY <1>1, <2>1, BuildSetsItsNodes DEF MdmaInv
  <1>6. CutOK'
    <2>1. ASSUME NEW q \in Received PROVE nodes'[<<q, "parse", 1>>] = nodes[<<q, "parse", 1>>]
      <3>1. PICK n : n = <<q, "parse", 1>>
        OBVIOUS
      <3>2. n \in NodeNames
        BY <3>1, PacketsHaveValues, PacketsOwnTheirNodes
      <3>3. n # <<p, "build", 0>> /\ n # <<p, "build", Count(p)>>
        BY <3>1
      <3>4. nodes' = set_build_destination(p, to) /\ nodes = [m \in NodeNames |-> nodes[m]]
        BY DEF Build, MdmaInv, NodesOK, WellMade
      <3> QED
        BY <3>1, <3>2, <3>3, <3>4 DEF set_build_destination
    <2> QED
      BY <2>1 DEF CutOK, MdmaInv, Build
  <1>5. /\ Ready(p) /\ transfer_list(first, p, asks)
        /\ blocked' \in Callers \cup {Null} /\ cut' \in {cut, cut \cup {p}}
        /\ UNCHANGED <<channel, freeMap, loop, done, failed>>
    BY <1>1, <1>2 DEF Build, Wait
  <1> QED
    BY <1>2, <1>3, <1>4, <1>5, <1>6, AskingKeepsMdmaInv

LEMMA ParseKeepsMdmaInv ==
  ASSUME MdmaInv, NEW p \in Received, NEW from, NEW blocking \in BOOLEAN, Parse(p, from, blocking)
  PROVE  MdmaInv'
  <1> DEFINE begins == IF from = 0 THEN <<p, "parse", 1>> ELSE <<p, "parse", 0>>
  <1>1. PICK asks, first :
          /\ asks = (IF from = 0 THEN <<>> ELSE Whole(p, from, Buffer[p])) \o Scatter(p)
          /\ first = begins
    OBVIOUS
  <1>2. p \in Packets /\ p \in Callers /\ first \in NodeNames
    <2>1. p \in Packets /\ p \in Callers /\ Count(p) \in Nat \ {0}
      BY PacketsHaveValues
    <2>2. 0 \in 0 .. Count(p) /\ 1 \in 0 .. Count(p)
      BY <2>1
    <2>3. <<p, "parse", 0>> \in NodeNames /\ <<p, "parse", 1>> \in NodeNames
      BY <2>2, PacketsOwnTheirNodes
    <2> QED
      BY <1>1, <2>1, <2>3
  <1>3. asks # <<>>
    <2>1. PICK g, w : g = Scatter(p) /\ w = (IF from = 0 THEN <<>> ELSE Whole(p, from, Buffer[p]))
      OBVIOUS
    <2>2. g \in Seq({g[i] : i \in DOMAIN g}) /\ Len(g) > 0
      BY <2>1, PacketsHaveValues
    <2>3. w = <<>> \/ \E x : w = <<x>>
      BY <2>1 DEF Whole
    <2>4. Len(w \o g) > 0
      BY <2>2, <2>3
    <2> QED
      BY <1>1, <2>1, <2>4
  <1>4. /\ NodesOK(nodes') /\ (p \notin cut' => Serves(nodes', asks, first, p))
        /\ \A n \in NodeNames : Owner(n) # p => nodes'[n] = nodes[n]
    <2> DEFINE values == IF from = 0 \/ nodes[<<p, "parse", 1>>].next = NoNode
                         THEN <<Head(Scatter(p))>> ELSE Scatter(p)
               moved == (IF from = 0 THEN <<>> ELSE Whole(p, from, Buffer[p])) \o values
    <2>1. nodes' = set_parse_source(p, from)
      BY DEF Parse
    <2>2. /\ NodesOK(nodes') /\ Serves(nodes', moved, first, p)
          /\ \A n \in NodeNames : Owner(n) # p => nodes'[n] = nodes[n]
      BY <1>1, <2>1, ParseSetsItsNodes DEF MdmaInv
    <2>3. p \notin cut' => values = Scatter(p)
      <3> SUFFICES ASSUME p \notin cut' PROVE values = Scatter(p)
        OBVIOUS
      <3>1. from # 0 /\ p \notin cut
        BY DEF Parse
      <3>2. CASE Count(p) > 1
        BY <3>1, <3>2 DEF MdmaInv, CutOK
      <3>3. CASE ~(Count(p) > 1)
        <4>1. Count(p) = 1 /\ Scatter(p) = [i \in 1 .. Count(p) |-> Scatter(p)[i]]
          BY <3>3, PacketsHaveValues
        <4>2. PICK v : v = Scatter(p)[1]
          OBVIOUS
        <4>3. Scatter(p) = [i \in 1 .. 1 |-> Scatter(p)[i]]
          BY <4>1
        <4>4. Scatter(p) = <<v>>
          <5>1. \A i \in 1 .. 1 : Scatter(p)[i] = v
            BY <4>2
          <5>2. Scatter(p) = [i \in 1 .. 1 |-> v]
            BY <4>3, <5>1
          <5> QED
            BY <5>2
        <4> QED
          BY <4>4
      <3> QED
        BY <3>2, <3>3
    <2> QED
      BY <1>1, <2>2, <2>3
  <1>6. CutOK'
    <2> SUFFICES ASSUME NEW q \in Received \ cut', Count(q) > 1
                 PROVE  nodes'[<<q, "parse", 1>>].next # NoNode
      BY DEF CutOK
    <2>1. PICK n : n = <<q, "parse", 1>>
      OBVIOUS
    <2>2. /\ n \in NodeNames /\ Owner(n) = q /\ q \notin cut
          /\ nodes[n].next # NoNode
      <3>1. q \notin cut
        BY DEF Parse
      <3> QED
        BY <2>1, <3>1, PacketsHaveValues, PacketsOwnTheirNodes DEF MdmaInv, CutOK
    <2>3. nodes'[n] = nodes[n]
      <3>1. CASE q # p
        BY <1>4, <2>2, <3>1
      <3>2. CASE q = p
        <4>1. from # 0 /\ n # <<p, "parse", 0>>
          BY <2>1, <3>2 DEF Parse
        <4>2. nodes' = set_parse_source(p, from) /\ nodes = [m \in NodeNames |-> nodes[m]]
          BY DEF Parse, MdmaInv, NodesOK, WellMade
        <4> QED
          BY <2>2, <4>1, <4>2 DEF set_parse_source
      <3> QED
        BY <3>1, <3>2
    <2> QED
      BY <2>1, <2>2, <2>3
  <1>5. /\ Ready(p) /\ transfer_list(first, p, asks)
        /\ blocked' \in Callers \cup {Null} /\ cut' \in {cut, cut \cup {p}}
        /\ UNCHANGED <<channel, freeMap, loop, done, failed>>
    BY <1>1, <1>2 DEF Parse, Wait
  <1> QED
    BY <1>2, <1>3, <1>4, <1>5, <1>6, AskingKeepsMdmaInv

(* A caller of transfer_data has no request anywhere, and the channel it gets *)
(* is free.                                                                   *)
LEMMA FreeMapHasALeast == MdmaTypeOK /\ freeMap # {} => Min(freeMap) \in freeMap /\ Min(freeMap) \in Ids
  <1>1. Ids \subseteq Nat
    BY MdmaAssumption DEF Ids
  <1> QED
    BY <1>1, LeastIsAMember DEF MdmaTypeOK


LEMMA ChannelIsGiven ==
  ASSUME MdmaTypeOK, NEW id \in Ids, NEW c \in Callers, NEW node \in NodeNames,
         channel' = [channel EXCEPT ![id].done = c, ![id].node = node]
  PROVE  /\ channel' \in [Ids -> [state : {"READY", "BUSY"}, done : Callers \cup {Null},
                                  node : NodeNames \cup {NoNode}, moves : BOOLEAN]]
         /\ channel'[id].done = c /\ channel'[id].node = node
         /\ \A i \in Ids : /\ channel'[i].state = channel[i].state
                           /\ channel'[i].moves = channel[i].moves
                           /\ i # id => channel'[i] = channel[i]
  <1> DEFINE Channels == [state : {"READY", "BUSY"}, done : Callers \cup {Null},
                          node : NodeNames \cup {NoNode}, moves : BOOLEAN]
  <1>1. channel \in [Ids -> Channels]
    BY DEF MdmaTypeOK
  <1>2. PICK r : r = channel[id]
    OBVIOUS
  <1>3. PICK q : q = [r EXCEPT !.done = c, !.node = node]
    OBVIOUS
  <1>4. r \in Channels
    <2> HIDE DEF Channels
    <2> QED
      BY <1>1, <1>2
  <1>5. q \in Channels /\ q.done = c /\ q.node = node /\ q.state = r.state /\ q.moves = r.moves
    BY <1>3, <1>4
  <1>6. channel' = [channel EXCEPT ![id] = q]
    <2> HIDE DEF Channels
    <2> QED
      BY <1>1, <1>2, <1>3
  <1> HIDE DEF Channels
  <1>7. channel' \in [Ids -> Channels] /\ \A i \in Ids : channel'[i] = IF i = id THEN q ELSE channel[i]
    BY <1>1, <1>5, <1>6
  <1> QED
    BY <1>2, <1>5, <1>7 DEF Channels

LEMMA ChannelMoves ==
  ASSUME MdmaTypeOK, NEW id \in Ids, NEW state \in {"READY", "BUSY"}, NEW moves \in BOOLEAN,
         channel' = [channel EXCEPT ![id].state = state, ![id].moves = moves]
  PROVE  /\ channel' \in [Ids -> [state : {"READY", "BUSY"}, done : Callers \cup {Null},
                                  node : NodeNames \cup {NoNode}, moves : BOOLEAN]]
         /\ channel'[id].state = state /\ channel'[id].moves = moves
         /\ channel'[id].done = channel[id].done /\ channel'[id].node = channel[id].node
         /\ \A i \in Ids : i # id => channel'[i] = channel[i]
  <1> DEFINE Channels == [state : {"READY", "BUSY"}, done : Callers \cup {Null},
                          node : NodeNames \cup {NoNode}, moves : BOOLEAN]
  <1>1. channel \in [Ids -> Channels]
    BY DEF MdmaTypeOK
  <1>2. PICK r : r = channel[id]
    OBVIOUS
  <1>3. PICK q : q = [r EXCEPT !.state = state, !.moves = moves]
    OBVIOUS
  <1>4. r \in Channels
    <2> HIDE DEF Channels
    <2> QED
      BY <1>1, <1>2
  <1>5. q \in Channels /\ q.done = r.done /\ q.node = r.node /\ q.state = state /\ q.moves = moves
    BY <1>3, <1>4
  <1>6. channel' = [channel EXCEPT ![id] = q]
    <2> HIDE DEF Channels
    <2> QED
      BY <1>1, <1>2, <1>3
  <1> HIDE DEF Channels
  <1>7. channel' \in [Ids -> Channels] /\ \A i \in Ids : channel'[i] = IF i = id THEN q ELSE channel[i]
    BY <1>1, <1>5, <1>6
  <1> QED
    BY <1>2, <1>5, <1>7 DEF Channels

LEMMA ChannelIsBack ==
  ASSUME MdmaTypeOK, NEW id \in Ids,
         channel' = [channel EXCEPT ![id].state = "READY", ![id].node = NoNode, ![id].moves = FALSE]
  PROVE  /\ channel' \in [Ids -> [state : {"READY", "BUSY"}, done : Callers \cup {Null},
                                  node : NodeNames \cup {NoNode}, moves : BOOLEAN]]
         /\ channel'[id].state = "READY" /\ ~channel'[id].moves
         /\ \A i \in Ids : i # id => channel'[i] = channel[i]
  <1> DEFINE Channels == [state : {"READY", "BUSY"}, done : Callers \cup {Null},
                          node : NodeNames \cup {NoNode}, moves : BOOLEAN]
  <1>1. channel \in [Ids -> Channels]
    BY DEF MdmaTypeOK
  <1>2. PICK r : r = channel[id]
    OBVIOUS
  <1>3. PICK q : q = [r EXCEPT !.state = "READY", !.node = NoNode, !.moves = FALSE]
    OBVIOUS
  <1>4. r \in Channels
    <2> HIDE DEF Channels
    <2> QED
      BY <1>1, <1>2
  <1>5. q \in Channels /\ q.state = "READY" /\ ~q.moves
    BY <1>3, <1>4
  <1>6. channel' = [channel EXCEPT ![id] = q]
    <2> HIDE DEF Channels
    <2> QED
      BY <1>1, <1>2, <1>3
  <1> HIDE DEF Channels
  <1>7. channel' \in [Ids -> Channels] /\ \A i \in Ids : channel'[i] = IF i = id THEN q ELSE channel[i]
    BY <1>1, <1>5, <1>6
  <1> QED
    BY <1>5, <1>7 DEF Channels

LEMMA DataKeepsMdmaInv ==
  ASSUME MdmaInv, transfer_data
  PROVE  MdmaInv'
  <1>1. /\ loop.at = "idle" /\ ~Asked("raw") /\ "raw" \in Callers
        /\ MdmaTypeOK /\ NodesOK(nodes) /\ ChannelsOK /\ StackOK /\ UnitOK /\ DataOK
        /\ FlagsOK /\ FailedOK /\ KeptOK /\ CutOK
    BY RawIsACaller DEF MdmaInv, transfer_data, Ready, Idle, Asked
  <1>2. ~done["raw"] /\ ~InUnit("raw") /\ "raw" \notin failed
    BY <1>1 DEF FlagsOK, FailedOK, InUnit, UnitOK
  <1>3. done' = done /\ UNCHANGED <<freeMap, stack, blocked, failed, cut>>
    BY <1>1, <1>2 DEF MdmaTypeOK, transfer_data
  <1>4. CASE freeMap = {}
    <2>1. UNCHANGED <<channel, nodes, loop, caller>>
      BY <1>4 DEF transfer_data
    <2>2. MdmaTypeOK' /\ NodesOK(nodes')
      BY <1>1, <1>3, <2>1 DEF MdmaTypeOK
    <2>3. ChannelsOK' /\ StackOK' /\ UnitOK' /\ DataOK' /\ FlagsOK' /\ FailedOK' /\ KeptOK' /\ CutOK'
      BY <1>1, <1>3, <2>1 DEF ChannelsOK, StackOK, UnitOK, DataOK, FlagsOK, FailedOK,
                              KeptOK, CutOK, Held, InUnit, Taken, Asked, Serving
    <2> QED
      BY <2>2, <2>3 DEF MdmaInv
  <1>5. CASE freeMap # {}
    <2>1. PICK id, node : id = Min(freeMap) /\ node = <<"channel", "raw", id>>
      OBVIOUS
    <2>2. id \in freeMap /\ id \in Ids /\ node \in NodeNames
      BY <1>1, <1>5, <2>1, FreeMapHasALeast, PacketsOwnTheirNodes
    <2>3. /\ channel' = [channel EXCEPT ![id].done = "raw", ![id].node = node]
          /\ nodes' = RawNode(id)
          /\ loop' = [at |-> "data", id |-> id, word |-> freeMap]
          /\ caller' = [caller EXCEPT !["raw"].asks = <<Raw>>, !["raw"].moved = <<>>]
      BY <1>5, <2>1 DEF transfer_data, RawNode
    <2>4. /\ NodesOK(nodes') /\ Serves(nodes', <<Raw>>, node, "raw")
          /\ \A n \in NodeNames : Owner(n) # "raw" => nodes'[n] = nodes[n]
      BY <1>1, <2>1, <2>2, <2>3, DataSetsItsNode
    <2>5. /\ channel' \in [Ids -> [state : {"READY", "BUSY"}, done : Callers \cup {Null},
                                   node : NodeNames \cup {NoNode}, moves : BOOLEAN]]
          /\ channel'[id].done = "raw" /\ channel'[id].node = node
          /\ \A i \in Ids : /\ channel'[i].state = channel[i].state
                            /\ channel'[i].moves = channel[i].moves
                            /\ i # id => channel'[i] = channel[i]
      BY <1>1, <2>2, <2>3, ChannelIsGiven
    <2>6. /\ caller' = [c \in Callers |-> [asks |-> caller'[c].asks, moved |-> caller'[c].moved]]
          /\ caller'["raw"].asks = <<Raw>>
          /\ \A c \in Callers : c # "raw" => caller'[c] = caller[c]
      BY <1>1, <2>3, NewRequest
    <2>7. /\ \A i \in Ids : Taken(i)' = Taken(i) /\ (channel[i].moves => i # id)
          /\ \A c : InUnit(c)' = InUnit(c)
      <3>1. \A i \in Ids : Taken(i)' = Taken(i)
        BY <2>5 DEF Taken
      <3>2. \A i \in Ids : channel[i].moves => i # id
        BY <1>1, <2>2 DEF ChannelsOK
      <3> QED
        BY <2>5, <3>1, <3>2 DEF InUnit
    <2>8. /\ Asked("raw")' /\ \A c \in Callers : c # "raw" => Asked(c)' = Asked(c)
      BY <2>6 DEF Asked
    <2>9. ASSUME NEW c \in Callers, NEW f, c # "raw", Serving(nodes, f, c)
          PROVE  c \notin cut => Serves(nodes', caller'[c].asks, f, c)
      BY <2>4, <2>6, <2>9, StillServes DEF Serving
    <2>10. MdmaTypeOK'
      BY <1>1, <1>3, <2>2, <2>3, <2>5, <2>6 DEF MdmaTypeOK
    <2>11. ChannelsOK'
      BY <1>1, <1>3, <2>2, <2>3, <2>5, <2>7 DEF ChannelsOK
    <2>12. StackOK'
      <3>1. ASSUME NEW k \in DOMAIN stack
            PROVE  /\ Asked(stack[k].done)'
                   /\ Serving(nodes, stack[k].first, stack[k].done)'
                   /\ ~done[stack[k].done] /\ ~InUnit(stack[k].done) /\ stack[k].done \notin failed
        <4>1. PICK c, f : c = stack[k].done /\ f = stack[k].first
          OBVIOUS
        <4>2. c \in Callers /\ c # "raw"
          BY <1>1, <4>1, EntriesAreTyped
        <4>3. Asked(c) /\ Serving(nodes, f, c) /\ ~done[c] /\ ~InUnit(c) /\ c \notin failed
          BY <1>1, <4>1 DEF StackOK
        <4>4. Asked(c)' /\ (c \notin cut => Serves(nodes', caller'[c].asks, f, c))
          BY <2>6, <2>8, <2>9, <4>2, <4>3
        <4> QED
          BY <1>3, <4>1, <4>3, <4>4 DEF Asked, Serving
      <3>2. \A j, k \in DOMAIN stack : stack[j].done = stack[k].done => j = k
        BY <1>1 DEF StackOK
      <3> QED
        BY <1>3, <2>7, <3>1, <3>2 DEF StackOK, Asked, InUnit
    <2>13. UnitOK'
      <3>1. ASSUME NEW i \in Ids, channel[i].moves
            PROVE  /\ channel'[i].done # Null /\ ~done'[channel'[i].done] /\ Asked(channel[i].done)'
                   /\ Serving(nodes, channel[i].node, channel[i].done)'
        <4>1. PICK c, f : c = channel[i].done /\ f = channel[i].node
          OBVIOUS
        <4>2. c \in Callers \cup {Null}
          BY <1>1, <4>1 DEF MdmaTypeOK
        <4>3. /\ c # Null /\ ~done[c] /\ Asked(c) /\ Serving(nodes, f, c) /\ c # "raw"
          BY <1>1, <1>2, <3>1, <4>1 DEF UnitOK, InUnit
        <4>4. ~done'[c] /\ Asked(c)' /\ (c \notin cut => Serves(nodes', caller'[c].asks, f, c))
          BY <1>3, <2>6, <2>8, <2>9, <4>2, <4>3
        <4>5. channel'[i] = channel[i]
          BY <2>5, <2>7, <3>1
        <4> QED
          BY <1>3, <4>1, <4>3, <4>4, <4>5 DEF Asked, Serving
      <3>2. \A i \in Ids : channel[i].moves => channel'[i] = channel[i]
        BY <2>5, <2>7
      <3>3. \A i, j \in Ids : channel'[i].moves /\ channel'[j].moves
                              /\ channel'[i].done = channel'[j].done => i = j
        BY <1>1, <2>5, <2>7, <3>2 DEF UnitOK
      <3>4. \A i \in Ids : channel'[i].moves =>
              /\ channel'[i].done # Null /\ ~done'[channel'[i].done]
              /\ caller'[channel'[i].done].asks # <<>>
              /\ Serving(nodes, channel[i].node, channel[i].done)'
        BY <2>5, <3>1, <3>2 DEF Asked
      <3> QED
        BY <3>3, <3>4 DEF UnitOK, Asked
    <2>14. DataOK'
      BY <1>2, <1>3, <2>3, <2>4, <2>5, <2>6, <2>7, <2>8 DEF DataOK, Serving
    <2>15. FlagsOK' /\ FailedOK'
      BY <1>1, <1>2, <1>3, <2>6, <2>7, <2>8, RawIsACaller DEF FlagsOK, FailedOK, MdmaTypeOK
    <2>16. KeptOK'
      <3> SUFFICES ASSUME NEW c \in Callers, Asked(c)', c \notin failed PROVE Held(c)'
        BY <1>3 DEF KeptOK
      <3>1. CASE c = "raw"
        BY <2>3, <3>1 DEF Held
      <3>2. CASE c # "raw"
        <4>1. Held(c)
          BY <1>1, <2>8, <3>2 DEF KeptOK
        <4> QED
          BY <1>3, <2>3, <2>7, <3>2, <4>1 DEF Held
      <3> QED
        BY <3>1, <3>2
    <2>17. CutOK'
      <3> SUFFICES ASSUME NEW q \in Received \ cut, Count(q) > 1
                   PROVE  nodes'[<<q, "parse", 1>>].next # NoNode
        BY <1>3 DEF CutOK
      <3>1. PICK n : n = <<q, "parse", 1>>
        OBVIOUS
      <3>2. n \in NodeNames /\ Owner(n) # "raw" /\ nodes[n].next # NoNode
        BY <1>1, <3>1, PacketsHaveValues, PacketsOwnTheirNodes DEF CutOK
      <3> QED
        BY <2>4, <3>1, <3>2
    <2> QED
      BY <2>4, <2>10, <2>11, <2>12, <2>13, <2>14, <2>15, <2>16, <2>17 DEF MdmaInv
  <1> QED
    BY <1>4, <1>5


(* update writes the request into a channel that is free, before it is taken. *)
LEMMA PickKeepsMdmaInv ==
  ASSUME MdmaInv, Pick
  PROVE  MdmaInv'
  <1>1. /\ MdmaTypeOK /\ NodesOK(nodes) /\ ChannelsOK /\ StackOK /\ UnitOK /\ DataOK
        /\ FlagsOK /\ FailedOK /\ KeptOK /\ CutOK
        /\ loop.at \in {"idle", "next"} /\ stack # <<>>
        /\ UNCHANGED <<freeMap, stack, nodes, blocked, done, caller, failed, cut>>
    BY DEF MdmaInv, Pick
  <1>2. PICK id : id = Min({i \in freeMap : loop.at = "idle" \/ i > loop.id})
    OBVIOUS
  <1>3. id \in freeMap /\ id \in Ids
    <2> DEFINE free == {i \in freeMap : loop.at = "idle" \/ i > loop.id}
    <2>1. free # {}
      BY DEF Pick
    <2>2. free \in SUBSET Nat /\ free \subseteq freeMap /\ freeMap \subseteq Ids
      BY <1>1, MdmaAssumption, SMTT(30) DEF MdmaTypeOK, Ids
    <2> HIDE DEF free
    <2>3. Min(free) \in free
      BY <2>1, <2>2, LeastIsAMember
    <2> QED
      BY <1>2, <2>2, <2>3 DEF free
  <1>4. PICK c, node : c = stack[Len(stack)].done /\ node = stack[Len(stack)].first
    OBVIOUS
  <1>5. /\ Len(stack) \in DOMAIN stack /\ c \in Callers /\ node \in NodeNames
        /\ channel' = [channel EXCEPT ![id].done = c, ![id].node = node]
        /\ loop' = [at |-> "list", id |-> id, word |-> freeMap]
    <2>1. Len(stack) \in DOMAIN stack
      BY <1>1, EntriesAreTyped DEF MdmaTypeOK
    <2> QED
      BY <1>1, <1>2, <1>4, <2>1, EntriesAreTyped DEF Pick
  <1>6. /\ channel' \in [Ids -> [state : {"READY", "BUSY"}, done : Callers \cup {Null},
                                 node : NodeNames \cup {NoNode}, moves : BOOLEAN]]
        /\ channel'[id].done = c /\ channel'[id].node = node
        /\ \A i \in Ids : /\ channel'[i].state = channel[i].state
                          /\ channel'[i].moves = channel[i].moves
                          /\ i # id => channel'[i] = channel[i]
    BY <1>1, <1>3, <1>5, ChannelIsGiven
  <1>7. /\ \A i \in Ids : Taken(i)' = Taken(i) /\ (channel[i].moves => channel'[i] = channel[i])
        /\ \A k : InUnit(k)' = InUnit(k)
    <2>1. \A i \in Ids : Taken(i)' = Taken(i)
      BY <1>6 DEF Taken
    <2>2. \A i \in Ids : channel[i].moves => i # id
      BY <1>1, <1>3 DEF ChannelsOK
    <2> QED
      BY <1>6, <2>1, <2>2 DEF InUnit
  <1>8. MdmaTypeOK' /\ NodesOK(nodes')
    BY <1>1, <1>3, <1>5, <1>6 DEF MdmaTypeOK
  <1>9. ChannelsOK'
    BY <1>1, <1>3, <1>4, <1>5, <1>6, <1>7 DEF ChannelsOK
  <1>10. StackOK'
    <2>1. \A k \in DOMAIN stack : /\ ~done[stack[k].done] /\ ~InUnit(stack[k].done)
                                  /\ stack[k].done \notin failed
      BY <1>1 DEF StackOK
    <2>2. \A k \in DOMAIN stack : ~InUnit(stack[k].done)'
      BY <1>1, <1>7, <2>1 DEF InUnit
    <2> QED
      BY <1>1, <2>1, <2>2 DEF StackOK, Asked, Serving
  <1>11. UnitOK'
    BY <1>1, <1>6, <1>7 DEF UnitOK, Asked, Serving
  <1>12. DataOK' /\ FlagsOK' /\ FailedOK'
    BY <1>1, <1>5, <1>7 DEF DataOK, FlagsOK, FailedOK, Asked
  <1>13. KeptOK' /\ CutOK'
    BY <1>1, <1>5, <1>7 DEF KeptOK, CutOK, Held, Asked
  <1> QED
    BY <1>8, <1>9, <1>10, <1>11, <1>12, <1>13 DEF MdmaInv

(* prepare_transfer takes the channel: the request is now there, and what is  *)
(* left of it on the stack is on its way out.                                 *)
LEMMA BeginKeepsMdmaInv ==
  ASSUME MdmaInv, NEW ok \in BOOLEAN, Begin(ok)
  PROVE  MdmaInv'
  <1>1. /\ MdmaTypeOK /\ NodesOK(nodes) /\ ChannelsOK /\ StackOK /\ UnitOK /\ DataOK
        /\ FlagsOK /\ FailedOK /\ KeptOK /\ CutOK
        /\ loop.at \in {"list", "data"}
        /\ UNCHANGED <<stack, nodes, blocked, done, caller, cut>>
    BY DEF MdmaInv, Begin
  <1>2. PICK id, c, node : id = loop.id /\ c = channel[id].done /\ node = channel[id].node
    OBVIOUS
  <1>3. /\ id \in Ids /\ id \in loop.word /\ loop.word \subseteq freeMap /\ id \in freeMap
        /\ ~Taken(id) /\ ~channel[id].moves
    BY <1>1, <1>2 DEF ChannelsOK, MdmaTypeOK
  <1>4. /\ freeMap' = loop.word \ {id}
        /\ channel' = [channel EXCEPT ![id].state = "BUSY", ![id].moves = ok]
        /\ failed' = IF ok THEN failed ELSE failed \cup {c}
        /\ loop' = IF loop.at = "data" THEN Idle ELSE [loop EXCEPT !.at = "pop"]
    <2>1. channel[loop.id].state # "BUSY"
      BY <1>2, <1>3 DEF Taken
    <2> QED
      BY <1>2, <2>1 DEF Begin
  <1>5. /\ channel' \in [Ids -> [state : {"READY", "BUSY"}, done : Callers \cup {Null},
                                 node : NodeNames \cup {NoNode}, moves : BOOLEAN]]
        /\ channel'[id].state = "BUSY" /\ channel'[id].moves = ok /\ channel'[id].done = c /\ channel'[id].node = node
        /\ \A i \in Ids : i # id => channel'[i] = channel[i]
    BY <1>1, <1>2, <1>3, <1>4, ChannelMoves
  <1>6. /\ loop.at = "data" => loop' = Idle
        /\ loop.at = "list" => loop'.at = "pop" /\ loop'.id = id
        /\ loop' \in [at : {"idle", "list", "data", "pop", "next"}, id : Ids \cup {0}, word : SUBSET Ids]
    BY <1>1, <1>2, <1>3, <1>4 DEF MdmaTypeOK, Idle
  <1>7. loop.at = "list" => /\ stack # <<>> /\ Len(stack) \in DOMAIN stack
                            /\ c = stack[Len(stack)].done /\ node = stack[Len(stack)].first
    BY <1>1, <1>2, EntriesAreTyped DEF ChannelsOK, MdmaTypeOK
  <1>8. loop.at = "data" => c = "raw"
    BY <1>1, <1>2 DEF ChannelsOK
  <1>9. /\ c \in Callers /\ c # Null /\ ~done[c] /\ ~InUnit(c) /\ Asked(c) /\ c \notin failed
        /\ Serving(nodes, node, c)
    <2>1. CASE loop.at = "list"
      <3>1. c \in Callers /\ c # Null
        BY <1>1, <1>7, <2>1, EntriesAreTyped, RawIsACaller
      <3>2. Serving(nodes, node, c) /\ Asked(c) /\ ~done[c] /\ ~InUnit(c) /\ c \notin failed
        BY <1>1, <1>7, <2>1 DEF StackOK
      <3> QED
        BY <3>1, <3>2
    <2>2. CASE loop.at = "data"
      BY <1>1, <1>2, <1>8, <2>2, RawIsACaller DEF DataOK
    <2> QED
      BY <1>1, <2>1, <2>2
  <1>10. /\ Taken(id)' /\ \A i \in Ids : i # id => Taken(i)' = Taken(i) /\ channel'[i] = channel[i]
         /\ \A k : InUnit(k)' <=> InUnit(k) \/ (ok /\ k = c)
    <2>1. Taken(id)' /\ \A i \in Ids : i # id => Taken(i)' = Taken(i)
      BY <1>3, <1>5 DEF Taken
    <2>2. \A k : InUnit(k)' <=> InUnit(k) \/ (ok /\ k = c)
      BY <1>3, <1>5, <2>1 DEF InUnit
    <2> QED
      BY <1>5, <2>1, <2>2
  <1>11. MdmaTypeOK' /\ NodesOK(nodes')
    BY <1>1, <1>3, <1>4, <1>5, <1>6, <1>9, SMTT(30) DEF MdmaTypeOK
  <1>12. ChannelsOK'
    <2>1. \A i \in Ids : channel'[i].moves => Taken(i)'
      BY <1>1, <1>5, <1>10 DEF ChannelsOK
    <2>2. \A i \in Ids : i \in freeMap' => ~Taken(i)'
      BY <1>1, <1>3, <1>4, <1>10 DEF ChannelsOK
    <2>3. loop'.at \in {"idle", "pop"} /\ (loop'.at = "pop" => stack' # <<>>)
      BY <1>1, <1>6, <1>7 DEF Idle
    <2> QED
      BY <2>1, <2>2, <2>3 DEF ChannelsOK
  <1>13. StackOK'
    <2>1. ASSUME NEW k \in DOMAIN stack,
                 \/ done[stack[k].done] \/ InUnit(stack[k].done) \/ stack[k].done \in failed
                 \/ stack[k].done = c
          PROVE  loop'.at = "pop" /\ k = Len(stack)
      <3>1. ~done[stack[k].done] /\ ~InUnit(stack[k].done) /\ stack[k].done \notin failed
        BY <1>1 DEF StackOK
      <3>2. stack[k].done = c
        BY <2>1, <3>1
      <3>3. loop.at = "list"
        BY <1>1, <1>8, <3>2, EntriesAreTyped
      <3> QED
        BY <1>1, <1>6, <1>7, <3>2, <3>3 DEF StackOK
    <2>2. ASSUME NEW k \in DOMAIN stack',
                 done'[stack'[k].done] \/ InUnit(stack[k].done)' \/ stack'[k].done \in failed'
          PROVE  loop'.at = "pop" /\ k = Len(stack')
      <3>1. PICK o : o = stack[k].done
        OBVIOUS
      <3>2. stack'[k].done = o /\ done'[o] = done[o] /\ k \in DOMAIN stack /\ Len(stack') = Len(stack)
        BY <1>1, <3>1
      <3>3. done[o] \/ InUnit(o)' \/ o \in failed'
        BY <2>2, <3>2 DEF InUnit
      <3> QED
        BY <1>4, <1>10, <2>1, <3>1, <3>2, <3>3
    <2> QED
      BY <1>1, <2>2 DEF StackOK, Asked, Serving
  <1>14. UnitOK'
    <2>1. \A i, j \in Ids : channel'[i].moves /\ channel'[j].moves
                            /\ channel'[i].done = channel'[j].done => i = j
      <3> SUFFICES ASSUME NEW i \in Ids, NEW j \in Ids, channel'[i].moves, channel'[j].moves,
                          channel'[i].done = channel'[j].done
                   PROVE  i = j
        OBVIOUS
      <3>1. CASE i # id /\ j # id
        BY <1>1, <1>10, <3>1 DEF UnitOK
      <3>2. CASE i = id /\ j # id
        BY <1>5, <1>9, <1>10, <3>2 DEF InUnit
      <3>3. CASE i # id /\ j = id
        BY <1>5, <1>9, <1>10, <3>3 DEF InUnit
      <3> QED
        BY <3>1, <3>2, <3>3
    <2>2. ASSUME NEW i \in Ids, channel'[i].moves
          PROVE  /\ channel'[i].done # Null /\ ~done[channel'[i].done]
                 /\ caller[channel'[i].done].asks # <<>>
                 /\ Serving(nodes, channel'[i].node, channel'[i].done)
      <3>1. CASE i = id
        BY <1>5, <1>9, <3>1 DEF Asked
      <3>2. CASE i # id
        BY <1>1, <1>10, <2>2, <3>2 DEF UnitOK, Asked
      <3> QED
        BY <3>1, <3>2
    <2> QED
      BY <1>1, <2>1, <2>2 DEF UnitOK, Asked, Serving
  <1>15. DataOK'
    BY <1>1, <1>6 DEF DataOK, Idle
  <1>16. FlagsOK' /\ CutOK'
    BY <1>1 DEF FlagsOK, CutOK, Asked
  <1>18. FailedOK'
    BY <1>1, <1>4, <1>9, <1>10 DEF FailedOK, Asked
  <1>17. KeptOK'
    <2> SUFFICES ASSUME NEW o \in Callers, Asked(o)', o \notin failed' PROVE Held(o)'
      BY DEF KeptOK
    <2>1. CASE o = c
      BY <1>4, <1>10, <2>1 DEF Held
    <2>2. CASE o # c
      <3>1. Held(o)
        BY <1>1, <1>4 DEF KeptOK, Asked
      <3>2. CASE \E k \in DOMAIN stack : stack[k].done = o /\ ~(loop.at = "pop" /\ k = Len(stack))
        <4>1. PICK k \in DOMAIN stack : stack[k].done = o
          BY <3>2
        <4>2. ~(loop'.at = "pop" /\ k = Len(stack))
          BY <1>1, <1>6, <1>7, <2>2, <4>1 DEF Idle
        <4> QED
          BY <1>1, <4>1, <4>2 DEF Held
      <3>3. CASE ~(loop.at = "data" /\ o = "raw") /\ (InUnit(o) \/ done[o])
        BY <1>1, <1>10, <3>3 DEF Held
      <3>4. ~(loop.at = "data" /\ o = "raw")
        BY <1>8, <2>2
      <3> QED
        BY <3>1, <3>2, <3>3, <3>4 DEF Held
    <2> QED
      BY <2>1, <2>2
  <1> QED
    BY <1>11, <1>12, <1>13, <1>14, <1>15, <1>16, <1>17, <1>18 DEF MdmaInv


LEMMA PopKeepsMdmaInv ==
  ASSUME MdmaInv, Pop
  PROVE  MdmaInv'
  <1>1. /\ MdmaTypeOK /\ NodesOK(nodes) /\ ChannelsOK /\ StackOK /\ UnitOK /\ DataOK
        /\ FlagsOK /\ FailedOK /\ KeptOK /\ CutOK
        /\ loop.at = "pop" /\ stack # <<>>
        /\ UNCHANGED <<channel, freeMap, nodes, blocked, done, caller, failed, cut>>
    BY DEF MdmaInv, Pop, ChannelsOK
  <1>2. /\ stack' \in Seq([first : NodeNames, done : Packets])
        /\ Len(stack) \in Nat \ {0} /\ DOMAIN stack = 1 .. Len(stack)
        /\ DOMAIN stack' = 1 .. Len(stack) - 1
        /\ \A k \in 1 .. Len(stack) - 1 : stack'[k] = stack[k]
    <2> DEFINE Entries == [first : NodeNames, done : Packets]
    <2>1. stack \in Seq(Entries) /\ stack # <<>>
      BY <1>1 DEF MdmaTypeOK
    <2>2. stack' = SubSeq(stack, 1, Len(stack) - 1)
      BY DEF Pop, Front
    <2> HIDE DEF Entries
    <2>3. stack' \in Seq(Entries)
      BY <2>1, <2>2
    <2>4. /\ Len(stack) \in Nat \ {0} /\ DOMAIN stack = 1 .. Len(stack)
          /\ DOMAIN stack' = 1 .. Len(stack) - 1
          /\ \A k \in 1 .. Len(stack) - 1 : stack'[k] = stack[k]
      BY <2>1, <2>2
    <2> QED
      BY <2>3, <2>4 DEF Entries
  <1>3. /\ loop' \in [at : {"idle", "list", "data", "pop", "next"}, id : Ids \cup {0}, word : SUBSET Ids]
        /\ loop'.at \in {"idle", "next"}
    BY <1>1 DEF Pop, MdmaTypeOK, Idle
  <1>4. /\ \A i \in Ids : Taken(i)' = Taken(i)
        /\ \A c : InUnit(c)' = InUnit(c)
    BY <1>1 DEF Taken, InUnit
  <1>5. MdmaTypeOK' /\ NodesOK(nodes')
    BY <1>1, <1>2, <1>3 DEF MdmaTypeOK
  <1>6. ChannelsOK'
    BY <1>1, <1>3, <1>4 DEF ChannelsOK
  <1>7. StackOK'
    <2>1. ASSUME NEW k \in DOMAIN stack'
          PROVE  /\ k \in DOMAIN stack /\ stack'[k] = stack[k]
                 /\ ~done[stack[k].done] /\ ~InUnit(stack[k].done) /\ stack[k].done \notin failed
      <3>1. k \in DOMAIN stack /\ stack'[k] = stack[k] /\ k # Len(stack)
        BY <1>2
      <3> QED
        BY <1>1, <3>1 DEF StackOK
    <2>2. ASSUME NEW k \in DOMAIN stack' PROVE ~InUnit(stack[k].done)'
      BY <1>1, <2>1 DEF InUnit, Taken
    <2> QED
      BY <1>1, <2>1, <2>2 DEF StackOK, Asked, Serving
  <1>8. UnitOK'
    BY <1>1, <1>4 DEF UnitOK, Asked, Serving
  <1>9. DataOK' /\ FlagsOK' /\ FailedOK' /\ CutOK'
    BY <1>1, <1>3, <1>4 DEF DataOK, FlagsOK, FailedOK, CutOK, Asked
  <1>10. KeptOK'
    <2> SUFFICES ASSUME NEW c \in Callers, Asked(c)', c \notin failed PROVE Held(c)'
      BY <1>1 DEF KeptOK
    <2>1. Held(c)
      BY <1>1 DEF KeptOK, Asked
    <2>2. CASE \E k \in DOMAIN stack : stack[k].done = c /\ ~(loop.at = "pop" /\ k = Len(stack))
      <3>1. PICK k \in DOMAIN stack : stack[k].done = c /\ k # Len(stack)
        BY <1>1, <2>2
      <3>2. k \in DOMAIN stack' /\ stack'[k].done = c
        BY <1>2, <3>1
      <3> QED
        BY <1>3, <3>2 DEF Held
    <2>3. CASE InUnit(c) \/ done[c]
      BY <1>1, <1>4, <2>3 DEF Held
    <2> QED
      BY <1>1, <2>1, <2>2, <2>3 DEF Held
  <1> QED
    BY <1>5, <1>6, <1>7, <1>8, <1>9, <1>10 DEF MdmaInv

(* The unit has moved what the caller asked, in whatever order the list hung: *)
(* the flag that is set now says so.                                          *)
LEMMA CompleteKeepsMdmaInv ==
  ASSUME MdmaInv, NEW id \in Ids, Complete(id)
  PROVE  MdmaInv'
  <1>1. /\ MdmaTypeOK /\ NodesOK(nodes) /\ ChannelsOK /\ StackOK /\ UnitOK /\ DataOK
        /\ FlagsOK /\ FailedOK /\ KeptOK /\ CutOK
        /\ channel[id].moves /\ Taken(id)
        /\ UNCHANGED <<stack, nodes, loop, blocked, failed, cut>>
    BY DEF MdmaInv, Complete, ChannelsOK
  <1>2. PICK c, node : c = channel[id].done /\ node = channel[id].node
    OBVIOUS
  <1>3. /\ c # Null /\ c \in Callers /\ ~done[c] /\ Asked(c) /\ InUnit(c) /\ c \notin failed
        /\ Serving(nodes, node, c)
    BY <1>1, <1>2 DEF UnitOK, FailedOK, MdmaTypeOK, InUnit
  <1>4. /\ freeMap' = freeMap \cup {id}
        /\ done' = [done EXCEPT ![c] = TRUE]
        /\ caller' = [caller EXCEPT ![c].moved = Moves(List(node))]
        /\ c \notin cut => Moves(List(node)) = caller[c].asks
    <2>1. c \notin cut => Moves(List(node)) = caller[c].asks
      BY <1>3, ServedListMoves DEF Serving
    <2> QED
      BY <1>2, <1>3, <2>1 DEF Complete
  <1>5. /\ channel' \in [Ids -> [state : {"READY", "BUSY"}, done : Callers \cup {Null},
                                 node : NodeNames \cup {NoNode}, moves : BOOLEAN]]
        /\ channel'[id].state = "READY" /\ ~channel'[id].moves
        /\ \A i \in Ids : i # id => channel'[i] = channel[i]
    BY <1>1, ChannelIsBack DEF Complete
  <1>6. /\ caller' = [k \in Callers |-> [asks |-> caller'[k].asks, moved |-> caller'[k].moved]]
        /\ caller'[c].moved = Moves(List(node))
        /\ \A k \in Callers : caller'[k].asks = caller[k].asks /\ (k # c => caller'[k] = caller[k])
    <2>1. caller = [k \in Callers |-> [asks |-> caller[k].asks, moved |-> caller[k].moved]]
      BY <1>1 DEF MdmaTypeOK
    <2>2. PICK q : q = [caller[c] EXCEPT !.moved = Moves(List(node))]
      OBVIOUS
    <2>3. q = [asks |-> caller[c].asks, moved |-> Moves(List(node))]
      <3>1. PICK a, m : caller[c] = [asks |-> a, moved |-> m]
        BY <1>3, <2>1
      <3> QED
        BY <2>2, <3>1, Zenon
    <2>4. caller' = [caller EXCEPT ![c] = q]
      BY <1>3, <1>4, <2>1, <2>2
    <2>5. caller' = [k \in Callers |-> IF k = c THEN q ELSE caller[k]]
      BY <2>1, <2>4
    <2>6. \A k \in Callers : caller'[k] = IF k = c THEN q ELSE caller[k]
      BY <2>5
    <2>7. \A k \in Callers : caller'[k] = [asks |-> caller'[k].asks, moved |-> caller'[k].moved]
      BY <2>1, <2>3, <2>6
    <2> QED
      BY <1>3, <2>3, <2>5, <2>6, <2>7
  <1>7. /\ \A k \in Callers : done'[k] = IF k = c THEN TRUE ELSE done[k]
        /\ done' \in [Callers -> BOOLEAN]
    BY <1>1, <1>3, <1>4 DEF MdmaTypeOK
  <1>8. /\ ~Taken(id)' /\ \A i \in Ids : i # id => Taken(i)' = Taken(i)
        /\ \A k : InUnit(k)' <=> InUnit(k) /\ k # c
    <2>1. ~Taken(id)' /\ \A i \in Ids : i # id => Taken(i)' = Taken(i)
      BY <1>5 DEF Taken
    <2>2. ASSUME NEW k, InUnit(k)' PROVE InUnit(k) /\ k # c
      <3>1. PICK i \in Ids : channel'[i].moves /\ channel'[i].done = k
        BY <2>2 DEF InUnit
      <3>2. i # id /\ channel[i].moves /\ channel[i].done = k
        BY <1>5, <2>1, <3>1
      <3> QED
        BY <1>1, <1>2, <3>2 DEF InUnit, UnitOK
    <2>3. ASSUME NEW k, InUnit(k), k # c PROVE InUnit(k)'
      <3>1. PICK i \in Ids : channel[i].moves /\ channel[i].done = k
        BY <2>3 DEF InUnit
      <3> QED
        BY <1>2, <1>5, <2>1, <2>3, <3>1 DEF InUnit
    <2> QED
      BY <2>1, <2>2, <2>3
  <1>9. MdmaTypeOK' /\ NodesOK(nodes')
    BY <1>1, <1>4, <1>5, <1>6, <1>7 DEF MdmaTypeOK
  <1>10. ChannelsOK'
    <2>1. \A i \in Ids : /\ channel'[i].moves => Taken(i)'
                         /\ i \in freeMap' => ~Taken(i)'
      BY <1>1, <1>4, <1>5, <1>8 DEF ChannelsOK
    <2>2. loop.at \in {"list", "data"} => loop.id \in Ids /\ loop.id # id
      BY <1>1 DEF ChannelsOK, MdmaTypeOK
    <2>3. loop.at \in {"list", "data"} => channel'[loop.id] = channel[loop.id]
      BY <1>5, <2>2
    <2> QED
      BY <1>1, <1>4, <2>1, <2>3 DEF ChannelsOK
  <1>11. StackOK'
    <2>1. ASSUME NEW k \in DOMAIN stack
          PROVE  /\ caller'[stack[k].done].asks # <<>>
                 /\ Serving(nodes, stack[k].first, stack[k].done)'
                 /\ done'[stack[k].done] \/ InUnit(stack[k].done) \/ stack[k].done \in failed
                    => loop.at = "pop" /\ k = Len(stack)
      <3>1. stack[k].done \in Callers
        BY <1>1, EntriesAreTyped
      <3>2. done'[stack[k].done] => done[stack[k].done] \/ InUnit(stack[k].done)
        BY <1>3, <1>7, <3>1
      <3> QED
        BY <1>1, <1>6, <3>1, <3>2 DEF StackOK, Asked, Serving
    <2>2. \A k \in DOMAIN stack : InUnit(stack[k].done)' => InUnit(stack[k].done)
      <3> SUFFICES ASSUME NEW k \in DOMAIN stack, InUnit(stack[k].done)'
                   PROVE  InUnit(stack[k].done)
        OBVIOUS
      <3>1. PICK o : o = stack[k].done
        OBVIOUS
      <3>2. InUnit(o)'
        BY <1>1, <3>1 DEF InUnit
      <3> QED
        BY <1>8, <3>1, <3>2
    <2> QED
      BY <1>1, <2>1, <2>2 DEF StackOK, Asked
  <1>12. UnitOK'
    <2>1. ASSUME NEW i \in Ids, channel'[i].moves
          PROVE  /\ i # id /\ channel[i].moves /\ channel'[i] = channel[i]
                 /\ channel[i].done # Null /\ ~done'[channel[i].done]
                 /\ caller'[channel[i].done].asks # <<>>
                 /\ channel[i].done \notin cut =>
                      Serves(nodes, caller'[channel[i].done].asks, channel[i].node, channel[i].done)
      <3>1. i # id /\ channel[i].moves /\ channel'[i] = channel[i]
        BY <1>5, <1>8, <2>1
      <3>2. channel[i].done \in Callers /\ channel[i].done # c
        BY <1>1, <1>2, <3>1 DEF UnitOK, MdmaTypeOK
      <3> QED
        BY <1>1, <1>6, <1>7, <3>1, <3>2 DEF UnitOK, Asked, Serving
    <2>2. \A i, j \in Ids : channel'[i].moves /\ channel'[j].moves
                            /\ channel'[i].done = channel'[j].done => i = j
      BY <1>1, <2>1 DEF UnitOK
    <2> QED
      BY <1>1, <2>1, <2>2 DEF UnitOK, Asked, Serving
  <1>13. DataOK'
    <2> SUFFICES ASSUME loop.at = "data" PROVE DataOK'
      BY <1>1 DEF DataOK
    <2>1. ~done["raw"] /\ Asked("raw") /\ ~InUnit("raw") /\ "raw" \notin failed
          /\ Serving(nodes, channel[loop.id].node, "raw")
      BY <1>1 DEF DataOK
    <2>2. c # "raw" /\ ~InUnit("raw")' /\ "raw" \in Callers
      BY <1>3, <1>8, <2>1, RawIsACaller
    <2>3. channel'[loop.id] = channel[loop.id]
      BY <1>1, <1>5 DEF ChannelsOK, MdmaTypeOK
    <2> QED
      BY <1>1, <1>6, <1>7, <2>1, <2>2, <2>3 DEF DataOK, Asked, Serving
  <1>14. FlagsOK' /\ FailedOK'
    <2>1. FlagsOK'
      BY <1>1, <1>3, <1>4, <1>6, <1>7 DEF FlagsOK, Asked
    <2>2. FailedOK'
      BY <1>1, <1>3, <1>6, <1>7, <1>8 DEF FailedOK, Asked, MdmaTypeOK
    <2> QED
      BY <2>1, <2>2
  <1>15. KeptOK' /\ CutOK'
    BY <1>1, <1>6, <1>7, <1>8 DEF KeptOK, CutOK, Held, Asked
  <1> QED
    BY <1>9, <1>10, <1>11, <1>12, <1>13, <1>14, <1>15 DEF MdmaInv


(* A failed channel moves nothing more and its caller is told nothing.         *)
LEMMA FailKeepsMdmaInv ==
  ASSUME MdmaInv, NEW id \in Ids, Fail(id)
  PROVE  MdmaInv'
  <1>1. /\ MdmaTypeOK /\ NodesOK(nodes) /\ ChannelsOK /\ StackOK /\ UnitOK /\ DataOK
        /\ FlagsOK /\ FailedOK /\ KeptOK /\ CutOK
        /\ channel[id].moves /\ Taken(id)
        /\ channel' = [channel EXCEPT ![id].state = "READY", ![id].moves = FALSE]
        /\ UNCHANGED <<freeMap, stack, nodes, loop, blocked, caller, cut>>
    BY DEF MdmaInv, Fail, ChannelsOK
  <1>2. PICK c : c = channel[id].done
    OBVIOUS
  <1>3. /\ c \in Callers /\ ~done[c] /\ Asked(c) /\ InUnit(c)
        /\ done' = done /\ failed' = failed \cup {c}
    <2>1. c # Null /\ ~done[c] /\ c \in Callers /\ Asked(c) /\ InUnit(c)
      BY <1>1, <1>2 DEF UnitOK, MdmaTypeOK, InUnit
    <2> QED
      BY <1>1, <1>2, <2>1 DEF Fail, MdmaTypeOK
  <1>4. /\ channel' \in [Ids -> [state : {"READY", "BUSY"}, done : Callers \cup {Null},
                                 node : NodeNames \cup {NoNode}, moves : BOOLEAN]]
        /\ channel'[id].state = "READY" /\ ~channel'[id].moves
        /\ \A i \in Ids : i # id => channel'[i] = channel[i]
    BY <1>1, ChannelMoves
  <1>5. /\ \A i \in Ids : Taken(i)' => Taken(i)
        /\ \A i \in Ids : channel'[i].moves => channel[i].moves /\ channel'[i] = channel[i] /\ i # id
        /\ \A k : InUnit(k)' <=> InUnit(k) /\ k # c
    <2>1. /\ \A i \in Ids : Taken(i)' => Taken(i)
          /\ \A i \in Ids : channel'[i].moves => channel[i].moves /\ channel'[i] = channel[i] /\ i # id
      BY <1>1, <1>4 DEF Taken
    <2>2. ASSUME NEW k, InUnit(k)' PROVE InUnit(k) /\ k # c
      <3>1. PICK i \in Ids : channel'[i].moves /\ channel'[i].done = k
        BY <2>2 DEF InUnit
      <3>2. i # id /\ channel[i].moves /\ channel[i].done = k
        BY <2>1, <3>1
      <3> QED
        BY <1>1, <1>2, <3>2 DEF InUnit, UnitOK
    <2>3. ASSUME NEW k, InUnit(k), k # c PROVE InUnit(k)'
      <3>1. PICK i \in Ids : channel[i].moves /\ channel[i].done = k
        BY <2>3 DEF InUnit
      <3> QED
        BY <1>2, <1>4, <2>3, <3>1 DEF InUnit
    <2> QED
      BY <2>1, <2>2, <2>3
  <1>6. MdmaTypeOK' /\ NodesOK(nodes')
    BY <1>1, <1>3, <1>4 DEF MdmaTypeOK
  <1>7. ChannelsOK'
    <2>1. \A i \in Ids : /\ channel'[i].moves => Taken(i)'
                         /\ i \in freeMap' => ~Taken(i)'
      BY <1>1, <1>4, <1>5 DEF ChannelsOK, Taken
    <2>2. loop.at \in {"list", "data"} => loop.id \in Ids /\ loop.id # id
      BY <1>1 DEF ChannelsOK, MdmaTypeOK
    <2> QED
      BY <1>1, <1>4, <2>1, <2>2 DEF ChannelsOK
  <1>8. StackOK'
    <2>1. ASSUME NEW k \in DOMAIN stack,
                 done[stack[k].done] \/ InUnit(stack[k].done)' \/ stack[k].done \in failed'
          PROVE  loop.at = "pop" /\ k = Len(stack)
      <3>1. PICK o : o = stack[k].done
        OBVIOUS
      <3>2. InUnit(o)' => InUnit(o)
        BY <1>5
      <3>3. InUnit(stack[k].done)' <=> InUnit(o)'
        BY <1>1, <3>1 DEF InUnit
      <3>4. done[o] \/ InUnit(o) \/ o \in failed
        BY <1>3, <2>1, <3>1, <3>2, <3>3
      <3> QED
        BY <1>1, <3>1, <3>4 DEF StackOK
    <2> QED
      BY <1>1, <1>3, <2>1 DEF StackOK, Asked, Serving
  <1>9. UnitOK'
    <2>1. ASSUME NEW i \in Ids, channel'[i].moves
          PROVE  /\ channel[i].moves /\ channel'[i] = channel[i]
                 /\ channel[i].done # Null /\ ~done[channel[i].done] /\ Asked(channel[i].done)
                 /\ Serving(nodes, channel[i].node, channel[i].done)
      BY <1>1, <1>5, <2>1 DEF UnitOK
    <2>2. \A i, j \in Ids : channel'[i].moves /\ channel'[j].moves
                            /\ channel'[i].done = channel'[j].done => i = j
      BY <1>1, <2>1 DEF UnitOK
    <2>3. ASSUME NEW i \in Ids, channel'[i].moves
          PROVE  /\ channel'[i].done # Null /\ ~done'[channel'[i].done]
                 /\ caller'[channel'[i].done].asks # <<>>
                 /\ Serving(nodes, channel[i].node, channel[i].done)'
      <3>1. PICK o, n : o = channel[i].done /\ n = channel[i].node
        OBVIOUS
      <3>2. o # Null /\ ~done[o] /\ caller[o].asks # <<>>
            /\ (o \notin cut => Serves(nodes, caller[o].asks, n, o))
        BY <2>1, <2>3, <3>1 DEF Asked, Serving
      <3>3. /\ channel'[i].done = o /\ channel'[i].node = n /\ done' = done
            /\ caller' = caller /\ nodes' = nodes /\ cut' = cut
        BY <1>1, <1>3, <2>1, <2>3, <3>1
      <3>4. caller'[channel'[i].done].asks = caller[o].asks
        BY <3>3
      <3>5. o \notin cut' => Serves(nodes', caller'[o].asks, n, o)
        BY <3>2, <3>3
      <3>6. Serving(nodes, channel[i].node, channel[i].done)'
        BY <3>3, <3>5 DEF Serving
      <3> QED
        BY <3>2, <3>3, <3>4, <3>6
    <2> QED
      BY <2>2, <2>3 DEF UnitOK, Asked
  <1>10. DataOK'
    <2> SUFFICES ASSUME loop.at = "data" PROVE DataOK'
      BY <1>1 DEF DataOK
    <2>1. ~InUnit("raw") /\ c # "raw" /\ ~InUnit("raw")'
      BY <1>1, <1>3, <1>5 DEF DataOK
    <2>2. channel'[loop.id] = channel[loop.id]
      BY <1>1, <1>4 DEF ChannelsOK, MdmaTypeOK
    <2> QED
      BY <1>1, <1>3, <2>1, <2>2 DEF DataOK, Asked, Serving
  <1>11. FlagsOK' /\ FailedOK'
    BY <1>1, <1>3, <1>5 DEF FlagsOK, FailedOK, Asked
  <1>12. KeptOK' /\ CutOK'
    BY <1>1, <1>3, <1>5 DEF KeptOK, CutOK, Held, Asked
  <1> QED
    BY <1>6, <1>7, <1>8, <1>9, <1>10, <1>11, <1>12 DEF MdmaInv

(* Its flag is the only place a caller's request is in: it may ask again.     *)
LEMMA SeeKeepsMdmaInv ==
  ASSUME MdmaInv, NEW c \in Callers, See(c)
  PROVE  MdmaInv'
  <1>1. /\ MdmaTypeOK /\ NodesOK(nodes) /\ ChannelsOK /\ StackOK /\ UnitOK /\ DataOK
        /\ FlagsOK /\ FailedOK /\ KeptOK /\ CutOK
        /\ loop.at = "idle" /\ done[c] /\ blocked' = Null
        /\ done' = [done EXCEPT ![c] = FALSE]
        /\ caller' = [caller EXCEPT ![c] = [asks |-> <<>>, moved |-> <<>>]]
        /\ UNCHANGED <<channel, freeMap, stack, nodes, loop, failed, cut>>
    BY DEF MdmaInv, See, Idle
  <1>2. /\ ~InUnit(c) /\ c \notin failed /\ \A k \in DOMAIN stack : stack[k].done # c
    BY <1>1 DEF StackOK, UnitOK, FailedOK, InUnit
  <1>3. /\ caller' = [k \in Callers |-> [asks |-> caller'[k].asks, moved |-> caller'[k].moved]]
        /\ ~Asked(c)' /\ \A k \in Callers : k # c => caller'[k] = caller[k]
        /\ done' \in [Callers -> BOOLEAN] /\ ~done'[c]
        /\ \A k \in Callers : k # c => done'[k] = done[k]
    BY <1>1 DEF MdmaTypeOK, Asked
  <1>4. /\ \A i \in Ids : Taken(i)' = Taken(i)
        /\ \A k : InUnit(k)' = InUnit(k)
    BY <1>1 DEF Taken, InUnit
  <1>5. MdmaTypeOK' /\ NodesOK(nodes')
    BY <1>1, <1>3 DEF MdmaTypeOK
  <1>6. ChannelsOK'
    BY <1>1, <1>4 DEF ChannelsOK
  <1>7. StackOK'
    <2>1. \A k \in DOMAIN stack : stack[k].done \in Callers /\ stack[k].done # c
      BY <1>1, <1>2, EntriesAreTyped
    <2>2. \A k \in DOMAIN stack : InUnit(stack[k].done)' => InUnit(stack[k].done)
      BY <1>1 DEF InUnit, Taken
    <2> QED
      BY <1>1, <1>3, <2>1, <2>2 DEF StackOK, Asked, Serving
  <1>8. UnitOK'
    <2>1. \A i \in Ids : channel[i].moves => channel[i].done \in Callers /\ channel[i].done # c
      BY <1>1, <1>2 DEF UnitOK, InUnit, MdmaTypeOK
    <2> QED
      BY <1>1, <1>3, <1>4, <2>1 DEF UnitOK, Asked, Serving
  <1>9. DataOK' /\ FlagsOK'
    BY <1>1, <1>3 DEF DataOK, FlagsOK, Asked
  <1>11. FailedOK' /\ CutOK'
    BY <1>1, <1>2, <1>3, <1>4 DEF FailedOK, CutOK, Asked, MdmaTypeOK
  <1>10. KeptOK'
    <2> SUFFICES ASSUME NEW k \in Callers, Asked(k)', k \notin failed PROVE Held(k)'
      BY <1>1 DEF KeptOK
    <2>1. k # c /\ Held(k)
      BY <1>1, <1>3 DEF KeptOK, Asked
    <2> QED
      BY <1>1, <1>3, <1>4, <2>1 DEF Held
  <1> QED
    BY <1>1, <1>5, <1>6, <1>7, <1>8, <1>9, <1>10, <1>11 DEF MdmaInv, MdmaTypeOK

LEMMA MdmaStepsKeepInv == MdmaInv /\ [MdmaNext]_mdmaVars => MdmaInv'
  <1> SUFFICES ASSUME MdmaInv, [MdmaNext]_mdmaVars PROVE MdmaInv'
    OBVIOUS
  <1>1. CASE \E address \in External \cup {0}, blocking \in BOOLEAN :
               \/ \E p \in Sent : Build(p, address, blocking)
               \/ \E p \in Received : Parse(p, address, blocking)
    BY <1>1, BuildKeepsMdmaInv, ParseKeepsMdmaInv
  <1>2. CASE transfer_data
    BY <1>2, DataKeepsMdmaInv
  <1>3. CASE MdmaUpdate
    BY <1>3, PickKeepsMdmaInv, BeginKeepsMdmaInv, PopKeepsMdmaInv DEF MdmaUpdate
  <1>4. CASE MdmaIrq
    BY <1>4, CompleteKeepsMdmaInv, FailKeepsMdmaInv DEF MdmaIrq
  <1>5. CASE \E c \in Callers : See(c)
    BY <1>5, SeeKeepsMdmaInv
  <1>6. CASE UNCHANGED mdmaVars
    <2>1. MdmaTypeOK' /\ NodesOK(nodes)' /\ ChannelsOK'
      BY <1>6 DEF mdmaVars, MdmaInv, MdmaTypeOK, ChannelsOK, Taken
    <2>2. StackOK' /\ UnitOK' /\ DataOK'
      BY <1>6 DEF mdmaVars, MdmaInv, StackOK, UnitOK, DataOK, InUnit, Asked, Serving
    <2>3. FlagsOK' /\ FailedOK' /\ KeptOK' /\ CutOK'
      BY <1>6 DEF mdmaVars, MdmaInv, FlagsOK, FailedOK, KeptOK, CutOK, Held, InUnit, Asked
    <2> QED
      BY <2>1, <2>2, <2>3 DEF MdmaInv
  <1> QED
    BY <1>1, <1>2, <1>3, <1>4, <1>5, <1>6 DEF MdmaNext

(* MDMA and MdmaPacket lose no request but those whose transfer fails and       *)
(* report none twice, while interrupts return channels under the main loop's    *)
(* feet (MDMA.cpp, prepare_transfer and update); a flag that is set means that  *)
(* the whole request was moved, unless it is of a packet once parsed from its   *)
(* own buffer: for every board's packets, buffers and number of channels.      *)
THEOREM MdmaKeepsItsRequests == MdmaSpec => []MdmaServesItsCallers
  <1>1. MdmaSpec => []MdmaInv
    BY MdmaStartsWell, MdmaStepsKeepInv, PTL DEF MdmaSpec
  <1> QED
    BY <1>1, MdmaInvServes, PTL

-----------------------------------------------------------------------------
(* Timers                                                                  *)

Halves == CompareChannels \X {"P", "N"}
Modes  == {"frozen", "pwm", "rising", "falling"}

Registers ==
  [arr : 0 .. TimRange - 1, psc : Nat, cnt : 0 .. TimRange - 1, center : BOOLEAN,
   cen : BOOLEAN, moe : BOOLEAN, dtg : Nat, ccr : [CompareChannels -> Nat],
   out : SUBSET Halves, mode : [CompareChannels -> Modes],
   irq : SUBSET CompareChannels, sr : SUBSET CompareChannels]
Objects ==
  [on : SUBSET Halves, configured : SUBSET CompareChannels, duty : [CompareChannels -> Duties],
   frequency : Nat, silent : SUBSET CompareChannels, early : SUBSET CompareChannels, dead : Nat]

Captured ==
  [on : BOOLEAN, configured : BOOLEAN, rising : Nat, falling : Nat, period : Nat,
   frequency : Nat, duty : Nat \X Nat]
Signals ==
  [level : BOOLEAN, since : Nat, high : Nat, period : Nat, clean : 0 .. 3, fits : BOOLEAN,
   edges : Nat]

TimTypeOK ==
  /\ rig \in Rigs
  /\ tim \in Registers
  /\ hal \subseteq Halves
  /\ pwm \in Objects
  /\ capture \in Captured
  /\ isr \in [at : 0 .. 4, reads : BOOLEAN, seen : SUBSET CompareChannels]
  /\ wave \in Signals

(* An output that is on is driven, and what takes the last enable bit away *)
(* to stop the counter finds that of every other: the bit of a pair's      *)
(* complement is lost only while its positive half keeps its own.          *)
Driven ==
  /\ \A c \in CompareChannels, half \in {"P", "N"} : <<c, half>> \in pwm.on =>
       /\ c \in rig.pwm \cup rig.dual /\ (half = "N" => c \in rig.dual)
       /\ c \notin Twice =>
            /\ tim.cen = TRUE /\ (is_break_instance => tim.moe = TRUE)
            /\ half = "P" => <<c, half>> \in tim.out
            /\ <<c, half>> \in tim.out \/ (c \in pwm.early /\ c \in pwm.configured)
            /\ c \in pwm.configured \cup pwm.early
  /\ \A c \in pwm.configured :
       /\ c \in rig.pwm \cup rig.dual
       /\ c \notin Twice =>
            /\ tim.mode[c] = "pwm"
            /\ c \in rig.dual => <<c, "P">> \in pwm.on

(* Every compare register follows the period, whoever changed it.          *)
Follows ==
  \A c \in (rig.pwm \cup rig.dual) \ Twice :
    /\ ~Listens(c)
    /\ pwm.duty[c] # 0 => tim.ccr[c] = RawDuty(tim.arr, pwm.duty[c])
    /\ pwm.duty[c] = 0 /\ c \notin pwm.silent => tim.ccr[c] = 0

(* What a capture holds, and that it keeps the counter running.            *)
Captures ==
  /\ ~capture.on => tim.irq = {} /\ hal \subseteq pwm.on /\ tim.out \subseteq pwm.on
  /\ capture.on =>
       /\ rig.capture # <<>>
       /\ tim.irq = {Rising, Falling}
       /\ hal \subseteq pwm.on \cup Claim(Rising) \cup Claim(Falling)
       /\ tim.out \subseteq pwm.on \cup {<<Rising, "P">>, <<Falling, "P">>}
       /\ Claimed \cap Twice = {} => tim.cen = TRUE /\ <<Rising, "P">> \in tim.out

LastEdge == IF wave.level THEN Rising ELSE Falling

(* An edge heard one at a time waits for the interrupt: the registers hold *)
(* where it was, and the capture still what the edge before left.          *)
Waiting ==
  /\ tim.sr = {LastEdge} /\ isr.at = 0
  /\ tim.ccr[LastEdge] = tim.cnt
  /\ wave.level =>
       /\ wave.since = 0
       /\ wave.clean = 3 => /\ capture.rising + wave.period = tim.cnt
                            /\ wave.high < wave.period
                            /\ wave.fits => capture.falling = wave.high
  /\ ~wave.level /\ wave.clean >= 2 =>
       /\ capture.rising + wave.high = tim.cnt /\ wave.since = wave.high
       /\ wave.fits <=> wave.high < capture.period

(* The interrupt has read it.                                              *)
Heeded ==
  /\ tim.sr = {}
  /\ wave.level =>
       /\ wave.since = 0
       /\ capture.rising = tim.cnt
       /\ wave.clean = 3 /\ wave.fits =>
            /\ capture.period = wave.period /\ wave.period > 0
            /\ capture.duty = <<wave.high, wave.period>>
            /\ capture.frequency = (TimClock \div (tim.psc + 1)) \div wave.period
  /\ ~wave.level /\ wave.clean >= 2 =>
       /\ capture.rising + wave.high = tim.cnt /\ wave.since = wave.high
       /\ wave.fits <=> wave.high < capture.period
       /\ wave.fits => capture.falling = wave.high

Hears ==
  /\ isr.reads => isr.at # 0
  /\ isr.seen # {} => isr.reads
  /\ wave.clean >= 1 /\ Claimed \cap Twice = {} => capture.on /\ (Waiting \/ Heeded)

TimInv ==
  /\ TimTypeOK
  /\ Driven
  /\ Follows
  /\ tim.dtg = DeadTime(pwm.dead)
  /\ Captures
  /\ Hears

-----------------------------------------------------------------------------
(* What quotients and remainders are, once for all.                        *)
LEMMA Quotient ==
  ASSUME NEW a \in Nat, NEW b \in Nat \ {0}
  PROVE  a \div b \in Nat /\ (a \div b) * b <= a /\ a < (a \div b) * b + b
  OBVIOUS

LEMMA Remainder ==
  ASSUME NEW a \in Nat, NEW b \in Nat \ {0}
  PROVE  a % b \in 0 .. b - 1 /\ (a < b => a % b = a)
  OBVIOUS

LEMMA Cancels ==
  ASSUME NEW a \in Nat, NEW b \in Nat, NEW n \in Nat \ {0}, a * n < b * n
  PROVE  a < b
  OBVIOUS

(* The steps of a range of dead times: a quotient and its multiples.       *)
LEMMA StepsOf ==
  ASSUME NEW ns \in Nat, NEW k \in {1, 2, 8, 16}, NEW lo \in Nat, NEW hi \in Nat,
         lo * ClockPeriod <= ns, ns <= hi * ClockPeriod
  PROVE  LET q == ns \div (k * ClockPeriod)
         IN  /\ q \in Nat /\ k * q <= hi /\ lo < k * q + k
             /\ (k * q) * ClockPeriod <= ns /\ ns < (k * q + k) * ClockPeriod
  <1> USE RigsAssumption
  <1> DEFINE q == ns \div (k * ClockPeriod)
  <1>1. k * ClockPeriod \in Nat \ {0}
    OBVIOUS
  <1>2. q \in Nat /\ q * (k * ClockPeriod) <= ns /\ ns < q * (k * ClockPeriod) + k * ClockPeriod
    BY <1>1, Quotient
  <1> HIDE DEF q
  <1>3. q * (k * ClockPeriod) = (k * q) * ClockPeriod
    BY <1>2
  <1>4. (k * q) * ClockPeriod + k * ClockPeriod = (k * q + k) * ClockPeriod
    BY <1>2
  <1>5. k * q \in Nat /\ k * q + k \in Nat
    BY <1>2
  <1>6. (k * q) * ClockPeriod <= hi * ClockPeriod /\ lo * ClockPeriod < (k * q + k) * ClockPeriod
    <2> DEFINE x == (k * q) * ClockPeriod  y == (k * q + k) * ClockPeriod
               l == lo * ClockPeriod  h == hi * ClockPeriod
    <2>1. x \in Nat /\ y \in Nat /\ l \in Nat /\ h \in Nat
      BY <1>5
    <2>2. x <= ns /\ ns < y
      BY <1>2, <1>3, <1>4
    <2> HIDE DEF x, y, l, h
    <2>3. l <= ns /\ ns <= h
      BY DEF l, h
    <2>4. x <= h /\ l < y
      BY <2>1, <2>2, <2>3
    <2> QED
      BY <2>4 DEF x, y, l, h
  <1>7. lo < k * q + k
    BY <1>5, <1>6, Cancels
  <1>8. k * q <= hi
    <2>1. (k * q) * ClockPeriod < (hi + 1) * ClockPeriod
      BY <1>5, <1>6
    <2>2. k * q < hi + 1
      BY <1>5, <2>1, Cancels
    <2> QED
      BY <1>5, <2>2
  <1> QED
    BY <1>2, <1>3, <1>4, <1>7, <1>8 DEF q

(* Of a dead time that can be given, what is set is right to a step of the *)
(* range it falls in.                                                      *)
LEMMA DeadTimeIsGiven ==
  ASSUME NEW ns \in Nat
  PROVE  /\ DeadTime(ns) \in Nat
         /\ ns <= 1008 * ClockPeriod =>
              /\ Given(DeadTime(ns)) * ClockPeriod <= ns + 8 * ClockPeriod
              /\ ns < (Given(DeadTime(ns)) + 16) * ClockPeriod
  <1> USE RigsAssumption
  <1> DEFINE q(k) == ns \div (k * ClockPeriod)
             d == DeadTime(ns)
             Right == /\ d \in Nat
                      /\ Given(d) * ClockPeriod <= ns + 8 * ClockPeriod
                      /\ ns < (Given(d) + 16) * ClockPeriod
  <1>1. CASE ns <= 127 * ClockPeriod
    <2>1. q(1) \in Nat /\ 1 * q(1) <= 127 /\ (1 * q(1)) * ClockPeriod <= ns
          /\ ns < (1 * q(1) + 1) * ClockPeriod
      BY <1>1, StepsOf
    <2>2. d = q(1)
      BY <1>1 DEF DeadTime
    <2>3. Given(d) = q(1)
      BY <2>1, <2>2 DEF Given
    <2>4. Right
      BY <2>1, <2>2, <2>3
    <2> QED
      BY <2>4
  <1>2. CASE 127 * ClockPeriod < ns /\ ns <= 254 * ClockPeriod
    <2>1. q(2) \in Nat /\ 2 * q(2) <= 254 /\ 127 < 2 * q(2) + 2
          /\ (2 * q(2)) * ClockPeriod <= ns /\ ns < (2 * q(2) + 2) * ClockPeriod
      BY <1>2, StepsOf
    <2>2. d = 128 + (IF q(2) < 64 THEN 0 ELSE q(2) - 64)
      BY <1>2 DEF DeadTime
    <2> HIDE DEF d, q
    <2>a. d \in 128 .. 191 /\ ~(d < 128)
      BY <2>1, <2>2
    <2>b. Given(d) = 2 * (d - 64)
      BY <2>a DEF Given
    <2>3. Given(d) = IF q(2) < 64 THEN 128 ELSE 2 * q(2)
      BY <2>1, <2>2, <2>a, <2>b
    <2>4. Right
      BY <1>2, <2>1, <2>2, <2>3
    <2> QED
      BY <2>4 DEF d
  <1>3. CASE 254 * ClockPeriod < ns /\ ns <= 504 * ClockPeriod
    <2>1. q(8) \in Nat /\ 8 * q(8) <= 504 /\ 254 < 8 * q(8) + 8
          /\ (8 * q(8)) * ClockPeriod <= ns /\ ns < (8 * q(8) + 8) * ClockPeriod
      BY <1>3, StepsOf
    <2>2. d = 192 + (IF q(8) < 32 THEN 0 ELSE q(8) - 32)
      BY <1>3 DEF DeadTime
    <2> HIDE DEF d, q
    <2>a. d \in 192 .. 223 /\ ~(d < 128) /\ d \notin 128 .. 191
      BY <2>1, <2>2
    <2>b. Given(d) = 8 * (d - 160)
      BY <2>a DEF Given
    <2>3. Given(d) = IF q(8) < 32 THEN 256 ELSE 8 * q(8)
      BY <2>1, <2>2, <2>a, <2>b
    <2>4. Right
      BY <1>3, <2>1, <2>2, <2>3
    <2> QED
      BY <2>4 DEF d
  <1>4. CASE 504 * ClockPeriod < ns /\ ns <= 1008 * ClockPeriod
    <2>1. q(16) \in Nat /\ 16 * q(16) <= 1008 /\ 504 < 16 * q(16) + 16
          /\ (16 * q(16)) * ClockPeriod <= ns /\ ns < (16 * q(16) + 16) * ClockPeriod
      BY <1>4, StepsOf
    <2>2. d = 224 + (IF q(16) < 32 THEN 0 ELSE q(16) - 32)
      BY <1>4 DEF DeadTime
    <2> HIDE DEF d, q
    <2>a. d \in 224 .. 255 /\ ~(d < 128) /\ d \notin 128 .. 191
      BY <2>1, <2>2
    <2>b. Given(d) = 16 * (d - 192)
      BY <2>a DEF Given
    <2>3. Given(d) = IF q(16) < 32 THEN 512 ELSE 16 * q(16)
      BY <2>1, <2>2, <2>a, <2>b
    <2>4. Right
      BY <1>4, <2>1, <2>2, <2>3
    <2> QED
      BY <2>4 DEF d
  <1>5. CASE 1008 * ClockPeriod < ns
    BY <1>5 DEF DeadTime
  <1> QED
    BY <1>1, <1>2, <1>3, <1>4, <1>5

LEMMA NoShareOfNothing ==
  ASSUME NEW raw \in Nat, NEW n \in Nat, IsShare(raw, n * 0)
  PROVE  raw = 0
  <1>1. FloatRange \in Nat \ {0} /\ n * 0 = 0
    BY FloatAssumption
  <1>2. FloatRange * raw <= 0
    <2> DEFINE x == FloatRange * raw
    <2>1. x \in Nat /\ 100 * FloatRange * raw = 100 * x /\ 0 * (FloatRange + 4) = 0
      BY <1>1
    <2> HIDE DEF x
    <2>2. 100 * x <= 0
      BY <1>1, <2>1 DEF IsShare
    <2> QED
      BY <2>1, <2>2 DEF x
  <1>3. raw # 0 => FloatRange * raw >= 1
    BY <1>1
  <1> QED
    BY <1>1, <1>2, <1>3

LEMMA ShareFits ==
  ASSUME NEW raw \in Nat, NEW share \in Nat, IsShare(raw, share),
         share * (FloatRange + 4) < 100 * FloatRange * TimRange
  PROVE  raw < TimRange
  <1>1. FloatRange \in Nat \ {0} /\ TimRange \in Nat
    BY FloatAssumption, RigsAssumption
  <1> DEFINE h == 100 * FloatRange
  <1>2. h \in Nat \ {0} /\ raw * h = 100 * FloatRange * raw /\ TimRange * h = 100 * FloatRange * TimRange
    BY <1>1
  <1> HIDE DEF h
  <1>3. raw * h < TimRange * h
    <2> DEFINE x == share * (FloatRange + 4)
    <2>1. x \in Nat /\ raw * h <= x /\ x < TimRange * h
      BY <1>1, <1>2 DEF IsShare
    <2> HIDE DEF x
    <2> QED
      BY <1>1, <1>2, <2>1
  <1> QED
    BY <1>1, <1>2, <1>3, Cancels

(* A compare register shows the share of the period its duty is.           *)
LEMMA DutyIsAShare ==
  ASSUME rig \in Rigs, NEW arr \in 0 .. TimRange - 1, NEW duty \in Duties
  PROVE  /\ RawDuty(arr, duty) \in Nat
         /\ duty = 0 => RawDuty(arr, duty) = 0
         /\ CanShow(arr, duty) => IsShare(RawDuty(arr, duty), (arr + 1) * duty)
  <1> DEFINE n == arr + 1  m == n % TimRange
  <1>1. n \in 1 .. TimRange /\ TimRange \in Nat \ {0} /\ FloatRange \in Nat \ {0} /\ duty \in Nat
    BY RigsAssumption, FloatAssumption
  <1>2. m \in 0 .. TimRange - 1 /\ (n < TimRange => m = n)
    <2>1. PICK k \in Nat : k = n
      BY <1>1
    <2>2. k % TimRange \in 0 .. TimRange - 1 /\ (k < TimRange => k % TimRange = k)
      BY <1>1, Remainder
    <2> QED
      BY <2>1, <2>2
  <1>3. /\ FloatShare(n, duty) \in Nat /\ IsShare(FloatShare(n, duty), n * duty)
        /\ FloatShare(m, duty) \in Nat /\ IsShare(FloatShare(m, duty), m * duty)
    <2> HIDE DEF n, m
    <2> QED
      BY <1>1, <1>2, FloatAssumption
  <1>4. \A x \in 0 .. TimRange : x * duty \in Nat
    BY <1>1
  <1>5. CASE is_32bit_instance
    <2>1. PICK raw \in Nat : raw = FloatShare(m, duty)
      BY <1>3
    <2>2. RawDuty(arr, duty) = IF raw < TimRange THEN raw ELSE TimRange - 1
      BY <1>5, <2>1 DEF RawDuty
    <2> HIDE DEF n, m
    <2>3. duty = 0 => raw = 0
      BY <1>1, <1>2, <1>3, <2>1, NoShareOfNothing
    <2>4. ASSUME n < TimRange, n * duty * (FloatRange + 4) < 100 * FloatRange * TimRange
          PROVE  IsShare(RawDuty(arr, duty), n * duty)
      <3>1. raw < TimRange
        BY <1>1, <1>2, <1>3, <1>4, <2>1, <2>4, ShareFits
      <3> QED
        BY <1>2, <1>3, <2>1, <2>2, <2>4, <3>1
    <2>5. RawDuty(arr, duty) \in Nat /\ (duty = 0 => RawDuty(arr, duty) = 0)
      BY <1>1, <2>2, <2>3
    <2> QED
      BY <1>5, <2>4, <2>5 DEF n, CanShow
  <1>6. CASE ~is_32bit_instance
    <2>1. PICK raw \in Nat : raw = FloatShare(n, duty)
      BY <1>3
    <2>2. RawDuty(arr, duty) = raw % TimRange
      BY <1>6, <2>1 DEF RawDuty
    <2> HIDE DEF n, m
    <2>3. raw % TimRange \in 0 .. TimRange - 1 /\ (raw < TimRange => raw % TimRange = raw)
      BY <1>1, Remainder
    <2>4. duty = 0 => raw = 0
      BY <1>1, <1>3, <2>1, NoShareOfNothing
    <2>5. ASSUME n * duty * (FloatRange + 4) < 100 * FloatRange * TimRange
          PROVE  IsShare(RawDuty(arr, duty), n * duty)
      <3>1. raw < TimRange
        BY <1>1, <1>3, <1>4, <2>1, <2>5, ShareFits
      <3> QED
        BY <1>3, <2>1, <2>2, <2>3, <3>1
    <2>6. RawDuty(arr, duty) \in Nat /\ (duty = 0 => RawDuty(arr, duty) = 0)
      BY <1>1, <2>2, <2>3, <2>4
    <2> QED
      BY <2>5, <2>6 DEF n, CanShow
  <1> QED
    BY <1>5, <1>6

-----------------------------------------------------------------------------
(* What compiles says about what hangs on the timer.                       *)
LEMMA RigFacts ==
  ASSUME rig \in Rigs
  PROVE  /\ rig.pwm \cup rig.dual \subseteq CompareChannels
         /\ rig.frequencies \subseteq Nat \ {0} /\ rig.duties \subseteq Duties
         /\ rig.dead \subseteq Nat /\ rig.prescalers \subseteq Nat
         /\ Claimed \subseteq CompareChannels
         /\ rig.capture # <<>> =>
              /\ Rising \in CompareChannels /\ Falling \in CompareChannels /\ Rising # Falling
              /\ Rising \in Claimed /\ Falling \in Claimed
              /\ Claim(Rising) \subseteq Halves /\ Claim(Falling) \subseteq Halves
  <1>1. RigCompiles(rig)
    BY RigsAssumption
  <1>2. rig.capture # <<>> => rig.capture \in {<<1, 2>>, <<2, 1>>, <<3, 4>>, <<4, 3>>}
    BY <1>1 DEF RigCompiles
  <1>3. rig.capture # <<>> => /\ Rising \in CompareChannels /\ Falling \in CompareChannels
                              /\ Rising # Falling /\ DOMAIN rig.capture = {1, 2}
    BY <1>2 DEF Rising, Falling, CompareChannels
  <1>4. rig.capture # <<>> => Rising \in Claimed /\ Falling \in Claimed
    BY <1>3 DEF Rising, Falling, Claimed
  <1> QED
    BY <1>1, <1>3, <1>4, RigsAssumption DEF RigCompiles, Claimed, Claim, Halves

LEMMA TimInvHoldsInitially == TimInit => TimInv
  <1> SUFFICES ASSUME TimInit PROVE TimInv
    OBVIOUS
  <1>1. TimTypeOK
    BY RigsAssumption, FloatAssumption DEF TimInit, TimTypeOK, Registers, Objects, Captured, Signals, Halves, Modes,
       CompareChannels
  <1>2. Driven
    BY DEF TimInit, Driven
  <1>3. Follows
    BY <1>1, RigFacts DEF TimInit, Follows, Listens, TimTypeOK
  <1>4. tim.dtg = DeadTime(pwm.dead)
    <2>1. 0 <= 127 * ClockPeriod /\ 0 \div ClockPeriod = 0
      BY RigsAssumption, Quotient
    <2> QED
      BY <2>1 DEF TimInit, DeadTime
  <1>5. Captures
    BY DEF TimInit, Captures
  <1>6. Hears
    BY DEF TimInit, Hears
  <1> QED
    BY <1>1, <1>2, <1>3, <1>4, <1>5, <1>6 DEF TimInv

-----------------------------------------------------------------------------
(* PWM.                                                                    *)

(* To configure a channel takes no enable bit but its complement's.        *)
LEMMA OutputReadyKeeps ==
  ASSUME TimTypeOK, NEW c \in CompareChannels
  PROVE  LET t == OutputReady(c)
         IN  /\ t \in Registers
             /\ t.arr = tim.arr /\ t.psc = tim.psc /\ t.cnt = tim.cnt /\ t.center = tim.center
             /\ t.cen = tim.cen /\ t.moe = tim.moe /\ t.dtg = tim.dtg /\ t.ccr = tim.ccr
             /\ t.irq = tim.irq /\ t.sr = tim.sr
             /\ t.out \subseteq tim.out /\ tim.out \ {<<c, "N">>} \subseteq t.out
             /\ c \in pwm.configured => t = tim
             /\ c \notin pwm.configured => t.mode[c] = "pwm"
             /\ \A o \in CompareChannels \ {c} : t.mode[o] = tim.mode[o]
  <1>1. CASE c \in pwm.configured
    BY <1>1 DEF OutputReady, TimTypeOK
  <1>2. CASE c \notin pwm.configured
    BY <1>2 DEF OutputReady, config_output_compare_channel, TimTypeOK, Registers, Modes
  <1> QED
    BY <1>1, <1>2

(* What a step leaves alone when the timer is the same and no registers    *)
(* change that the others rely on.                                         *)
LEMMA RigStays ==
  ASSUME rig' = rig
  PROVE  /\ Claimed' = Claimed /\ Twice' = Twice /\ Rising' = Rising /\ Falling' = Falling
         /\ (is_break_instance)' = is_break_instance /\ (is_32bit_instance)' = is_32bit_instance
         /\ \A arr \in Nat, d \in Nat : (RawDuty(arr, d))' = RawDuty(arr, d)
  BY DEF Claimed, Twice, Rising, Falling, is_break_instance, is_32bit_instance, RawDuty

LEMMA FollowsStill ==
  ASSUME TimInv, UNCHANGED rig, tim'.arr = tim.arr,
         pwm'.duty = pwm.duty, pwm'.silent = pwm.silent,
         \A c \in (rig.pwm \cup rig.dual) \ Twice :
             tim'.ccr[c] = tim.ccr[c] /\ tim'.mode[c] \in {tim.mode[c], "pwm"}
  PROVE  Follows'
  BY RigStays DEF TimInv, Follows, Listens, RawDuty, is_32bit_instance

LEMMA HearsStill ==
  ASSUME TimInv, UNCHANGED <<rig, capture, isr, wave>>,
         tim'.cnt = tim.cnt, tim'.sr = tim.sr, tim'.psc = tim.psc,
         \A c \in Claimed \ Twice : tim'.ccr[c] = tim.ccr[c]
  PROVE  Hears'
  <1>1. Claimed' = Claimed /\ Twice' = Twice /\ LastEdge' = LastEdge
    BY RigStays DEF LastEdge
  <1>2. CASE wave.clean >= 1 /\ Claimed \cap Twice = {}
    <2>1. capture.on /\ rig.capture # <<>>
      BY <1>2 DEF TimInv, Hears, Captures
    <2>2. LastEdge \in Claimed \ Twice
      BY <1>2, <2>1, RigFacts DEF TimInv, TimTypeOK, LastEdge
    <2>3. Waiting => Waiting'
      BY <1>1, <2>2 DEF Waiting
    <2>4. Heeded => Heeded'
      BY DEF Heeded
    <2> QED
      BY <1>1, <1>2, <2>3, <2>4 DEF TimInv, Hears
  <1>3. CASE ~(wave.clean >= 1 /\ Claimed \cap Twice = {})
    BY <1>1, <1>3 DEF TimInv, Hears
  <1> QED
    BY <1>2, <1>3

(* Switching on some halves of a channel, with what that does to all the   *)
(* others: t is the timer with the channel configured if it had to be.     *)
LEMMA SwitchedOn ==
  ASSUME TimInv, NEW c \in CompareChannels, NEW H \in SUBSET {<<c, "P">>, <<c, "N">>},
         NEW t, t \in {tim, OutputReady(c)}, UNCHANGED <<rig, capture, isr, wave>>,
         tim' = IF H = {} THEN t
                ELSE [t EXCEPT !.out = @ \cup H, !.moe = @ \/ is_break_instance, !.cen = TRUE],
         hal' = hal \cup H,
         pwm' \in Objects, pwm'.on = pwm.on \cup H,
         pwm'.duty = pwm.duty, pwm'.silent = pwm.silent, pwm'.dead = pwm.dead
  PROVE  /\ Driven' => TimInv'
         /\ tim'.out = t.out \cup H /\ tim'.mode = t.mode
         /\ H # {} => tim'.cen = TRUE /\ (is_break_instance => tim'.moe = TRUE)
         /\ H = {} => tim'.cen = tim.cen /\ tim'.moe = tim.moe
  <1>1. TimTypeOK /\ tim \in Registers
    BY DEF TimInv, TimTypeOK
  <1>2. /\ t \in Registers
        /\ t.arr = tim.arr /\ t.psc = tim.psc /\ t.cnt = tim.cnt /\ t.center = tim.center
        /\ t.cen = tim.cen /\ t.moe = tim.moe /\ t.dtg = tim.dtg /\ t.ccr = tim.ccr
        /\ t.irq = tim.irq /\ t.sr = tim.sr
        /\ t.out \subseteq tim.out /\ tim.out \ {<<c, "N">>} \subseteq t.out
        /\ t.mode[c] \in {tim.mode[c], "pwm"}
        /\ \A x \in CompareChannels \ {c} : t.mode[x] = tim.mode[x]
    BY <1>1, OutputReadyKeeps
  <1>3. H \subseteq Halves /\ (t.moe \/ is_break_instance) \in BOOLEAN
    BY DEF Halves
  <1> DEFINE Fields ==
        /\ tim' \in Registers
        /\ tim'.arr = tim.arr /\ tim'.psc = tim.psc /\ tim'.cnt = tim.cnt /\ tim'.dtg = tim.dtg
        /\ tim'.ccr = tim.ccr /\ tim'.irq = tim.irq /\ tim'.sr = tim.sr
        /\ tim'.out = t.out \cup H /\ tim'.mode = t.mode
        /\ H # {} => tim'.cen = TRUE
        /\ H # {} => (is_break_instance => tim'.moe = TRUE)
        /\ H = {} => tim'.cen = tim.cen /\ tim'.moe = tim.moe
  <1>4. ASSUME H # {} PROVE Fields
    <2>1. tim' = [t EXCEPT !.out = t.out \cup H, !.moe = t.moe \/ is_break_instance, !.cen = TRUE]
      BY <1>4
    <2>2. tim' \in Registers
      BY <1>2, <1>3, <2>1, ZenonT(30) DEF Registers
    <2>3. tim'.out = t.out \cup H /\ tim'.mode = t.mode /\ tim'.cen = TRUE
          /\ tim'.moe = (t.moe \/ is_break_instance)
      BY <1>2, <2>1 DEF Registers
    <2>4. /\ tim'.arr = tim.arr /\ tim'.psc = tim.psc /\ tim'.cnt = tim.cnt /\ tim'.dtg = tim.dtg
          /\ tim'.ccr = tim.ccr /\ tim'.irq = tim.irq /\ tim'.sr = tim.sr
      BY <1>2, <2>1 DEF Registers
    <2> QED
      BY <1>4, <2>2, <2>3, <2>4
  <1>5. ASSUME H = {} PROVE Fields
    BY <1>2, <1>5
  <1>6. Fields
    BY <1>4, <1>5
  <1>7. TimTypeOK'
    BY <1>1, <1>3, <1>6 DEF TimTypeOK
  <1>8. Follows'
    <2>1. \A x \in CompareChannels : tim'.mode[x] \in {tim.mode[x], "pwm"}
      BY <1>2, <1>6
    <2>2. rig.pwm \cup rig.dual \subseteq CompareChannels
      BY <1>1, RigFacts DEF TimTypeOK
    <2> QED
      BY <1>6, <2>1, <2>2, FollowsStill
  <1>9. tim'.dtg = DeadTime(pwm'.dead)
    BY <1>6 DEF TimInv
  <1>10. Captures'
    <2>1. tim.cen = TRUE => tim'.cen = TRUE
      BY <1>6
    <2>2. rig.capture # <<>> /\ <<Rising, "P">> \in tim.out => <<Rising, "P">> \in tim'.out
      BY <1>2, <1>6
    <2> QED
      BY <1>2, <1>6, <2>1, <2>2, RigStays DEF TimInv, Captures, Claim
  <1>11. Hears'
    BY <1>6, HearsStill
  <1> QED
    BY <1>6, <1>7, <1>8, <1>9, <1>10, <1>11 DEF TimInv

LEMMA TurnOnKeeps ==
  ASSUME TimInv, NEW c \in CompareChannels, TurnOn(c)
  PROVE  TimInv'
  <1> DEFINE H == {<<c, "P">>}
  <1>1. PICK t : t = OutputReady(c)
    OBVIOUS
  <1>2. /\ c \in rig.pwm /\ tim' = [t EXCEPT !.out = @ \cup H, !.moe = @ \/ is_break_instance, !.cen = TRUE]
        /\ hal' = hal \cup H /\ UNCHANGED <<rig, capture, isr, wave>>
        /\ pwm' = [pwm EXCEPT !.on = @ \cup H, !.configured = @ \cup {c}]
    BY <1>1 DEF TurnOn, Enable
  <1>3. TimTypeOK /\ pwm \in Objects /\ H \subseteq Halves
    BY DEF TimInv, TimTypeOK, Halves
  <1>4. /\ pwm' \in Objects
        /\ pwm'.on = pwm.on \cup H /\ pwm'.configured = pwm.configured \cup {c}
        /\ pwm'.duty = pwm.duty /\ pwm'.silent = pwm.silent /\ pwm'.early = pwm.early
        /\ pwm'.dead = pwm.dead
    <2> HIDE DEF H
    <2> QED
      BY <1>2, <1>3 DEF Objects
  <1>5. /\ Driven' => TimInv'
        /\ tim'.out = t.out \cup H /\ tim'.mode = t.mode
        /\ tim'.cen = TRUE /\ (is_break_instance => tim'.moe = TRUE)
    <2>1. H # {}
      OBVIOUS
    <2>6. H \in SUBSET {<<c, "P">>, <<c, "N">>}
      OBVIOUS
    <2> HIDE DEF H
    <2>2. tim' = IF H = {} THEN t
                 ELSE [t EXCEPT !.out = @ \cup H, !.moe = @ \/ is_break_instance, !.cen = TRUE]
      BY <1>2, <2>1
    <2>3. t \in {tim, OutputReady(c)}
      BY <1>1
    <2>4. hal' = hal \cup H /\ UNCHANGED <<rig, capture, isr, wave>>
      BY <1>2
    <2>5. /\ Driven' => TimInv'
          /\ tim'.out = t.out \cup H /\ tim'.mode = t.mode
          /\ H # {} => tim'.cen = TRUE /\ (is_break_instance => tim'.moe = TRUE)
          /\ H = {} => tim'.cen = tim.cen /\ tim'.moe = tim.moe
      BY <1>4, <2>2, <2>3, <2>4, <2>6, SwitchedOn, ZenonT(60)
    <2> QED
      BY <2>1, <2>5
  <1>6. /\ tim.out \ {<<c, "N">>} \subseteq t.out
        /\ c \in pwm.configured => t = tim
        /\ c \notin pwm.configured => t.mode[c] = "pwm"
        /\ \A x \in CompareChannels \ {c} : t.mode[x] = tim.mode[x]
    BY <1>1, <1>3, OutputReadyKeeps
  <1>7. c \in rig.dual => c \in Twice
    BY <1>2 DEF Twice
  <1>8. Driven'
    <2>1. ASSUME NEW x \in CompareChannels, NEW half \in {"P", "N"}, <<x, half>> \in pwm'.on
          PROVE  /\ x \in rig.pwm \cup rig.dual /\ (half = "N" => x \in rig.dual)
                 /\ x \notin Twice =>
                      /\ half = "P" => <<x, half>> \in tim'.out
                      /\ <<x, half>> \in tim'.out \/ (x \in pwm'.early /\ x \in pwm'.configured)
                      /\ x \in pwm'.configured \cup pwm'.early
      <3>1. CASE <<x, half>> = <<c, "P">>
        BY <1>2, <1>4, <1>5, <3>1
      <3>2. CASE <<x, half>> # <<c, "P">>
        <4>1. <<x, half>> \in pwm.on
          BY <1>4, <2>1, <3>2
        <4>2. x = c => half = "N"
          BY <3>2
        <4>3. x \notin Twice => x # c
          BY <1>7, <4>1, <4>2 DEF TimInv, Driven
        <4> QED
          BY <1>4, <1>5, <1>6, <4>1, <4>3 DEF TimInv, Driven
      <3> QED
        BY <3>1, <3>2
    <2>2. ASSUME NEW x \in pwm'.configured, x \notin Twice
          PROVE  tim'.mode[x] = "pwm" /\ (x \in rig.dual => <<x, "P">> \in pwm'.on)
      BY <1>3, <1>4, <1>5, <1>6, <2>2 DEF TimInv, Driven, Objects
    <2>3. \A x \in pwm'.configured : x \in rig.pwm \cup rig.dual
      BY <1>2, <1>4 DEF TimInv, Driven
    <2> QED
      BY <1>2, <1>5, <2>1, <2>2, <2>3, RigStays DEF Driven
  <1> QED
    BY <1>5, <1>8

LEMMA DualOnKeeps ==
  ASSUME TimInv, NEW c \in CompareChannels, DualOn(c)
  PROVE  TimInv'
  <1> DEFINE H == {<<c, "P">>, <<c, "N">>} \ pwm.on
  <1>1. PICK t : t = OutputReady(c)
    OBVIOUS
  <1>2. /\ c \in rig.dual
        /\ tim' = IF H = {} THEN t
                  ELSE [t EXCEPT !.out = @ \cup H, !.moe = @ \/ is_break_instance, !.cen = TRUE]
        /\ hal' = hal \cup H /\ UNCHANGED <<rig, capture, isr, wave>>
        /\ pwm' = [pwm EXCEPT !.on = @ \cup H, !.configured = @ \cup {c}]
    BY <1>1 DEF DualOn
  <1>3. TimTypeOK /\ pwm \in Objects /\ H \subseteq Halves
    BY DEF TimInv, TimTypeOK, Halves
  <1>4. /\ pwm' \in Objects
        /\ pwm'.on = pwm.on \cup H /\ pwm'.configured = pwm.configured \cup {c}
        /\ pwm'.duty = pwm.duty /\ pwm'.silent = pwm.silent /\ pwm'.early = pwm.early
        /\ pwm'.dead = pwm.dead
    <2> HIDE DEF H
    <2> QED
      BY <1>2, <1>3 DEF Objects
  <1>5. /\ Driven' => TimInv'
        /\ tim'.out = t.out \cup H /\ tim'.mode = t.mode
        /\ H # {} => tim'.cen = TRUE /\ (is_break_instance => tim'.moe = TRUE)
        /\ H = {} => tim'.cen = tim.cen /\ tim'.moe = tim.moe
    <2>1. H \in SUBSET {<<c, "P">>, <<c, "N">>}
      OBVIOUS
    <2> HIDE DEF H
    <2> QED
      BY <1>1, <1>2, <1>4, <2>1, SwitchedOn, ZenonT(30)
  <1>6. /\ tim.out \ {<<c, "N">>} \subseteq t.out
        /\ c \in pwm.configured => t = tim
        /\ c \notin pwm.configured => t.mode[c] = "pwm"
        /\ \A x \in CompareChannels \ {c} : t.mode[x] = tim.mode[x]
    BY <1>1, <1>3, OutputReadyKeeps
  <1>7. Driven'
    <2>1. ASSUME NEW x \in CompareChannels, NEW half \in {"P", "N"}, <<x, half>> \in pwm'.on
          PROVE  /\ x \in rig.pwm \cup rig.dual /\ (half = "N" => x \in rig.dual)
                 /\ x \notin Twice =>
                      /\ tim'.cen = TRUE /\ (is_break_instance => tim'.moe = TRUE)
                      /\ half = "P" => <<x, half>> \in tim'.out
                      /\ <<x, half>> \in tim'.out \/ (x \in pwm'.early /\ x \in pwm'.configured)
                      /\ x \in pwm'.configured \cup pwm'.early
      <3>1. CASE <<x, half>> \in H
        <4>1. x = c /\ H # {}
          BY <3>1
        <4> QED
          BY <1>2, <1>4, <1>5, <3>1, <4>1
      <3>2. CASE <<x, half>> \notin H
        <4>1. <<x, half>> \in pwm.on
          BY <1>4, <2>1, <3>2
        <4> HIDE DEF H
        <4>2. /\ x \in rig.pwm \cup rig.dual /\ (half = "N" => x \in rig.dual)
              /\ x \notin Twice =>
                   /\ tim'.cen = TRUE /\ (is_break_instance => tim'.moe = TRUE)
                   /\ x \in pwm'.configured \cup pwm'.early
          BY <1>4, <1>5, <4>1 DEF TimInv, Driven
        <4>3. x \notin Twice => /\ half = "P" => <<x, half>> \in tim'.out
                                /\ x # c => <<x, half>> \in tim'.out
                                            \/ (x \in pwm'.early /\ x \in pwm'.configured)
          BY <1>4, <1>5, <1>6, <4>1 DEF TimInv, Driven
        <4>4. x \notin Twice /\ x = c => <<x, half>> \in tim'.out
                                        \/ (x \in pwm'.early /\ x \in pwm'.configured)
          <5> SUFFICES ASSUME x \notin Twice, x = c
                       PROVE  <<x, half>> \in tim'.out \/ x \in pwm.early
            BY <1>4
          <5>1. CASE c \in pwm.configured
            BY <1>5, <1>6, <4>1, <5>1 DEF TimInv, Driven
          <5>2. CASE c \notin pwm.configured
            BY <4>1, <5>2 DEF TimInv, Driven
          <5> QED
            BY <5>1, <5>2
        <4> QED
          BY <4>2, <4>3, <4>4
      <3> QED
        BY <3>1, <3>2
    <2>2. ASSUME NEW x \in pwm'.configured, x \notin Twice
          PROVE  tim'.mode[x] = "pwm" /\ (x \in rig.dual => <<x, "P">> \in pwm'.on)
      <3>1. CASE x = c
        <4>1. <<c, "P">> \in pwm'.on
          BY <1>4
        <4> QED
          BY <1>5, <1>6, <2>2, <3>1, <4>1 DEF TimInv, Driven
      <3>2. CASE x # c
        <4> HIDE DEF H
        <4> QED
          BY <1>3, <1>4, <1>5, <1>6, <2>2, <3>2 DEF TimInv, Driven, Objects
      <3> QED
        BY <3>1, <3>2
    <2>3. \A x \in pwm'.configured : x \in rig.pwm \cup rig.dual
      BY <1>2, <1>4 DEF TimInv, Driven
    <2> QED
      BY <1>2, <2>1, <2>2, <2>3, RigStays DEF Driven, is_break_instance
  <1> QED
    BY <1>5, <1>7

LEMMA HalfOnKeeps ==
  ASSUME TimInv, NEW c \in CompareChannels, NEW half \in {"P", "N"}, HalfOn(c, half)
  PROVE  TimInv'
  <1> DEFINE H == {<<c, half>>}
             early == IF c \in pwm.configured THEN pwm.early ELSE pwm.early \cup {c}
  <1>1. /\ c \in rig.dual /\ tim' = [tim EXCEPT !.out = @ \cup H, !.moe = @ \/ is_break_instance, !.cen = TRUE]
        /\ hal' = hal \cup H /\ UNCHANGED <<rig, capture, isr, wave>>
        /\ pwm' = [pwm EXCEPT !.on = @ \cup H, !.early = early]
    BY DEF HalfOn, Enable
  <1>2. pwm \in Objects /\ H \subseteq Halves
    BY DEF TimInv, TimTypeOK, Halves
  <1>3. /\ pwm' \in Objects
        /\ pwm'.on = pwm.on \cup H /\ pwm'.configured = pwm.configured
        /\ pwm'.duty = pwm.duty /\ pwm'.silent = pwm.silent /\ pwm'.early = early
        /\ pwm'.dead = pwm.dead
    <2>1. early \subseteq CompareChannels
      BY <1>2 DEF Objects
    <2> HIDE DEF H, early
    <2> QED
      BY <1>1, <1>2, <2>1 DEF Objects
  <1>4. /\ Driven' => TimInv'
        /\ tim'.out = tim.out \cup H /\ tim'.mode = tim.mode
        /\ tim'.cen = TRUE /\ (is_break_instance => tim'.moe = TRUE)
    <2>1. H # {} /\ H \in SUBSET {<<c, "P">>, <<c, "N">>}
      OBVIOUS
    <2> HIDE DEF H
    <2> QED
      BY <1>1, <1>3, <2>1, SwitchedOn
  <1>5. Driven'
    BY <1>1, <1>2, <1>3, <1>4, RigStays DEF TimInv, Driven, Objects
  <1> QED
    BY <1>4, <1>5

(* The last to go finds no other's enable bit.                             *)
LEMMA TurnOffKeeps ==
  ASSUME TimInv, NEW c \in CompareChannels, TurnOff(c)
  PROVE  TimInv'
  <1> DEFINE o == <<c, "P">>
  <1>1. PICK t : t = [tim EXCEPT !.out = @ \ {o}]
    OBVIOUS
  <1>2. /\ c \in rig.pwm
        /\ tim' = IF t.out = {} THEN [t EXCEPT !.moe = @ /\ ~is_break_instance, !.cen = FALSE] ELSE t
        /\ hal' = hal \ {o} /\ UNCHANGED <<rig, capture, isr, wave>>
        /\ pwm' = [pwm EXCEPT !.on = @ \ {o}]
    BY <1>1 DEF TurnOff, are_all_channels_free
  <1>3. TimTypeOK /\ pwm \in Objects /\ tim \in Registers
    BY DEF TimInv, TimTypeOK
  <1>4. /\ pwm' \in Objects
        /\ pwm'.on = pwm.on \ {o} /\ pwm'.configured = pwm.configured
        /\ pwm'.duty = pwm.duty /\ pwm'.silent = pwm.silent /\ pwm'.early = pwm.early
        /\ pwm'.dead = pwm.dead
    <2> HIDE DEF o
    <2> QED
      BY <1>2, <1>3 DEF Objects
  <1>5. /\ t \in Registers /\ t.out = tim.out \ {o}
        /\ t.arr = tim.arr /\ t.psc = tim.psc /\ t.cnt = tim.cnt /\ t.dtg = tim.dtg
        /\ t.cen = tim.cen /\ t.moe = tim.moe /\ t.mode = tim.mode
        /\ t.ccr = tim.ccr /\ t.irq = tim.irq /\ t.sr = tim.sr
    <2> HIDE DEF o
    <2>1. t \in Registers
      BY <1>1, <1>3 DEF Registers
    <2> QED
      BY <1>1, <1>3, <2>1 DEF Registers
  <1>6. /\ tim' \in Registers /\ tim'.out = t.out
        /\ tim'.arr = t.arr /\ tim'.psc = t.psc /\ tim'.cnt = t.cnt /\ tim'.dtg = t.dtg
        /\ tim'.mode = t.mode /\ tim'.ccr = t.ccr /\ tim'.irq = t.irq /\ tim'.sr = t.sr
        /\ t.out # {} => tim'.cen = t.cen /\ tim'.moe = t.moe
    <2>1. CASE t.out = {}
      <3>1. (t.moe /\ ~is_break_instance) \in BOOLEAN
        OBVIOUS
      <3>2. tim' = [t EXCEPT !.moe = t.moe /\ ~is_break_instance, !.cen = FALSE]
        BY <1>2, <2>1
      <3>3. tim' \in Registers
        BY <1>5, <3>1, <3>2 DEF Registers
      <3> QED
        BY <1>5, <2>1, <3>2, <3>3 DEF Registers
    <2>2. CASE t.out # {}
      BY <1>2, <1>5, <2>2
    <2> QED
      BY <2>1, <2>2
  <1>7. TimTypeOK'
    BY <1>2, <1>3, <1>4, <1>6 DEF TimTypeOK
  <1>8. Driven'
    <2>1. c \in rig.dual => c \in Twice
      BY <1>2 DEF Twice
    <2>2. ASSUME NEW x \in CompareChannels, NEW half \in {"P", "N"},
                 <<x, half>> \in pwm'.on, x \notin Twice
          PROVE  x # c /\ (<<x, "P">> \in t.out \/ <<x, half>> \in t.out)
                 /\ (<<x, half>> \in tim.out => <<x, half>> \in t.out)
      BY <1>4, <1>5, <2>1, <2>2 DEF TimInv, Driven
    <2> QED
      BY <1>2, <1>4, <1>5, <1>6, <2>1, <2>2, RigStays DEF TimInv, Driven
  <1>9. Follows'
    BY <1>2, <1>4, <1>5, <1>6, FollowsStill
  <1>10. tim'.dtg = DeadTime(pwm'.dead)
    BY <1>4, <1>5, <1>6 DEF TimInv
  <1>11. Captures'
    <2>1. rig.capture # <<>> /\ Claimed \cap Twice = {} => Rising # c
      BY <1>2, <1>3, RigFacts DEF Twice, TimTypeOK
    <2>2. capture.on /\ Claimed \cap Twice = {} => tim'.cen = TRUE /\ <<Rising, "P">> \in tim'.out
      BY <1>5, <1>6, <2>1 DEF TimInv, Captures
    <2> QED
      BY <1>2, <1>4, <1>5, <1>6, <2>2, RigStays DEF TimInv, Captures, Claim
  <1>12. Hears'
    BY <1>2, <1>5, <1>6, HearsStill
  <1> QED
    BY <1>7, <1>8, <1>9, <1>10, <1>11, <1>12 DEF TimInv

(* Steps that leave the outputs' enable bits, modes and objects alone.      *)
LEMMA DrivenStill ==
  ASSUME TimInv, UNCHANGED rig, tim'.out = tim.out, tim'.cen = tim.cen,
         tim'.moe = tim.moe \/ (is_break_instance => tim'.moe = TRUE),
         \A c \in pwm.configured \ Twice : tim'.mode[c] = tim.mode[c],
         pwm'.on = pwm.on, pwm'.configured = pwm.configured, pwm'.early = pwm.early
  PROVE  Driven'
  BY RigStays DEF TimInv, Driven

LEMMA CapturesStill ==
  ASSUME TimInv, UNCHANGED <<rig, hal, capture>>, tim'.out = tim.out, tim'.cen = tim.cen,
         tim'.irq = tim.irq, pwm'.on = pwm.on
  PROVE  Captures'
  BY RigStays DEF TimInv, Captures, Claim

LEMMA ReloadIsACount ==
  ASSUME TimTypeOK, NEW f \in Nat \ {0}, NEW mode
  PROVE  Reload(f, mode) \in Nat
  <1>1. tim.psc + 1 \in Nat \ {0} /\ TimClock \in Nat
    BY RigsAssumption DEF TimTypeOK, Registers
  <1> DEFINE steps == (tim.psc + 1) * f
  <1>2. steps \in Nat \ {0}
    BY <1>1
  <1>3. (TimClock \div (tim.psc + 1)) \in Nat
    BY <1>1, Quotient
  <1>4. (TimClock \div (tim.psc + 1)) \div f \in Nat
    BY <1>3, Quotient
  <1> HIDE DEF steps
  <1>5. 2 * TimClock <= steps \/ (2 * TimClock - steps) \div (2 * steps) \in Nat
    <2>1. ~(2 * TimClock <= steps) => 2 * TimClock - steps \in Nat
      BY <1>1, <1>2
    <2>2. 2 * steps \in Nat \ {0}
      BY <1>2
    <2> QED
      BY <2>1, <2>2, Quotient
  <1> QED
    BY <1>4, <1>5 DEF Reload, steps

LEMMA UnheardIsASignal == TimTypeOK => Unheard \in Signals /\ Unheard.clean = 0
  <1> SUFFICES ASSUME wave \in Signals PROVE Unheard \in Signals /\ Unheard.clean = 0
    BY DEF TimTypeOK
  <1>1. PICK v : v = [wave EXCEPT !.since = 0, !.high = 0, !.period = 0]
    OBVIOUS
  <1>2. PICK w : w = [v EXCEPT !.clean = 0]
    OBVIOUS
  <1>3. v \in Signals
    BY <1>1 DEF Signals
  <1>4. w \in Signals /\ w.clean = 0
    BY <1>2, <1>3 DEF Signals
  <1>5. Unheard = [w EXCEPT !.fits = FALSE]
    BY <1>1, <1>2, Zenon DEF Unheard
  <1> QED
    BY <1>4, <1>5 DEF Signals

(* A new period brings every compare register along.                       *)
LEMMA SetFrequencyKeeps ==
  ASSUME TimInv, NEW p \in Objects, NEW t \in Registers, NEW f \in Nat \ {0}, NEW mode,
         SetFrequency(p, t, f, mode),
         p.on = pwm.on, p.configured = pwm.configured, p.early = pwm.early,
         \A c \in CompareChannels : p.duty[c] = 0 /\ c \notin p.silent
                                      => pwm.duty[c] = 0 /\ c \notin pwm.silent,
         t.ccr = tim.ccr, t.mode = tim.mode, t.out = tim.out, t.cen = tim.cen, t.irq = tim.irq,
         t.moe = tim.moe \/ (is_break_instance => t.moe = TRUE),
         t.dtg = DeadTime(p.dead)
  PROVE  TimInv'
  <1> DEFINE g == IF tim.center THEN 2 * f ELSE f
  <1>1. PICK arr : arr = Reload(g, mode) % TimRange
    OBVIOUS
  <1>2. PICK ccr : ccr = [c \in CompareChannels |-> IF p.duty[c] # 0 /\ ~Listens(c)
                                                    THEN RawDuty(arr, p.duty[c]) ELSE t.ccr[c]]
    OBVIOUS
  <1>3. /\ tim' = [t EXCEPT !.arr = arr, !.ccr = ccr]
        /\ pwm' = [p EXCEPT !.frequency = g]
        /\ wave' = Unheard /\ UNCHANGED <<rig, hal, capture, isr>>
    BY <1>1, <1>2 DEF SetFrequency
  <1>4. TimTypeOK
    BY DEF TimInv
  <1>5. g \in Nat \ {0}
    OBVIOUS
  <1>6. arr \in 0 .. TimRange - 1
    <2> HIDE DEF g
    <2>1. Reload(g, mode) \in Nat /\ TimRange \in Nat \ {0}
      BY <1>4, <1>5, ReloadIsACount, RigsAssumption
    <2> QED
      BY <1>1, <2>1, Remainder
  <1>7. ccr \in [CompareChannels -> Nat]
    <2>1. \A c \in CompareChannels : p.duty[c] \in Duties /\ t.ccr[c] \in Nat
      BY DEF Objects, Registers
    <2>2. \A c \in CompareChannels : RawDuty(arr, p.duty[c]) \in Nat
      BY <1>4, <1>6, <2>1, DutyIsAShare DEF TimTypeOK
    <2> QED
      BY <1>2, <2>1, <2>2
  <1> HIDE DEF g
  <1>8. /\ tim' \in Registers /\ tim'.arr = arr /\ tim'.ccr = ccr
        /\ tim'.mode = tim.mode /\ tim'.out = tim.out /\ tim'.cen = tim.cen /\ tim'.irq = tim.irq
        /\ tim'.moe = t.moe /\ tim'.dtg = t.dtg
    <2>1. tim' \in Registers
      BY <1>3, <1>6, <1>7 DEF Registers
    <2> QED
      BY <1>3, <2>1 DEF Registers
  <1>9. /\ pwm' \in Objects /\ pwm'.on = pwm.on /\ pwm'.configured = pwm.configured
        /\ pwm'.early = pwm.early /\ pwm'.duty = p.duty /\ pwm'.silent = p.silent /\ pwm'.dead = p.dead
    <2>1. pwm' \in Objects
      BY <1>3, <1>5 DEF Objects
    <2> QED
      BY <1>3, <2>1 DEF Objects
  <1>10. wave'.clean = 0 /\ wave' \in Signals
    BY <1>3, <1>4, UnheardIsASignal
  <1>11. TimTypeOK'
    BY <1>3, <1>4, <1>8, <1>9, <1>10 DEF TimTypeOK
  <1>12. Driven'
    BY <1>3, <1>8, <1>9, DrivenStill
  <1>13. Follows'
    <2> SUFFICES ASSUME NEW c \in (rig.pwm \cup rig.dual) \ Twice
                 PROVE  /\ tim'.mode[c] \notin {"rising", "falling"}
                        /\ p.duty[c] # 0 => ccr[c] = RawDuty(arr, p.duty[c])
                        /\ p.duty[c] = 0 /\ c \notin p.silent => ccr[c] = 0
      BY <1>3, <1>8, <1>9, RigStays DEF Follows, Listens, RawDuty, is_32bit_instance
    <2>1. c \in CompareChannels
      BY <1>4, RigFacts DEF TimTypeOK
    <2>2. ~Listens(c) /\ (p.duty[c] = 0 /\ c \notin p.silent => t.ccr[c] = 0)
      BY <2>1 DEF TimInv, Follows
    <2> QED
      BY <1>2, <1>8, <2>1, <2>2 DEF Listens
  <1>14. tim'.dtg = DeadTime(pwm'.dead)
    BY <1>8, <1>9
  <1>15. Captures'
    BY <1>3, <1>8, <1>9, CapturesStill
  <1>16. Hears'
    BY <1>3, <1>10 DEF TimInv, Hears
  <1> QED
    BY <1>11, <1>12, <1>13, <1>14, <1>15, <1>16 DEF TimInv

LEMMA SetTimerFrequencyKeeps ==
  ASSUME TimInv, NEW f \in rig.frequencies, NEW mode, set_timer_frequency(f, mode)
  PROVE  TimInv'
  <1>1. /\ f \in Nat \ {0} /\ pwm \in Objects /\ tim \in Registers
        /\ tim.dtg = DeadTime(pwm.dead) /\ SetFrequency(pwm, tim, f, mode)
    BY RigFacts DEF TimInv, TimTypeOK, set_timer_frequency
  <1> QED
    BY <1>1, SetFrequencyKeeps

LEMMA WithDeadTimeKeeps ==
  ASSUME TimTypeOK, NEW ns \in Nat
  PROVE  LET t == WithDeadTime(ns)
         IN  /\ t \in Registers
             /\ t.arr = tim.arr /\ t.psc = tim.psc /\ t.cnt = tim.cnt
             /\ t.cen = tim.cen /\ t.ccr = tim.ccr /\ t.mode = tim.mode /\ t.out = tim.out
             /\ t.irq = tim.irq /\ t.sr = tim.sr
             /\ t.dtg = DeadTime(ns) /\ (is_break_instance => t.moe = TRUE)
  <1>1. PICK d : d = DeadTime(ns)
    OBVIOUS
  <1>2. is_break_instance \in BOOLEAN
    BY DEF is_break_instance
  <1>3. WithDeadTime(ns) = [tim EXCEPT !.dtg = d, !.moe = is_break_instance]
    BY <1>1, <1>2 DEF WithDeadTime
  <1>4. d \in Nat /\ tim \in Registers
    BY <1>1, DeadTimeIsGiven DEF TimTypeOK
  <1>5. WithDeadTime(ns) \in Registers
    BY <1>2, <1>3, <1>4 DEF Registers
  <1> QED
    BY <1>1, <1>2, <1>3, <1>4, <1>5 DEF Registers

LEMMA ConfigureKeeps ==
  ASSUME TimInv, NEW c \in CompareChannels, NEW f \in rig.frequencies, NEW duty \in rig.duties,
         configure(c, f, duty)
  PROVE  TimInv'
  <1>1. PICK p : p = [pwm EXCEPT !.duty[c] = duty,
                                 !.silent = IF duty = 0 THEN @ \cup {c} ELSE @ \ {c}]
    OBVIOUS
  <1>2. TimTypeOK /\ pwm \in Objects /\ tim \in Registers /\ tim.dtg = DeadTime(pwm.dead)
    BY DEF TimInv, TimTypeOK
  <1>3. f \in Nat \ {0} /\ duty \in Duties /\ rig.dead \subseteq Nat
    BY <1>2, RigFacts DEF TimTypeOK
  <1>4. /\ p \in Objects /\ p.on = pwm.on /\ p.configured = pwm.configured /\ p.early = pwm.early
        /\ p.dead = pwm.dead /\ p.duty = [pwm.duty EXCEPT ![c] = duty]
        /\ p.silent = IF duty = 0 THEN pwm.silent \cup {c} ELSE pwm.silent \ {c}
    <2>1. p \in Objects
      BY <1>1, <1>2, <1>3 DEF Objects
    <2> QED
      BY <1>1, <1>2, <2>1 DEF Objects
  <1>5. \A x \in CompareChannels : p.duty[x] = 0 /\ x \notin p.silent
                                     => pwm.duty[x] = 0 /\ x \notin pwm.silent
    BY <1>2, <1>4 DEF Objects
  <1>6. CASE SetFrequency(p, tim, f, "PRECISION")
    BY <1>2, <1>3, <1>4, <1>5, <1>6, SetFrequencyKeeps
  <1>7. ASSUME NEW ns \in rig.dead,
               SetFrequency([p EXCEPT !.dead = ns], WithDeadTime(ns), f, "PRECISION")
        PROVE  TimInv'
    <2>1. PICK q : q = [p EXCEPT !.dead = ns]
      OBVIOUS
    <2>2. ns \in Nat
      BY <1>3
    <2>3. /\ q \in Objects /\ q.on = pwm.on /\ q.configured = pwm.configured
          /\ q.early = pwm.early /\ q.dead = ns /\ q.duty = p.duty /\ q.silent = p.silent
      BY <1>4, <2>1, <2>2 DEF Objects
    <2>4. PICK t : t = WithDeadTime(ns)
      OBVIOUS
    <2>5. /\ t \in Registers /\ t.cen = tim.cen /\ t.ccr = tim.ccr /\ t.mode = tim.mode
          /\ t.out = tim.out /\ t.irq = tim.irq
          /\ t.dtg = DeadTime(q.dead) /\ (is_break_instance => t.moe = TRUE)
      BY <1>2, <2>2, <2>3, <2>4, WithDeadTimeKeeps
    <2>6. SetFrequency(q, t, f, "PRECISION")
      BY <1>7, <2>1, <2>4
    <2> QED
      BY <1>3, <1>5, <2>3, <2>5, <2>6, SetFrequencyKeeps
  <1> QED
    BY <1>1, <1>6, <1>7 DEF configure

LEMMA SetDutyCycleKeeps ==
  ASSUME TimInv, NEW c \in CompareChannels, NEW duty \in rig.duties, set_duty_cycle(c, duty)
  PROVE  TimInv'
  <1>1. PICK d : d = IF duty > 100 THEN 100 ELSE duty
    OBVIOUS
  <1>2. PICK raw : raw = RawDuty(tim.arr, d)
    OBVIOUS
  <1>3. /\ c \in rig.pwm \cup rig.dual
        /\ tim' = IF Listens(c) THEN tim ELSE [tim EXCEPT !.ccr[c] = raw]
        /\ pwm' = [pwm EXCEPT !.duty[c] = d, !.silent = @ \ {c}]
        /\ UNCHANGED <<rig, hal, capture, isr, wave>>
    BY <1>1, <1>2 DEF set_duty_cycle
  <1>4. TimTypeOK /\ pwm \in Objects /\ tim \in Registers
    BY DEF TimInv, TimTypeOK
  <1>5. d \in Duties
    BY <1>1, <1>4, RigFacts, FloatAssumption DEF TimTypeOK
  <1>6. raw \in Nat /\ (d = 0 => raw = 0)
    BY <1>2, <1>4, <1>5, DutyIsAShare DEF TimTypeOK, Registers
  <1>7. /\ pwm' \in Objects /\ pwm'.on = pwm.on /\ pwm'.configured = pwm.configured
        /\ pwm'.early = pwm.early /\ pwm'.dead = pwm.dead
        /\ pwm'.duty = [pwm.duty EXCEPT ![c] = d] /\ pwm'.silent = pwm.silent \ {c}
    <2>1. pwm' \in Objects
      BY <1>3, <1>4, <1>5 DEF Objects
    <2> QED
      BY <1>3, <1>4, <2>1 DEF Objects
  <1>8. /\ tim' \in Registers /\ tim'.arr = tim.arr /\ tim'.psc = tim.psc /\ tim'.cnt = tim.cnt
        /\ tim'.cen = tim.cen /\ tim'.moe = tim.moe /\ tim'.mode = tim.mode /\ tim'.out = tim.out
        /\ tim'.irq = tim.irq /\ tim'.sr = tim.sr /\ tim'.dtg = tim.dtg
        /\ tim'.ccr = IF Listens(c) THEN tim.ccr ELSE [tim.ccr EXCEPT ![c] = raw]
    <2>1. CASE Listens(c)
      BY <1>3, <1>4, <2>1
    <2>2. CASE ~Listens(c)
      <3>1. tim' = [tim EXCEPT !.ccr[c] = raw]
        BY <1>3, <2>2
      <3>2. tim' \in Registers
        BY <1>4, <1>6, <3>1 DEF Registers
      <3> QED
        BY <1>4, <2>2, <3>1, <3>2 DEF Registers
    <2> QED
      BY <2>1, <2>2
  <1>9. TimTypeOK'
    BY <1>3, <1>4, <1>7, <1>8 DEF TimTypeOK
  <1>10. Driven'
    BY <1>3, <1>7, <1>8, DrivenStill
  <1>11. Follows'
    <2> SUFFICES ASSUME NEW x \in (rig.pwm \cup rig.dual) \ Twice
                 PROVE  /\ ~Listens(x)
                        /\ pwm'.duty[x] # 0 => tim'.ccr[x] = RawDuty(tim.arr, pwm'.duty[x])
                        /\ pwm'.duty[x] = 0 /\ x \notin pwm'.silent => tim'.ccr[x] = 0
      BY <1>3, <1>8, RigStays DEF Follows, Listens, RawDuty, is_32bit_instance
    <2>1. x \in CompareChannels
      BY <1>4, RigFacts DEF TimTypeOK
    <2>2. /\ ~Listens(x)
          /\ pwm.duty[x] # 0 => tim.ccr[x] = RawDuty(tim.arr, pwm.duty[x])
          /\ pwm.duty[x] = 0 /\ x \notin pwm.silent => tim.ccr[x] = 0
      BY DEF TimInv, Follows
    <2>3. CASE x = c
      <3>1. pwm'.duty[x] = d /\ tim'.ccr[x] = raw
        BY <1>4, <1>7, <1>8, <2>2, <2>3 DEF Objects, Registers
      <3> QED
        BY <1>2, <1>6, <2>2, <3>1
    <2>4. CASE x # c
      <3>1. pwm'.duty[x] = pwm.duty[x] /\ tim'.ccr[x] = tim.ccr[x]
            /\ (x \in pwm'.silent <=> x \in pwm.silent)
        BY <1>4, <1>7, <1>8, <2>1, <2>4 DEF Objects, Registers
      <3> QED
        BY <2>2, <3>1
    <2> QED
      BY <2>3, <2>4
  <1>12. tim'.dtg = DeadTime(pwm'.dead)
    BY <1>7, <1>8 DEF TimInv
  <1>13. Captures'
    BY <1>3, <1>7, <1>8, CapturesStill
  <1>14. Hears'
    <2>1. \A x \in Claimed \ Twice : x # c
      BY <1>3 DEF Twice
    <2>2. \A x \in Claimed \ Twice : tim'.ccr[x] = tim.ccr[x]
      BY <1>4, <1>8, <2>1 DEF Claimed, Registers
    <2> QED
      BY <1>3, <1>8, <2>2, HearsStill
  <1> QED
    BY <1>9, <1>10, <1>11, <1>12, <1>13, <1>14 DEF TimInv

LEMMA SetCountingModeKeeps ==
  ASSUME TimInv, NEW center \in BOOLEAN, set_counting_mode(center)
  PROVE  TimInv'
  <1>1. tim' = [tim EXCEPT !.center = center] /\ UNCHANGED <<rig, hal, pwm, capture, isr, wave>>
    BY DEF set_counting_mode
  <1>2. TimTypeOK /\ tim \in Registers
    BY DEF TimInv, TimTypeOK
  <1>3. /\ tim' \in Registers /\ tim'.arr = tim.arr /\ tim'.psc = tim.psc /\ tim'.cnt = tim.cnt
        /\ tim'.cen = tim.cen /\ tim'.moe = tim.moe /\ tim'.mode = tim.mode /\ tim'.out = tim.out
        /\ tim'.irq = tim.irq /\ tim'.sr = tim.sr /\ tim'.dtg = tim.dtg /\ tim'.ccr = tim.ccr
    <2>1. tim' \in Registers
      BY <1>1, <1>2 DEF Registers
    <2> QED
      BY <1>1, <1>2, <2>1 DEF Registers
  <1>4. TimTypeOK' /\ tim'.dtg = DeadTime(pwm'.dead)
    BY <1>1, <1>2, <1>3 DEF TimTypeOK, TimInv
  <1>5. Driven' /\ Follows' /\ Captures' /\ Hears'
    BY <1>1, <1>3, DrivenStill, FollowsStill, CapturesStill, HearsStill
  <1> QED
    BY <1>4, <1>5 DEF TimInv

LEMMA SetDeadTimeKeeps ==
  ASSUME TimInv, NEW ns \in rig.dead, set_dead_time(ns)
  PROVE  TimInv'
  <1>1. /\ tim' = WithDeadTime(ns) /\ pwm' = [pwm EXCEPT !.dead = ns]
        /\ UNCHANGED <<rig, hal, capture, isr, wave>>
    BY DEF set_dead_time
  <1>2. TimTypeOK /\ pwm \in Objects /\ ns \in Nat
    BY RigFacts DEF TimInv, TimTypeOK
  <1>3. PICK t : t = WithDeadTime(ns)
    OBVIOUS
  <1>4. /\ t \in Registers /\ t.arr = tim.arr /\ t.psc = tim.psc /\ t.cnt = tim.cnt
        /\ t.cen = tim.cen /\ t.mode = tim.mode /\ t.out = tim.out /\ t.ccr = tim.ccr
        /\ t.irq = tim.irq /\ t.sr = tim.sr
        /\ t.dtg = DeadTime(ns) /\ (is_break_instance => t.moe = TRUE)
    BY <1>2, <1>3, WithDeadTimeKeeps
  <1>5. tim' = t
    BY <1>1, <1>3
  <1>6. /\ pwm' \in Objects /\ pwm'.on = pwm.on /\ pwm'.configured = pwm.configured
        /\ pwm'.early = pwm.early /\ pwm'.duty = pwm.duty /\ pwm'.silent = pwm.silent
        /\ pwm'.dead = ns
    <2>1. pwm' \in Objects
      BY <1>1, <1>2 DEF Objects
    <2> QED
      BY <1>1, <1>2, <2>1 DEF Objects
  <1>7. TimTypeOK' /\ tim'.dtg = DeadTime(pwm'.dead)
    BY <1>1, <1>2, <1>4, <1>5, <1>6 DEF TimTypeOK
  <1>8. Driven' /\ Follows' /\ Captures' /\ Hears'
    BY <1>1, <1>4, <1>5, <1>6, DrivenStill, FollowsStill, CapturesStill, HearsStill
  <1> QED
    BY <1>7, <1>8 DEF TimInv

-----------------------------------------------------------------------------
(* InputCapture.                                                           *)
LEMMA GetInputCaptureKeeps ==
  ASSUME TimInv, NEW prescaler \in rig.prescalers, get_input_capture(prescaler)
  PROVE  TimInv'
  <1>1. /\ tim' = [tim EXCEPT !.psc = prescaler] /\ wave' = Unheard
        /\ UNCHANGED <<rig, hal, pwm, capture, isr>>
    BY DEF get_input_capture
  <1>2. TimTypeOK /\ tim \in Registers /\ prescaler \in Nat
    BY RigFacts DEF TimInv, TimTypeOK
  <1>3. /\ tim' \in Registers /\ tim'.arr = tim.arr /\ tim'.cen = tim.cen /\ tim'.moe = tim.moe
        /\ tim'.mode = tim.mode /\ tim'.out = tim.out /\ tim'.irq = tim.irq /\ tim'.dtg = tim.dtg
        /\ tim'.ccr = tim.ccr
    <2>1. tim' \in Registers
      BY <1>1, <1>2 DEF Registers
    <2> QED
      BY <1>1, <1>2, <2>1 DEF Registers
  <1>4. wave' \in Signals /\ wave'.clean = 0
    BY <1>1, <1>2, UnheardIsASignal
  <1>5. TimTypeOK' /\ tim'.dtg = DeadTime(pwm'.dead)
    BY <1>1, <1>2, <1>3, <1>4 DEF TimTypeOK, TimInv
  <1>6. Driven' /\ Follows' /\ Captures'
    BY <1>1, <1>3, DrivenStill, FollowsStill, CapturesStill
  <1>7. Hears'
    BY <1>1, <1>4 DEF TimInv, Hears
  <1> QED
    BY <1>5, <1>6, <1>7 DEF TimInv

(* A channel is configured for input: only its own mode and enable bit go.  *)
LEMMA InputReady ==
  ASSUME NEW t \in Registers, NEW c \in CompareChannels, NEW edge \in {"rising", "falling"}
  PROVE  LET u == config_input_compare_channel(t, c, edge)
         IN  /\ u \in Registers
             /\ u.arr = t.arr /\ u.psc = t.psc /\ u.cnt = t.cnt /\ u.cen = t.cen /\ u.moe = t.moe
             /\ u.dtg = t.dtg /\ u.ccr = t.ccr /\ u.irq = t.irq /\ u.sr = t.sr
             /\ u.out = t.out \ {<<c, "P">>}
             /\ u.mode = [t.mode EXCEPT ![c] = edge]
  <1>1. PICK o : o = <<c, "P">>
    OBVIOUS
  <1>2. PICK m : m = [t.mode EXCEPT ![c] = edge]
    OBVIOUS
  <1>3. PICK out : out = t.out \ {o}
    OBVIOUS
  <1>4. PICK u : u = config_input_compare_channel(t, c, edge)
    OBVIOUS
  <1>5. u = [t EXCEPT !.mode = m, !.out = out]
    BY <1>1, <1>2, <1>3, <1>4 DEF config_input_compare_channel
  <1>6. m \in [CompareChannels -> Modes] /\ out \in SUBSET Halves
    BY <1>2, <1>3 DEF Registers, Modes
  <1>7. u \in Registers
    BY <1>5, <1>6 DEF Registers
  <1>8. /\ u.arr = t.arr /\ u.psc = t.psc /\ u.cnt = t.cnt /\ u.cen = t.cen /\ u.moe = t.moe
        /\ u.dtg = t.dtg /\ u.ccr = t.ccr /\ u.irq = t.irq /\ u.sr = t.sr
        /\ u.out = out /\ u.mode = m
    BY <1>5, <1>7 DEF Registers
  <1> QED
    BY <1>1, <1>2, <1>3, <1>4, <1>7, <1>8

LEMMA CaptureConfiguredKeeps ==
  ASSUME TimTypeOK, rig.capture # <<>>, NEW u, u = CaptureConfigured
  PROVE  /\ u \in Registers
         /\ u.arr = tim.arr /\ u.psc = tim.psc /\ u.cnt = tim.cnt /\ u.cen = tim.cen
         /\ u.moe = tim.moe /\ u.dtg = tim.dtg /\ u.ccr = tim.ccr /\ u.irq = tim.irq
         /\ u.out \subseteq tim.out
         /\ tim.out \ {<<Rising, "P">>, <<Falling, "P">>} \subseteq u.out
         /\ \A c \in CompareChannels \ {Rising, Falling} : u.mode[c] = tim.mode[c]
  <1>1. tim \in Registers /\ Rising \in CompareChannels /\ Falling \in CompareChannels
    BY RigFacts DEF TimTypeOK
  <1>2. CASE capture.configured
    BY <1>1, <1>2 DEF CaptureConfigured
  <1>3. CASE ~capture.configured
    <2>1. PICK t : t = config_input_compare_channel(tim, Rising, "rising")
      OBVIOUS
    <2>2. u = config_input_compare_channel(t, Falling, "falling")
      BY <1>3, <2>1 DEF CaptureConfigured
    <2>3. /\ t \in Registers
          /\ t.arr = tim.arr /\ t.psc = tim.psc /\ t.cnt = tim.cnt /\ t.cen = tim.cen
          /\ t.moe = tim.moe /\ t.dtg = tim.dtg /\ t.ccr = tim.ccr /\ t.irq = tim.irq
          /\ t.out = tim.out \ {<<Rising, "P">>}
          /\ t.mode = [tim.mode EXCEPT ![Rising] = "rising"]
      <3>1. "rising" \in {"rising", "falling"}
        OBVIOUS
      <3> QED
        BY <1>1, <2>1, <3>1, InputReady
    <2>4. "falling" \in {"rising", "falling"} /\ t \in Registers
      BY <2>3
    <2>5. PICK v : v = config_input_compare_channel(t, Falling, "falling")
      OBVIOUS
    <2>6. /\ v \in Registers
          /\ v.arr = t.arr /\ v.psc = t.psc /\ v.cnt = t.cnt /\ v.cen = t.cen
          /\ v.moe = t.moe /\ v.dtg = t.dtg /\ v.ccr = t.ccr /\ v.irq = t.irq
          /\ v.out = t.out \ {<<Falling, "P">>}
          /\ v.mode = [t.mode EXCEPT ![Falling] = "falling"]
      BY <1>1, <2>4, <2>5, InputReady, ZenonT(30)
    <2>7. u = v
      BY <2>2, <2>5
    <2> HIDE <2>2, <2>5
    <2> QED
      BY <1>1, <2>3, <2>6, <2>7 DEF Registers
  <1> QED
    BY <1>2, <1>3

LEMMA CaptureOnKeeps ==
  ASSUME TimInv, CaptureOn
  PROVE  TimInv'
  <1>1. PICK u : u = CaptureConfigured
    OBVIOUS
  <1>2. PICK t : t = [u EXCEPT !.cnt = 0, !.sr = {}]
    OBVIOUS
  <1>3. PICK taken \in BOOLEAN : taken = ((Claim(Rising) \cup Claim(Falling)) \cap hal # {})
    OBVIOUS
  <1>4. PICK P : P = {<<Rising, "P">>, <<Falling, "P">>}
    OBVIOUS
  <1>5. /\ rig.capture # <<>>
        /\ IF taken THEN tim' = t /\ hal' = hal
           ELSE /\ tim' = [t EXCEPT !.out = @ \cup P, !.irq = @ \cup {Rising, Falling}, !.cen = TRUE]
                /\ hal' = hal \cup Claim(Rising) \cup Claim(Falling)
        /\ capture' = [capture EXCEPT !.configured = TRUE, !.on = ~taken]
        /\ wave' = Unheard /\ UNCHANGED <<rig, pwm, isr>>
    BY <1>1, <1>2, <1>3, <1>4 DEF CaptureOn
  <1>6. ~capture.on
    BY DEF CaptureOn
  <1>7. TimTypeOK /\ tim \in Registers /\ capture \in Captured /\ pwm \in Objects
    BY DEF TimInv, TimTypeOK
  <1>8. /\ Rising \in CompareChannels /\ Falling \in CompareChannels
        /\ Rising \in Claimed /\ Falling \in Claimed
        /\ Claim(Rising) \subseteq Halves /\ Claim(Falling) \subseteq Halves
        /\ P \subseteq Halves
    BY <1>4, <1>5, <1>7, RigFacts DEF TimTypeOK, Halves
  <1>9. /\ t \in Registers
        /\ t.arr = tim.arr /\ t.cen = tim.cen
        /\ t.moe = tim.moe /\ t.dtg = tim.dtg /\ t.ccr = tim.ccr /\ t.irq = tim.irq
        /\ t.out \subseteq tim.out /\ tim.out \ P \subseteq t.out
        /\ \A c \in CompareChannels \ {Rising, Falling} : t.mode[c] = tim.mode[c]
    <2>1. /\ u \in Registers
          /\ u.arr = tim.arr /\ u.cen = tim.cen
          /\ u.moe = tim.moe /\ u.dtg = tim.dtg /\ u.ccr = tim.ccr /\ u.irq = tim.irq
          /\ u.out \subseteq tim.out /\ tim.out \ P \subseteq u.out
          /\ \A c \in CompareChannels \ {Rising, Falling} : u.mode[c] = tim.mode[c]
      BY <1>1, <1>4, <1>5, <1>7, CaptureConfiguredKeeps
    <2>2. t \in Registers
      <3>1. 0 \in 0 .. TimRange - 1
        BY RigsAssumption
      <3> QED
        BY <1>2, <2>1, <3>1 DEF Registers
    <2>3. /\ t.arr = u.arr /\ t.cen = u.cen /\ t.moe = u.moe /\ t.dtg = u.dtg /\ t.ccr = u.ccr
          /\ t.irq = u.irq /\ t.out = u.out /\ t.mode = u.mode
      BY <1>2, <2>1, <2>2 DEF Registers
    <2> QED
      BY <2>1, <2>2, <2>3
  <1>10. /\ tim' \in Registers /\ tim'.arr = tim.arr /\ tim'.moe = tim.moe /\ tim'.dtg = tim.dtg
         /\ tim'.ccr = tim.ccr /\ tim'.mode = t.mode
         /\ taken => tim'.cen = tim.cen /\ tim'.irq = tim.irq /\ tim'.out = t.out
         /\ ~taken => tim'.cen = TRUE /\ tim'.irq = tim.irq \cup {Rising, Falling}
                      /\ tim'.out = t.out \cup P
    <2>1. CASE taken
      BY <1>5, <1>9, <2>1
    <2>2. CASE ~taken
      <3>1. PICK I : I = {Rising, Falling}
        OBVIOUS
      <3>2. tim' = [t EXCEPT !.out = @ \cup P, !.irq = @ \cup I, !.cen = TRUE]
        BY <1>5, <2>2, <3>1
      <3>3. I \subseteq CompareChannels
        BY <1>8, <3>1
      <3>4. tim' \in Registers
        BY <1>8, <1>9, <3>2, <3>3 DEF Registers
      <3> QED
        BY <1>9, <2>2, <3>1, <3>2, <3>4 DEF Registers
    <2> QED
      BY <2>1, <2>2
  <1>11. /\ capture' \in Captured /\ capture'.on = ~taken
    <2>1. PICK on \in BOOLEAN : on = ~taken
      OBVIOUS
    <2>2. capture' = [capture EXCEPT !.configured = TRUE, !.on = on]
      BY <1>5, <2>1
    <2>3. capture' \in Captured
      BY <1>7, <2>2 DEF Captured
    <2> QED
      BY <1>7, <2>1, <2>2, <2>3 DEF Captured
  <1>12. wave' \in Signals /\ wave'.clean = 0
    BY <1>5, <1>7, UnheardIsASignal
  <1>13. TimTypeOK' /\ tim'.dtg = DeadTime(pwm'.dead)
    BY <1>5, <1>7, <1>8, <1>10, <1>11, <1>12 DEF TimTypeOK, TimInv
  <1>14. ASSUME NEW c \in (rig.pwm \cup rig.dual) \ Twice PROVE c \notin {Rising, Falling}
    BY <1>8 DEF Twice
  <1>15. Driven'
    <2>1. ASSUME NEW c \in CompareChannels, NEW half \in {"P", "N"}, <<c, half>> \in pwm.on, c \notin Twice
          PROVE  /\ tim'.cen = TRUE
                 /\ \A h \in {"P", "N"} : <<c, h>> \in tim.out => <<c, h>> \in tim'.out
      <3>1. c \in rig.pwm \cup rig.dual /\ tim.cen = TRUE
        BY <2>1 DEF TimInv, Driven
      <3>2. c \notin {Rising, Falling}
        BY <1>14, <2>1, <3>1
      <3> QED
        BY <1>4, <1>9, <1>10, <3>1, <3>2
    <2>2. ASSUME NEW c \in pwm.configured, c \notin Twice
          PROVE  tim'.mode[c] = tim.mode[c]
      <3>1. c \in rig.pwm \cup rig.dual
        BY DEF TimInv, Driven
      <3> QED
        BY <1>7, <1>9, <1>10, <1>14, <2>2, <3>1 DEF Objects
    <2>3. ASSUME NEW c \in CompareChannels, NEW half \in {"P", "N"}, <<c, half>> \in pwm.on
          PROVE  /\ c \in rig.pwm \cup rig.dual /\ (half = "N" => c \in rig.dual)
                 /\ c \notin Twice =>
                      /\ tim'.cen = TRUE /\ (is_break_instance => tim'.moe = TRUE)
                      /\ half = "P" => <<c, half>> \in tim'.out
                      /\ <<c, half>> \in tim'.out \/ (c \in pwm.early /\ c \in pwm.configured)
                      /\ c \in pwm.configured \cup pwm.early
      BY <1>10, <2>1, <2>3 DEF TimInv, Driven
    <2>4. ASSUME NEW c \in pwm.configured
          PROVE  /\ c \in rig.pwm \cup rig.dual
                 /\ c \notin Twice =>
                      /\ tim'.mode[c] = "pwm"
                      /\ c \in rig.dual => <<c, "P">> \in pwm.on
      BY <2>2 DEF TimInv, Driven
    <2> QED
      BY <1>5, <2>3, <2>4, RigStays DEF Driven, is_break_instance
  <1>16. Follows'
    <2>1. \A c \in (rig.pwm \cup rig.dual) \ Twice : c \in CompareChannels /\ tim'.mode[c] = tim.mode[c]
      BY <1>7, <1>9, <1>10, <1>14, RigFacts DEF TimTypeOK
    <2> QED
      BY <1>5, <1>10, <2>1, FollowsStill
  <1>17. Captures'
    <2>1. tim.irq = {} /\ hal \subseteq pwm.on /\ tim.out \subseteq pwm.on
      BY <1>6 DEF TimInv, Captures
    <2>2. CASE taken
      BY <1>5, <1>9, <1>10, <1>11, <2>1, <2>2 DEF Captures
    <2>3. CASE ~taken
      <3>1. /\ tim'.irq = {Rising, Falling} /\ tim'.cen = TRUE
            /\ hal' \subseteq pwm.on \cup Claim(Rising) \cup Claim(Falling)
            /\ tim'.out \subseteq pwm.on \cup P /\ <<Rising, "P">> \in tim'.out
        BY <1>4, <1>5, <1>9, <1>10, <2>1, <2>3
      <3> QED
        BY <1>4, <1>5, <1>11, <2>3, <3>1, RigStays DEF Captures, Claim
    <2> QED
      BY <2>2, <2>3
  <1>18. Hears'
    BY <1>5, <1>12 DEF TimInv, Hears
  <1> QED
    BY <1>13, <1>15, <1>16, <1>17, <1>18 DEF TimInv

LEMMA CaptureOffKeeps ==
  ASSUME TimInv, CaptureOff
  PROVE  TimInv'
  <1>1. PICK P : P = {<<Rising, "P">>, <<Falling, "P">>}
    OBVIOUS
  <1>2. PICK I : I = {Rising, Falling}
    OBVIOUS
  <1>3. PICK t : t = [tim EXCEPT !.out = @ \ P, !.irq = @ \ I]
    OBVIOUS
  <1>4. PICK cen \in BOOLEAN : cen = (t.cen /\ t.out # {})
    OBVIOUS
  <1>5. /\ capture.on /\ tim' = [t EXCEPT !.cen = cen]
        /\ hal' = hal \ (Claim(Rising) \cup Claim(Falling))
        /\ capture' = [capture EXCEPT !.on = FALSE]
        /\ wave' = Unheard /\ UNCHANGED <<rig, pwm, isr>>
    BY <1>1, <1>2, <1>3, <1>4 DEF CaptureOff, are_all_channels_free
  <1>6. TimTypeOK /\ tim \in Registers /\ capture \in Captured /\ pwm \in Objects
    BY DEF TimInv, TimTypeOK
  <1>7. /\ rig.capture # <<>> /\ tim.irq = I
        /\ hal \subseteq pwm.on \cup Claim(Rising) \cup Claim(Falling)
        /\ tim.out \subseteq pwm.on \cup P
    BY <1>1, <1>2, <1>5 DEF TimInv, Captures
  <1>8. /\ t \in Registers /\ t.out = tim.out \ P /\ t.irq = {}
        /\ t.arr = tim.arr /\ t.cen = tim.cen /\ t.moe = tim.moe /\ t.dtg = tim.dtg
        /\ t.ccr = tim.ccr /\ t.mode = tim.mode
    <2>1. t \in Registers
      BY <1>3, <1>6 DEF Registers
    <2> QED
      BY <1>3, <1>6, <1>7, <2>1 DEF Registers
  <1>9. /\ tim' \in Registers /\ tim'.out = t.out /\ tim'.irq = {} /\ tim'.cen = cen
        /\ tim'.arr = tim.arr /\ tim'.moe = tim.moe /\ tim'.dtg = tim.dtg
        /\ tim'.ccr = tim.ccr /\ tim'.mode = tim.mode
    <2>1. tim' \in Registers
      BY <1>4, <1>5, <1>8 DEF Registers
    <2> QED
      BY <1>5, <1>8, <2>1 DEF Registers
  <1>10. capture' \in Captured /\ capture'.on = FALSE
    <2>1. capture' \in Captured
      BY <1>5, <1>6 DEF Captured
    <2> QED
      BY <1>5, <1>6, <2>1 DEF Captured
  <1>11. wave' \in Signals /\ wave'.clean = 0
    BY <1>5, <1>6, UnheardIsASignal
  <1>12. TimTypeOK' /\ tim'.dtg = DeadTime(pwm'.dead)
    BY <1>5, <1>6, <1>9, <1>10, <1>11 DEF TimTypeOK, TimInv
  <1>13. Driven'
    <2>1. ASSUME NEW c \in CompareChannels, NEW half \in {"P", "N"}, <<c, half>> \in pwm.on, c \notin Twice
          PROVE  /\ tim'.cen = TRUE
                 /\ \A h \in {"P", "N"} : <<c, h>> \in tim.out => <<c, h>> \in tim'.out
      <3>1. /\ c \in rig.pwm \cup rig.dual /\ tim.cen = TRUE
            /\ <<c, half>> \in tim.out \/ <<c, "P">> \in tim.out
        <4>1. c \in rig.dual /\ c \in pwm.configured => <<c, "P">> \in pwm.on
          BY <2>1 DEF TimInv, Driven
        <4> QED
          BY <2>1, <4>1 DEF TimInv, Driven
      <3>2. c \notin {Rising, Falling}
        BY <1>6, <1>7, <2>1, <3>1, RigFacts DEF TimTypeOK, Twice
      <3>3. \A h \in {"P", "N"} : <<c, h>> \in tim.out => <<c, h>> \in tim'.out
        BY <1>1, <1>8, <1>9, <3>2
      <3>4. t.out # {}
        BY <1>9, <3>1, <3>3
      <3> QED
        BY <1>4, <1>8, <1>9, <3>1, <3>3, <3>4
    <2>3. ASSUME NEW c \in CompareChannels, NEW half \in {"P", "N"}, <<c, half>> \in pwm.on
          PROVE  /\ c \in rig.pwm \cup rig.dual /\ (half = "N" => c \in rig.dual)
                 /\ c \notin Twice =>
                      /\ tim'.cen = TRUE /\ (is_break_instance => tim'.moe = TRUE)
                      /\ half = "P" => <<c, half>> \in tim'.out
                      /\ <<c, half>> \in tim'.out \/ (c \in pwm.early /\ c \in pwm.configured)
                      /\ c \in pwm.configured \cup pwm.early
      BY <1>9, <2>1, <2>3 DEF TimInv, Driven
    <2>4. ASSUME NEW c \in pwm.configured
          PROVE  /\ c \in rig.pwm \cup rig.dual
                 /\ c \notin Twice =>
                      /\ tim'.mode[c] = "pwm"
                      /\ c \in rig.dual => <<c, "P">> \in pwm.on
      BY <1>9 DEF TimInv, Driven
    <2> QED
      BY <1>5, <2>3, <2>4, RigStays DEF Driven, is_break_instance
  <1>14. Follows'
    BY <1>5, <1>9, FollowsStill
  <1>15. Captures'
    BY <1>5, <1>7, <1>8, <1>9, <1>10 DEF Captures
  <1>16. Hears'
    BY <1>5, <1>11 DEF TimInv, Hears
  <1> QED
    BY <1>12, <1>13, <1>14, <1>15, <1>16 DEF TimInv

-----------------------------------------------------------------------------
(* The signal and the interrupt.                                           *)

(* An edge heard one at a time finds what the edge before left.            *)
LEMMA EdgeKeeps ==
  ASSUME TimInv, NEW gap \in Gaps, Edge(gap)
  PROVE  TimInv'
  <1>1. PICK c : c = IF ~wave.level THEN Rising ELSE Falling
    OBVIOUS
  <1>2. PICK top : top = IF tim.cnt > tim.arr THEN TimRange - 1 ELSE tim.arr
    OBVIOUS
  <1>3. PICK cnt : cnt = IF tim.cen THEN (tim.cnt + gap) % (top + 1) ELSE tim.cnt
    OBVIOUS
  <1>4. PICK caught \in BOOLEAN :
          caught = (<<c, "P">> \in tim.out /\ tim.mode[c] = IF ~wave.level THEN "rising" ELSE "falling")
    OBVIOUS
  <1>5. PICK calm \in BOOLEAN :
          calm = (isr.at = 0 /\ tim.sr = {} /\ tim.cnt + gap <= top /\ ~tim.center)
    OBVIOUS
  <1>6. /\ capture.on
        /\ tim' = IF caught THEN [tim EXCEPT !.cnt = cnt, !.ccr[c] = cnt, !.sr = @ \cup {c}]
                             ELSE [tim EXCEPT !.cnt = cnt]
        /\ UNCHANGED <<rig, hal, pwm, capture, isr>>
    BY <1>1, <1>2, <1>3, <1>4 DEF Edge
  <1>7. wave' = [level |-> ~wave.level, edges |-> wave.edges + 1,
                 since |-> IF ~wave.level THEN 0 ELSE wave.since + gap,
                 high |-> IF ~wave.level THEN wave.high ELSE gap,
                 period |-> IF ~wave.level THEN wave.since + gap ELSE wave.period,
                 clean |-> IF ~calm \/ ~caught THEN 0
                           ELSE IF wave.clean < 3 THEN wave.clean + 1 ELSE 3,
                 fits |-> IF ~wave.level THEN wave.fits ELSE gap < capture.period]
    BY <1>1, <1>2, <1>4, <1>5 DEF Edge
  <1>8. TimTypeOK /\ tim \in Registers /\ capture \in Captured /\ wave \in Signals
        /\ isr \in [at : 0 .. 4, reads : BOOLEAN, seen : SUBSET CompareChannels]
    BY DEF TimInv, TimTypeOK
  <1>9. /\ rig.capture # <<>>
        /\ Claimed \cap Twice = {} => tim.cen = TRUE
    BY <1>6 DEF TimInv, Captures
  <1>10. gap \in Nat \ {0} /\ TimRange \in Nat \ {0}
    BY RigsAssumption
  <1>11. /\ c \in CompareChannels /\ c \in Claimed
         /\ Rising \in CompareChannels /\ Falling \in CompareChannels
    BY <1>1, <1>8, <1>9, RigFacts DEF TimTypeOK
  <1>12. /\ tim.cnt \in 0 .. TimRange - 1 /\ tim.arr \in 0 .. TimRange - 1
         /\ top \in 0 .. TimRange - 1 /\ tim.ccr \in [CompareChannels -> Nat]
    BY <1>2, <1>8, <1>10 DEF Registers
  <1>13. /\ cnt \in 0 .. TimRange - 1
         /\ tim.cen = TRUE /\ tim.cnt + gap <= top => cnt = tim.cnt + gap
    <2>1. PICK x \in Nat : x = tim.cnt + gap
      BY <1>10, <1>12
    <2>2. PICK n \in Nat \ {0} : n = top + 1
      BY <1>10, <1>12
    <2>3. x % n \in 0 .. n - 1 /\ (x < n => x % n = x)
      BY Remainder
    <2>4. cnt = IF tim.cen THEN x % n ELSE tim.cnt
      BY <1>3, <2>1, <2>2
    <2>5. cnt \in 0 .. TimRange - 1
      <3>1. x % n \in 0 .. TimRange - 1
        BY <1>10, <1>12, <2>2, <2>3
      <3> QED
        BY <1>12, <2>4, <3>1
    <2>6. ASSUME tim.cen = TRUE, tim.cnt + gap <= top PROVE cnt = tim.cnt + gap
      <3>1. x < n
        BY <1>10, <1>12, <2>1, <2>2, <2>6
      <3> QED
        BY <2>1, <2>3, <2>4, <2>6, <3>1
    <2> QED
      BY <2>5, <2>6
  <1>14. PICK ccr : ccr = [tim.ccr EXCEPT ![c] = cnt]
    OBVIOUS
  <1>15. /\ tim' \in Registers /\ tim'.cnt = cnt
         /\ tim'.arr = tim.arr /\ tim'.psc = tim.psc /\ tim'.cen = tim.cen /\ tim'.moe = tim.moe
         /\ tim'.dtg = tim.dtg /\ tim'.mode = tim.mode /\ tim'.out = tim.out /\ tim'.irq = tim.irq
         /\ caught => tim'.ccr = ccr /\ tim'.sr = tim.sr \cup {c}
         /\ ~caught => tim'.ccr = tim.ccr /\ tim'.sr = tim.sr
    <2>1. CASE caught
      <3>1. PICK sr : sr = tim.sr \cup {c}
        OBVIOUS
      <3>2. tim' = [tim EXCEPT !.cnt = cnt, !.ccr = ccr, !.sr = sr]
        BY <1>6, <1>14, <2>1, <3>1
      <3>3. ccr \in [CompareChannels -> Nat] /\ sr \in SUBSET CompareChannels
        BY <1>8, <1>11, <1>12, <1>13, <1>14, <3>1 DEF Registers
      <3>4. tim' \in Registers
        BY <1>8, <1>13, <3>2, <3>3 DEF Registers
      <3> QED
        BY <1>8, <2>1, <3>1, <3>2, <3>4 DEF Registers
    <2>2. CASE ~caught
      <3>1. tim' = [tim EXCEPT !.cnt = cnt]
        BY <1>6, <2>2
      <3>2. tim' \in Registers
        BY <1>8, <1>13, <3>1 DEF Registers
      <3> QED
        BY <1>8, <2>2, <3>1, <3>2 DEF Registers
    <2> QED
      BY <2>1, <2>2
  <1>16. wave' \in Signals
    <2>1. /\ wave.since \in Nat /\ wave.high \in Nat /\ wave.period \in Nat /\ wave.clean \in 0 .. 3
          /\ wave.edges \in Nat /\ wave.level \in BOOLEAN /\ wave.fits \in BOOLEAN
      BY <1>8 DEF Signals
    <2>2. (gap < capture.period) \in BOOLEAN
      OBVIOUS
    <2>3. (IF ~wave.level THEN wave.fits ELSE gap < capture.period) \in BOOLEAN
      BY <2>1, <2>2, Zenon
    <2> QED
      BY <1>7, <1>10, <2>1, <2>3 DEF Signals
  <1>17. TimTypeOK' /\ tim'.dtg = DeadTime(pwm'.dead)
    BY <1>6, <1>8, <1>15, <1>16 DEF TimTypeOK, TimInv
  <1>18. Driven' /\ Captures'
    BY <1>6, <1>15, DrivenStill, CapturesStill
  <1>19. Follows'
    <2>1. \A x \in (rig.pwm \cup rig.dual) \ Twice : x # c /\ x \in CompareChannels
      BY <1>8, <1>11, RigFacts DEF Twice, TimTypeOK
    <2>2. \A x \in (rig.pwm \cup rig.dual) \ Twice : tim'.ccr[x] = tim.ccr[x]
      BY <1>12, <1>14, <1>15, <2>1
    <2> QED
      BY <1>6, <1>15, <2>2, FollowsStill
  <1>20. (isr'.reads => isr'.at # 0) /\ (isr'.seen # {} => isr'.reads)
    BY <1>6 DEF TimInv, Hears
  <1>21. /\ wave'.level \in BOOLEAN /\ (wave'.level <=> ~wave.level) /\ wave'.fits \in BOOLEAN
         /\ ~wave.level => /\ wave'.since = 0 /\ wave'.high = wave.high
                           /\ wave'.period = wave.since + gap /\ wave'.fits = wave.fits
         /\ wave.level => /\ wave'.since = wave.since + gap /\ wave'.high = gap
                          /\ wave'.fits = (gap < capture.period)
         /\ wave'.clean >= 1 => calm /\ caught
         /\ wave'.clean >= 2 => wave.clean >= 1
         /\ wave'.clean = 3 => wave.clean >= 2
    <2>1. wave.level \in BOOLEAN /\ wave.clean \in 0 .. 3 /\ wave.fits \in BOOLEAN
      BY <1>8 DEF Signals
    <2>2. wave'.clean = IF ~calm \/ ~caught THEN 0
                        ELSE IF wave.clean < 3 THEN wave.clean + 1 ELSE 3
      BY <1>7
    <2>3. wave'.level = ~wave.level /\ wave'.fits = IF ~wave.level THEN wave.fits ELSE gap < capture.period
      BY <1>7
    <2>4. wave'.fits \in BOOLEAN
      BY <1>16 DEF Signals
    <2>5. (wave'.level <=> ~wave.level) /\ wave'.level \in BOOLEAN
      BY <2>1, <2>3, Zenon
    <2>6. /\ wave'.clean >= 1 => calm /\ caught
          /\ wave'.clean >= 2 => wave.clean >= 1
          /\ wave'.clean = 3 => wave.clean >= 2
      BY <2>1, <2>2
    <2>7. ~wave.level => /\ wave'.since = 0 /\ wave'.high = wave.high
                         /\ wave'.period = wave.since + gap /\ wave'.fits = wave.fits
      BY <1>7
    <2>8. wave.level => /\ wave'.since = wave.since + gap /\ wave'.high = gap
                        /\ wave'.fits = (gap < capture.period)
      BY <1>7
    <2> QED
      BY <2>4, <2>5, <2>6, <2>7, <2>8
  <1>22. ASSUME wave'.clean >= 1, Claimed \cap Twice = {}
         PROVE  Waiting'
    <2>1. /\ isr.at = 0 /\ tim.sr = {} /\ tim.cnt + gap <= top /\ tim.cen = TRUE
      BY <1>5, <1>9, <1>21, <1>22
    <2>2. /\ cnt = tim.cnt + gap /\ tim'.sr = {c} /\ tim'.ccr[c] = tim'.cnt /\ tim'.cnt = cnt
      BY <1>11, <1>12, <1>13, <1>14, <1>15, <1>21, <1>22, <2>1
    <2>3. LastEdge' = c
      BY <1>1, <1>6, <1>21, RigStays DEF LastEdge
    <2>4. wave.clean >= 1 => Heeded
      BY <1>22, <2>1 DEF TimInv, Hears, Waiting
    <2>5. /\ wave.since \in Nat /\ wave.high \in Nat /\ wave.period \in Nat /\ wave.clean \in 0 .. 3
          /\ wave'.clean \in 0 .. 3 /\ capture.rising \in Nat /\ capture.period \in Nat
      BY <1>8, <1>16 DEF Signals, Captured
    <2>6. CASE ~wave.level
      <3>1. wave'.clean = 3 => /\ capture.rising + wave'.period = tim'.cnt
                               /\ wave'.high < wave'.period
                               /\ wave'.fits => capture.falling = wave'.high
        <4>1. wave'.clean = 3 => /\ capture.rising + wave.high = tim.cnt /\ wave.since = wave.high
                                 /\ wave.fits => capture.falling = wave.high
          BY <1>21, <2>4, <2>5, <2>6 DEF Heeded
        <4> QED
          BY <1>10, <1>12, <1>21, <2>2, <2>5, <2>6, <4>1
      <3> QED
        BY <1>6, <1>21, <2>1, <2>2, <2>3, <2>6, <3>1 DEF Waiting
    <2>7. CASE wave.level
      <3>1. wave'.clean >= 2 => /\ capture.rising + wave'.high = tim'.cnt /\ wave'.since = wave'.high
                                /\ wave'.fits <=> wave'.high < capture.period
        <4>1. wave'.clean >= 2 => wave.since = 0 /\ capture.rising = tim.cnt
          BY <1>21, <2>4, <2>5, <2>7 DEF Heeded
        <4> QED
          BY <1>10, <1>12, <1>21, <2>2, <2>5, <2>7, <4>1
      <3> QED
        BY <1>6, <1>21, <2>1, <2>2, <2>3, <2>7, <3>1 DEF Waiting
    <2> QED
      BY <2>6, <2>7
  <1>23. Hears'
    <2>1. (Claimed \cap Twice = {})' => Claimed \cap Twice = {}
      BY <1>6, RigStays
    <2> QED
      BY <1>6, <1>20, <1>22, <2>1 DEF Hears
  <1> QED
    BY <1>17, <1>18, <1>19, <1>23 DEF TimInv

(* What the interrupt makes of a channel it read.                          *)
LEMMA CallbackCaptures ==
  ASSUME TimTypeOK, NEW c \in CompareChannels, TIM_IC_CaptureCallback(c),
         NEW n, n = Elapsed(tim.ccr[c])
  PROVE  /\ capture' \in Captured /\ capture'.on = capture.on
         /\ tim.ccr[c] >= capture.rising => n = tim.ccr[c] - capture.rising
         /\ c = Rising =>
              /\ capture'.rising = tim.ccr[c]
              /\ n # 0 /\ capture.falling < n =>
                   /\ capture'.period = n /\ capture'.duty = <<capture.falling, n>>
                   /\ capture'.frequency = (TimClock \div (tim.psc + 1)) \div n
         /\ c # Rising =>
              /\ capture'.rising = capture.rising /\ capture'.period = capture.period
              /\ n < capture.period => capture'.falling = n
  <1>1. capture \in Captured /\ tim \in Registers
    BY DEF TimTypeOK
  <1>2. PICK current \in Nat : current = tim.ccr[c]
    BY <1>1 DEF Registers
  <1>3. /\ capture.rising \in Nat /\ capture.falling \in Nat /\ tim.arr \in Nat
        /\ TimClock \in Nat /\ tim.psc + 1 \in Nat \ {0}
    BY <1>1, RigsAssumption DEF Captured, Registers
  <1>4. n \in Nat /\ (current >= capture.rising => n = current - capture.rising)
    BY <1>2, <1>3 DEF Elapsed, WordRange
  <1>5. CASE c = Rising
    <2>1. CASE n # 0 /\ capture.falling < n
      <3>1. PICK f \in Nat : f = (TimClock \div (tim.psc + 1)) \div n
        <4>1. TimClock \div (tim.psc + 1) \in Nat
          BY <1>3, Quotient
        <4>2. (TimClock \div (tim.psc + 1)) \div n \in Nat
          BY <1>4, <2>1, <4>1, Quotient
        <4> QED
          BY <4>2
      <3>2. PICK d \in Nat \X Nat : d = <<capture.falling, n>>
        BY <1>3, <1>4
      <3>3. PICK k : k = [capture EXCEPT !.period = n, !.duty = d, !.frequency = f]
        OBVIOUS
      <3>4. capture' = [k EXCEPT !.rising = current]
        BY <1>2, <1>5, <2>1, <3>1, <3>2, <3>3 DEF TIM_IC_CaptureCallback
      <3>5. k \in Captured /\ k.on = capture.on /\ k.period = n /\ k.duty = d /\ k.frequency = f
        BY <1>1, <1>4, <3>3 DEF Captured
      <3>6. /\ capture' \in Captured /\ capture'.on = k.on /\ capture'.period = k.period
            /\ capture'.duty = k.duty /\ capture'.frequency = k.frequency /\ capture'.rising = current
        BY <1>2, <3>4, <3>5 DEF Captured
      <3> QED
        BY <1>2, <1>4, <1>5, <3>1, <3>2, <3>5, <3>6
    <2>2. CASE ~(n # 0 /\ capture.falling < n)
      <3>1. capture' = [capture EXCEPT !.rising = current]
        BY <1>2, <1>5, <2>2 DEF TIM_IC_CaptureCallback
      <3>2. capture' \in Captured /\ capture'.on = capture.on /\ capture'.rising = current
        BY <1>1, <1>2, <3>1 DEF Captured
      <3> QED
        BY <1>2, <1>4, <1>5, <2>2, <3>2
    <2> QED
      BY <2>1, <2>2
  <1>6. CASE c # Rising
    <2>1. capture' = IF n < capture.period THEN [capture EXCEPT !.falling = n] ELSE capture
      BY <1>2, <1>6 DEF TIM_IC_CaptureCallback
    <2>2. /\ capture' \in Captured /\ capture'.on = capture.on
          /\ capture'.rising = capture.rising /\ capture'.period = capture.period
          /\ n < capture.period => capture'.falling = n
      BY <1>1, <1>4, <2>1 DEF Captured
    <2> QED
      BY <1>2, <1>4, <1>6, <2>2
  <1> QED
    BY <1>5, <1>6

(* The interrupt reads the edge that waits, and no other.                  *)
LEMMA IsrReadKeeps ==
  ASSUME TimInv, IsrRead
  PROVE  TimInv'
  <1>1. PICK waiting : waiting = {c \in tim.sr : c > isr.at}
    OBVIOUS
  <1>2. PICK c : c = Min(waiting)
    OBVIOUS
  <1>3. /\ waiting # {} /\ TIM_IC_CaptureCallback(c)
        /\ tim' = [tim EXCEPT !.sr = @ \ {c}]
        /\ isr' = [at |-> c, reads |-> TRUE, seen |-> {}]
        /\ UNCHANGED <<rig, hal, pwm, wave>>
    BY <1>1, <1>2 DEF IsrRead
  <1>4. TimTypeOK /\ tim \in Registers /\ capture \in Captured /\ wave \in Signals
    BY DEF TimInv, TimTypeOK
  <1>5. waiting \subseteq 1 .. 4
    BY <1>1, <1>4 DEF Registers, CompareChannels
  <1>6. c \in waiting
    <2>1. \E x \in waiting : \A y \in waiting : x <= y
      BY <1>3, <1>5
    <2> QED
      BY <1>2, <2>1 DEF Min
  <1>7. c \in CompareChannels /\ c \in tim.sr /\ c # 0
    BY <1>1, <1>5, <1>6 DEF CompareChannels
  <1>8. /\ tim' \in Registers /\ tim'.arr = tim.arr /\ tim'.psc = tim.psc /\ tim'.cnt = tim.cnt
        /\ tim'.cen = tim.cen /\ tim'.moe = tim.moe /\ tim'.mode = tim.mode /\ tim'.out = tim.out
        /\ tim'.irq = tim.irq /\ tim'.sr = tim.sr \ {c} /\ tim'.dtg = tim.dtg /\ tim'.ccr = tim.ccr
    <2>1. tim' \in Registers
      BY <1>3, <1>4 DEF Registers
    <2> QED
      BY <1>3, <1>4, <2>1 DEF Registers
  <1>9. PICK n : n = Elapsed(tim.ccr[c])
    OBVIOUS
  <1>10. /\ capture' \in Captured /\ capture'.on = capture.on
         /\ tim.ccr[c] >= capture.rising => n = tim.ccr[c] - capture.rising
         /\ c = Rising =>
              /\ capture'.rising = tim.ccr[c]
              /\ n # 0 /\ capture.falling < n =>
                   /\ capture'.period = n /\ capture'.duty = <<capture.falling, n>>
                   /\ capture'.frequency = (TimClock \div (tim.psc + 1)) \div n
         /\ c # Rising =>
              /\ capture'.rising = capture.rising /\ capture'.period = capture.period
              /\ n < capture.period => capture'.falling = n
    BY <1>3, <1>4, <1>7, <1>9, CallbackCaptures
  <1>11. TimTypeOK' /\ tim'.dtg = DeadTime(pwm'.dead)
    <2>1. isr' \in [at : 0 .. 4, reads : BOOLEAN, seen : SUBSET CompareChannels]
      BY <1>3, <1>7 DEF CompareChannels
    <2> QED
      BY <1>3, <1>4, <1>8, <1>10, <2>1 DEF TimTypeOK, TimInv
  <1>12. Driven' /\ Follows'
    BY <1>3, <1>8, DrivenStill, FollowsStill
  <1>13. Captures'
    BY <1>3, <1>8, <1>10, RigStays DEF TimInv, Captures, Claim
  <1>14. ASSUME wave.clean >= 1, Claimed \cap Twice = {}
         PROVE  capture.on /\ Heeded'
    <2>1. capture.on /\ Waiting
      BY <1>7, <1>14 DEF TimInv, Hears, Heeded
    <2>2. c = LastEdge /\ tim'.sr = {} /\ tim.ccr[c] = tim.cnt
      BY <1>7, <1>8, <2>1 DEF Waiting
    <2>3. rig.capture # <<>>
      BY <2>1 DEF TimInv, Captures
    <2>4. Rising # Falling
      BY <1>4, <2>3, RigFacts DEF TimTypeOK
    <2>5. /\ wave.high \in Nat /\ wave.period \in Nat /\ wave.clean \in 0 .. 3
          /\ capture.rising \in Nat /\ capture.period \in Nat /\ tim.cnt \in Nat
      BY <1>4, RigsAssumption DEF Signals, Captured, Registers
    <2>6. CASE wave.level
      <3>1. c = Rising /\ wave.since = 0 /\ capture'.rising = tim.cnt
        BY <1>10, <2>1, <2>2, <2>6 DEF LastEdge, Waiting
      <3>2. ASSUME wave.clean = 3, wave.fits
            PROVE  /\ capture'.period = wave.period /\ wave.period > 0
                   /\ capture'.duty = <<wave.high, wave.period>>
                   /\ capture'.frequency = (TimClock \div (tim.psc + 1)) \div wave.period
        <4>1. /\ capture.rising + wave.period = tim.cnt /\ wave.high < wave.period
              /\ capture.falling = wave.high
          BY <2>1, <2>6, <3>2 DEF Waiting
        <4>2. n = wave.period /\ wave.period > 0
          BY <1>10, <2>2, <2>5, <4>1
        <4> QED
          BY <1>10, <2>5, <3>1, <4>1, <4>2
      <3>3. wave' = wave /\ tim'.psc = tim.psc /\ tim'.cnt = tim.cnt /\ tim'.sr = {}
        BY <1>3, <1>8, <2>2
      <3>4. wave'.clean = 3 /\ wave'.fits =>
              /\ capture'.period = wave'.period /\ wave'.period > 0
              /\ capture'.duty = <<wave'.high, wave'.period>>
              /\ capture'.frequency = (TimClock \div (tim'.psc + 1)) \div wave'.period
        BY <3>2, <3>3
      <3>5. wave'.since = 0 /\ capture'.rising = tim'.cnt /\ wave'.level
        BY <2>6, <3>1, <3>3
      <3> QED
        BY <2>1, <3>3, <3>4, <3>5 DEF Heeded
    <2>7. CASE ~wave.level
      <3>1. c = Falling /\ c # Rising
        BY <2>2, <2>4, <2>7 DEF LastEdge
      <3>2. ASSUME wave.clean >= 2
            PROVE  /\ capture'.rising + wave.high = tim.cnt /\ wave.since = wave.high
                   /\ wave.fits <=> wave.high < capture'.period
                   /\ wave.fits => capture'.falling = wave.high
        <4>1. /\ capture.rising + wave.high = tim.cnt /\ wave.since = wave.high
              /\ wave.fits <=> wave.high < capture.period
          BY <2>1, <2>7, <3>2 DEF Waiting
        <4>2. n = wave.high
          BY <1>10, <2>2, <2>5, <4>1
        <4> QED
          BY <1>10, <3>1, <4>1, <4>2
      <3>3. wave' = wave /\ tim'.cnt = tim.cnt /\ tim'.sr = {}
        BY <1>3, <1>8, <2>2
      <3>4. ~wave'.level
        BY <2>7, <3>3
      <3>5. wave'.clean >= 2 =>
              /\ capture'.rising + wave'.high = tim'.cnt /\ wave'.since = wave'.high
              /\ wave'.fits <=> wave'.high < capture'.period
              /\ wave'.fits => capture'.falling = wave'.high
        BY <3>2, <3>3
      <3> QED
        BY <2>1, <3>3, <3>4, <3>5 DEF Heeded
    <2> QED
      BY <2>1, <2>6, <2>7
  <1>15. Hears'
    <2>1. isr'.at = c
      BY <1>3
    <2>2. (Claimed \cap Twice = {})' => Claimed \cap Twice = {}
      BY <1>3, RigStays
    <2> QED
      BY <1>3, <1>7, <1>10, <1>14, <2>1, <2>2 DEF Hears
  <1> QED
    BY <1>11, <1>12, <1>13, <1>15 DEF TimInv

LEMMA IsrLoadKeeps ==
  ASSUME TimInv, IsrLoad
  PROVE  TimInv'
  <1>1. /\ isr.reads /\ isr' = [isr EXCEPT !.seen = tim.sr \cup {isr.at}]
        /\ UNCHANGED <<rig, tim, hal, pwm, capture, wave>>
    BY DEF IsrLoad
  <1>2. /\ TimTypeOK /\ tim.sr \subseteq CompareChannels
        /\ isr \in [at : 0 .. 4, reads : BOOLEAN, seen : SUBSET CompareChannels]
    BY DEF TimInv, TimTypeOK, Registers
  <1>3. isr.at # 0 /\ isr.at \in CompareChannels
    BY <1>1, <1>2 DEF TimInv, Hears, CompareChannels
  <1>4. /\ isr' \in [at : 0 .. 4, reads : BOOLEAN, seen : SUBSET CompareChannels]
        /\ isr'.at = isr.at /\ isr'.reads = isr.reads
    BY <1>1, <1>2, <1>3
  <1>5. TimTypeOK' /\ tim'.dtg = DeadTime(pwm'.dead)
    BY <1>1, <1>2, <1>4 DEF TimTypeOK, TimInv
  <1>6. Driven' /\ Follows' /\ Captures'
    BY <1>1, DrivenStill, FollowsStill, CapturesStill
  <1>7. Hears'
    <2>1. (Claimed \cap Twice = {})' => Claimed \cap Twice = {}
      BY <1>1, RigStays
    <2>2. ASSUME wave.clean >= 1, Claimed \cap Twice = {}
          PROVE  capture.on /\ Heeded'
      <3>1. capture.on /\ Heeded
        BY <1>3, <2>2 DEF TimInv, Hears, Waiting
      <3> QED
        BY <1>1, <3>1 DEF Heeded
    <2> QED
      BY <1>1, <1>3, <1>4, <2>1, <2>2 DEF Hears
  <1> QED
    BY <1>5, <1>6, <1>7 DEF TimInv

(* What it clears once more is no edge that was heard alone.               *)
LEMMA IsrClearKeeps ==
  ASSUME TimInv, IsrClear
  PROVE  TimInv'
  <1> DEFINE left == tim.sr \cap (isr.seen \ {isr.at})
  <1>1. PICK at : at = IF \E c \in left : c > isr.at THEN isr.at ELSE 0
    OBVIOUS
  <1>2. /\ isr.reads /\ isr.at # 0 /\ tim' = [tim EXCEPT !.sr = left]
        /\ isr' = [at |-> at, reads |-> FALSE, seen |-> {}]
        /\ UNCHANGED <<rig, hal, pwm, capture, wave>>
    BY <1>1 DEF IsrClear, TimInv, Hears
  <1>3. /\ TimTypeOK /\ tim \in Registers
        /\ isr \in [at : 0 .. 4, reads : BOOLEAN, seen : SUBSET CompareChannels]
    BY DEF TimInv, TimTypeOK
  <1>4. at \in 0 .. 4
    BY <1>1, <1>3
  <1>5. /\ tim' \in Registers /\ tim'.arr = tim.arr /\ tim'.psc = tim.psc /\ tim'.cnt = tim.cnt
        /\ tim'.cen = tim.cen /\ tim'.moe = tim.moe /\ tim'.mode = tim.mode /\ tim'.out = tim.out
        /\ tim'.irq = tim.irq /\ tim'.sr \subseteq tim.sr /\ tim'.dtg = tim.dtg
        /\ tim'.ccr = tim.ccr
    <2>1. tim' \in Registers
      BY <1>2, <1>3 DEF Registers
    <2> QED
      BY <1>2, <1>3, <2>1 DEF Registers
  <1>6. TimTypeOK' /\ tim'.dtg = DeadTime(pwm'.dead)
    BY <1>2, <1>3, <1>4, <1>5 DEF TimTypeOK, TimInv
  <1>7. Driven' /\ Follows' /\ Captures'
    BY <1>2, <1>5, DrivenStill, FollowsStill, CapturesStill
  <1>8. ASSUME wave.clean >= 1, Claimed \cap Twice = {}
        PROVE  capture.on /\ Heeded'
    <2>1. capture.on /\ Heeded
      BY <1>2, <1>8 DEF TimInv, Hears, Waiting
    <2> QED
      BY <1>2, <1>5, <2>1 DEF Heeded
  <1>9. Hears'
    <2>1. isr'.reads = FALSE /\ isr'.seen = {}
      BY <1>2
    <2>2. (Claimed \cap Twice = {})' => Claimed \cap Twice = {}
      BY <1>2, RigStays
    <2> QED
      BY <1>2, <1>8, <2>1, <2>2 DEF Hears
  <1> QED
    BY <1>6, <1>7, <1>9 DEF TimInv

-----------------------------------------------------------------------------
LEMMA TimInvKept == TimInv /\ [TimNext]_timVars => TimInv'
  <1> SUFFICES ASSUME TimInv, [TimNext]_timVars PROVE TimInv'
    OBVIOUS
  <1>1. ASSUME NEW c \in CompareChannels, TurnOn(c) PROVE TimInv'
    BY <1>1, TurnOnKeeps
  <1>2. ASSUME NEW c \in CompareChannels, TurnOff(c) PROVE TimInv'
    BY <1>2, TurnOffKeeps
  <1>3. ASSUME NEW c \in CompareChannels, DualOn(c) PROVE TimInv'
    BY <1>3, DualOnKeeps
  <1>4. ASSUME NEW c \in CompareChannels, NEW half \in {"P", "N"}, HalfOn(c, half) PROVE TimInv'
    BY <1>4, HalfOnKeeps
  <1>5. ASSUME NEW c \in CompareChannels, NEW d \in rig.duties, set_duty_cycle(c, d) PROVE TimInv'
    BY <1>5, SetDutyCycleKeeps
  <1>6. ASSUME NEW c \in CompareChannels, NEW d \in rig.duties, NEW f \in rig.frequencies,
               configure(c, f, d)
        PROVE  TimInv'
    BY <1>6, ConfigureKeeps
  <1>7. ASSUME NEW f \in rig.frequencies, NEW mode \in {"SPEED", "PRECISION"},
               set_timer_frequency(f, mode)
        PROVE  TimInv'
    BY <1>7, SetTimerFrequencyKeeps
  <1>8. ASSUME NEW center \in BOOLEAN, set_counting_mode(center) PROVE TimInv'
    BY <1>8, SetCountingModeKeeps
  <1>9. ASSUME NEW ns \in rig.dead, set_dead_time(ns) PROVE TimInv'
    BY <1>9, SetDeadTimeKeeps
  <1>10. ASSUME NEW prescaler \in rig.prescalers, get_input_capture(prescaler) PROVE TimInv'
    BY <1>10, GetInputCaptureKeeps
  <1>11. CASE CaptureOn
    BY <1>11, CaptureOnKeeps
  <1>12. CASE CaptureOff
    BY <1>12, CaptureOffKeeps
  <1>13. CASE IsrRead
    BY <1>13, IsrReadKeeps
  <1>14. CASE IsrClear
    BY <1>14, IsrClearKeeps
  <1>15. CASE IsrLoad
    BY <1>15, IsrLoadKeeps
  <1>16. ASSUME NEW gap \in Gaps, Edge(gap) PROVE TimInv'
    BY <1>16, EdgeKeeps
  <1>17. CASE UNCHANGED timVars
    <2>1. UNCHANGED <<rig, tim, hal, pwm, capture, isr, wave>>
      BY <1>17 DEF timVars
    <2>2. TimTypeOK' /\ tim'.dtg = DeadTime(pwm'.dead)
      BY <2>1 DEF TimInv, TimTypeOK
    <2>3. Driven' /\ Follows' /\ Captures' /\ Hears'
      BY <2>1, DrivenStill, FollowsStill, CapturesStill, HearsStill
    <2> QED
      BY <2>2, <2>3 DEF TimInv
  <1> QED
    BY <1>1, <1>2, <1>3, <1>4, <1>5, <1>6, <1>7, <1>8, <1>9, <1>10, <1>11, <1>12, <1>13, <1>14,
       <1>15, <1>16, <1>17 DEF TimNext

(* What is driven, follows and is given is what an output should show.     *)
LEMMA TimInvShowsTheDuty == TimInv => PwmShowsItsDuty
  <1> SUFFICES ASSUME TimInv PROVE PwmShowsItsDuty
    OBVIOUS
  <1>1. TimTypeOK /\ tim \in Registers /\ pwm \in Objects /\ rig \in Rigs
    BY DEF TimInv, TimTypeOK
  <1>2. ASSUME NEW o \in pwm.on, o[1] \notin Twice
        PROVE  /\ tim.cen /\ (is_break_instance => tim.moe)
               /\ o[1] \notin pwm.early => o \in tim.out /\ tim.mode[o[1]] = "pwm"
    <2>1. PICK c \in CompareChannels, half \in {"P", "N"} : o = <<c, half>>
      BY <1>1 DEF Objects, Halves
    <2>2. <<c, half>> \in pwm.on /\ c \notin Twice
      BY <1>2, <2>1
    <2>3. /\ tim.cen = TRUE /\ (is_break_instance => tim.moe = TRUE)
          /\ <<c, half>> \in tim.out \/ (c \in pwm.early /\ c \in pwm.configured)
          /\ c \in pwm.configured \cup pwm.early
      BY <2>2 DEF TimInv, Driven
    <2>4. c \in pwm.configured => tim.mode[c] = "pwm"
      BY <2>2 DEF TimInv, Driven
    <2> QED
      BY <2>1, <2>3, <2>4
  <1>3. ASSUME NEW c \in (rig.pwm \cup rig.dual) \ Twice
        PROVE  /\ pwm.duty[c] \in 1 .. 100 /\ CanShow(tim.arr, pwm.duty[c]) =>
                     IsShare(tim.ccr[c], (tim.arr + 1) * pwm.duty[c])
               /\ pwm.duty[c] = 0 /\ c \notin pwm.silent => tim.ccr[c] = 0
    <2>1. c \in CompareChannels
      BY <1>1, RigFacts
    <2>2. PICK duty \in Duties : duty = pwm.duty[c]
      BY <1>1, <2>1 DEF Objects
    <2>3. PICK arr \in 0 .. TimRange - 1 : arr = tim.arr
      BY <1>1 DEF Registers
    <2>4. /\ duty # 0 => tim.ccr[c] = RawDuty(arr, duty)
          /\ duty = 0 /\ c \notin pwm.silent => tim.ccr[c] = 0
      BY <2>2, <2>3 DEF TimInv, Follows
    <2>5. CanShow(arr, duty) => IsShare(RawDuty(arr, duty), (arr + 1) * duty)
      BY <1>1, DutyIsAShare
    <2> QED
      BY <2>2, <2>3, <2>4, <2>5
  <1>4. pwm.dead <= 1008 * ClockPeriod =>
          /\ Given(tim.dtg) * ClockPeriod <= pwm.dead + 8 * ClockPeriod
          /\ pwm.dead < (Given(tim.dtg) + 16) * ClockPeriod
    <2>1. PICK ns \in Nat : ns = pwm.dead
      BY <1>1 DEF Objects
    <2>2. tim.dtg = DeadTime(ns)
      BY <2>1 DEF TimInv
    <2> QED
      BY <2>1, <2>2, DeadTimeIsGiven
  <1> QED
    BY <1>2, <1>3, <1>4 DEF PwmShowsItsDuty

(* What the interrupt took is the signal.                                  *)
LEMMA TimInvReadsTheSignal == TimInv => CaptureReadsTheSignal
  <1> SUFFICES ASSUME TimInv PROVE CaptureReadsTheSignal
    OBVIOUS
  <1>1. tim \in Registers /\ wave \in Signals
    BY DEF TimInv, TimTypeOK
  <1>2. ASSUME Heard
        PROVE  /\ capture.period = wave.period /\ capture.duty = <<wave.high, wave.period>>
               /\ TimClock \div (tim.psc + 1) \in capture.frequency * wave.period
                                                .. (capture.frequency + 1) * wave.period - 1
    <2>1. Heeded /\ wave.level /\ wave.clean = 3 /\ wave.fits
      BY <1>2 DEF TimInv, Hears, Heard, Waiting
    <2>2. /\ capture.period = wave.period /\ wave.period > 0
          /\ capture.duty = <<wave.high, wave.period>>
          /\ capture.frequency = (TimClock \div (tim.psc + 1)) \div wave.period
      BY <2>1 DEF Heeded
    <2>3. PICK a \in Nat : a = TimClock \div (tim.psc + 1)
      BY <1>1, Quotient, RigsAssumption DEF Registers
    <2>4. PICK b \in Nat \ {0} : b = wave.period
      BY <1>1, <2>2 DEF Signals
    <2>5. PICK q \in Nat : q = a \div b /\ q * b <= a /\ a < q * b + b
      BY Quotient
    <2>6. q = capture.frequency
      BY <2>2, <2>3, <2>4, <2>5
    <2>7. a \in q * b .. (q + 1) * b - 1
      BY <2>5
    <2> QED
      BY <2>2, <2>3, <2>4, <2>6, <2>7
  <1>3. ~capture.on => tim.irq = {} /\ hal \subseteq pwm.on /\ tim.out \subseteq pwm.on
    BY DEF TimInv, Captures
  <1> QED
    BY <1>2, <1>3 DEF CaptureReadsTheSignal

(* Whatever is switched, set or reloaded, in whatever order, an output     *)
(* that is on is driven for the share of the period its duty says, to a     *)
(* count and the rounding of 32-bit floats, and a dead time that can be     *)
(* given is given to a step; the exceptions are those of PwmShowsItsDuty    *)
(* (TimerWrapper.hpp, set_pwm_frequency; PWM.hpp, set_duty_cycle).          *)
THEOREM OutputsShowTheirDuty == TimSpec => []PwmShowsItsDuty
  <1>1. TimInit => TimInv
    BY TimInvHoldsInitially
  <1>2. TimInv /\ [TimNext]_timVars => TimInv'
    BY TimInvKept
  <1>3. TimInv => PwmShowsItsDuty
    BY TimInvShowsTheDuty
  <1> QED
    BY <1>1, <1>2, <1>3, PTL DEF TimSpec

(* Three edges in a row that were heard one at a time, without a turn of    *)
(* the counter between them, leave the signal's period, duty and frequency  *)
(* in the capture (TimerDomain.cpp, TIM_IC_CaptureCallback), and a capture  *)
(* that was refused or given back holds neither channels nor interrupts.    *)
THEOREM CapturesReadTheSignal == TimSpec => []CaptureReadsTheSignal
  <1>1. TimInit => TimInv
    BY TimInvHoldsInitially
  <1>2. TimInv /\ [TimNext]_timVars => TimInv'
    BY TimInvKept
  <1>3. TimInv => CaptureReadsTheSignal
    BY TimInvReadsTheSignal
  <1> QED
    BY <1>1, <1>2, <1>3, PTL DEF TimSpec
=============================================================================
