----------------------------- MODULE FaultProofs -----------------------------
(***************************************************************************)
(* What holds of the FaultController for any boards, connections,          *)
(* application machines and table sizes, and of the Protections that ask   *)
(* it for the fault for any rules, samples and delay.                      *)
(*                                                                         *)
(* Most of the first is about one board at a time: a step replaces the     *)
(* record of one board, so each fact is proved of the record a step puts   *)
(* there (the lemmas) and then of every board.  The second is about one    *)
(* protection at a time: a step changes what is kept of one, or of all     *)
(* when they start over; each fact is proved of the rule that a sample has *)
(* just been judged by.                                                    *)
(***************************************************************************)
EXTENDS FaultController, Protections, FiniteSetTheorems, TLAPS

(* The invariant of one board's record: TypeOK, FaultEnteredOnce and the   *)
(* order install_runtime, start in which its statics are set.              *)
Sound(r) ==
  /\ r \in BoardState
  /\ r.faulted <=> r.cause # "none"
  /\ r.pending \subseteq r.targets
  /\ r.runtime_started => r.installed
  /\ r.installed => (r.outer = "FAULT" <=> r.faulted)
  /\ r.entered = IF r.runtime_started /\ r.faulted THEN 1 ELSE 0

(* The orders a board has handed over, against what its record says.       *)
Told(b, r, count) ==
  \A p \in Boards :
    /\ count[<<b, p>>] <= 1
    /\ p \in r.pending => r.faulted /\ count[<<b, p>>] = 0
    /\ ~r.faulted => count[<<b, p>>] = 0

NetworkOK ==
  /\ up \subseteq Links
  /\ wire \subseteq Boards \X Boards
  /\ sent \in [Boards \X Boards -> Nat]
  /\ busy \subseteq Boards

IInv ==
  /\ board \in [Boards -> BoardState]
  /\ \A b \in Boards : Sound(board[b]) /\ Told(b, board[b], sent)
  /\ NetworkOK

(* What a step of board b does: it puts a sound record there, and counts   *)
(* orders of b alone, consistently with the record.                        *)
StepOf(b) ==
  \E r \in BoardState :
    /\ Becomes(b, r) /\ Sound(r)
    /\ sent' \in [Boards \X Boards -> Nat]
    /\ Told(b, r, sent')
    /\ \A c, p \in Boards : c # b => sent'[<<c, p>>] = sent[<<c, p>>]
-----------------------------------------------------------------------------
(* A step of one board keeps what is known of every board. *)
LEMMA StepKeepsBoards ==
  ASSUME IInv, NEW b \in Boards, StepOf(b)
  PROVE  /\ board' \in [Boards -> BoardState]
         /\ \A c \in Boards : Sound(board'[c]) /\ Told(c, board'[c], sent')
         /\ sent' \in [Boards \X Boards -> Nat]
  <1>1. PICK r \in BoardState :
          /\ board' = [board EXCEPT ![b] = r] /\ Sound(r)
          /\ sent' \in [Boards \X Boards -> Nat]
          /\ Told(b, r, sent')
          /\ \A c, p \in Boards : c # b => sent'[<<c, p>>] = sent[<<c, p>>]
    BY DEF StepOf, Becomes
  <1>2. board \in [Boards -> BoardState]
    BY DEF IInv
  <1>3. ASSUME NEW c \in Boards PROVE Sound(board'[c]) /\ Told(c, board'[c], sent')
    <2>1. CASE c = b
      BY <1>1, <1>2, <2>1
    <2>2. CASE c # b
      <3>1. board'[c] = board[c]
        BY <1>1, <1>2, <2>2
      <3>2. Told(c, board[c], sent')
        BY <1>1, <2>2 DEF IInv, Told
      <3> QED
        BY <3>1, <3>2 DEF IInv
    <2> QED
      BY <2>1, <2>2
  <1> QED
    BY <1>1, <1>2, <1>3

(* Records that stay in BoardState. *)
LEMMA InstalledType ==
  ASSUME NEW r \in BoardState, NEW c \in FaultCauseKind \union {"none"},
         NEW o \in {"OPERATIONAL", "FAULT"}
  PROVE  [r EXCEPT !.installed = TRUE, !.cause = c, !.outer = o,
                   !.targets = {}, !.pending = {}] \in BoardState
  BY DEF BoardState

LEMMA StartedType ==
  ASSUME NEW r \in BoardState
  PROVE  /\ [r EXCEPT !.runtime_started = TRUE, !.entered = 1] \in BoardState
         /\ [r EXCEPT !.runtime_started = TRUE, !.at = "enter", !.within = "start"] \in BoardState
  BY DEF BoardState

LEMMA PolledType ==
  ASSUME NEW r \in BoardState, NEW due \in BOOLEAN, NEW owed \in SUBSET Boards
  PROVE  [r EXCEPT !.at = "idle", !.retry_due = due, !.pending = owed] \in BoardState
  BY DEF BoardState

(* What a state change of the application's machine leaves alone. *)
KeepsController(r, q) ==
  /\ q.installed = r.installed /\ q.runtime_started = r.runtime_started
  /\ q.faulted = r.faulted /\ q.cause = r.cause /\ q.outer = r.outer
  /\ q.entered = r.entered /\ q.targets = r.targets /\ q.pending = r.pending

LEMMA ControllerKept ==
  ASSUME NEW r, Sound(r), NEW q \in BoardState, KeepsController(r, q)
  PROVE  Sound(q) /\ q.pending = r.pending /\ q.faulted = r.faulted
  BY DEF Sound, KeepsController

(* A step that changes one record and counts no order. *)
LEMMA SilentStep ==
  ASSUME IInv, NEW b \in Boards, NEW r, Becomes(b, r), Sound(r),
         r.pending \subseteq board[b].pending, r.faulted = board[b].faulted,
         sent' = sent
  PROVE  StepOf(b)
  <1>1. r \in BoardState
    BY DEF Sound
  <1>2. Told(b, r, sent)
    BY DEF IInv, Told
  <1> QED
    BY <1>1, <1>2 DEF StepOf, IInv, NetworkOK

(* What SendOrders counts: one order for each accepting target. *)
LEMMA SendCounts ==
  ASSUME NetworkOK, NEW b \in Boards, NEW tried \in SUBSET Boards,
         NEW w \in SUBSET (Boards \X Boards), SendOrders(b, tried, w)
  PROVE  /\ wire' \subseteq Boards \X Boards
         /\ sent' \in [Boards \X Boards -> Nat]
         /\ \A c, p \in Boards : c # b => sent'[<<c, p>>] = sent[<<c, p>>]
         /\ \A p \in Boards : sent'[<<b, p>>] =
              sent[<<b, p>>] + IF p \in Accepting(b, tried) THEN 1 ELSE 0
  <1> DEFINE taken == {b} \X Accepting(b, tried)
  <1>1. Accepting(b, tried) \subseteq tried
    BY DEF Accepting
  <1>2. wire' = w \union taken
        /\ sent' = [link \in DOMAIN sent |-> sent[link] + IF link \in taken THEN 1 ELSE 0]
    BY DEF SendOrders
  <1>3. taken \subseteq Boards \X Boards
    BY <1>1
  <1>4. DOMAIN sent = Boards \X Boards /\ \A link \in Boards \X Boards : sent[link] \in Nat
    BY DEF NetworkOK
  <1>5. \A c, p \in Boards : <<c, p>> \in taken <=> c = b /\ p \in Accepting(b, tried)
    BY <1>1
  <1> HIDE DEF taken
  <1> QED
    BY <1>2, <1>3, <1>4, <1>5

(* request_fault keeps the board sound and tells each target once.         *)
LEMMA Requested ==
  ASSUME IInv, NEW b \in Boards, NEW r \in BoardState, NEW cause \in FaultCauseKind,
         NEW w \in SUBSET (Boards \X Boards),
         Sound(r), Told(b, r, sent), request_fault(b, r, cause, w)
  PROVE  StepOf(b) /\ wire' \subseteq Boards \X Boards
  <1> DEFINE moved == IF ~r.installed THEN r
                      ELSE IF r.runtime_started THEN EnterFault(r) ELSE RebuildAsFault(r)
             left == Owed(r.targets, Accepting(b, r.targets))
             q == [moved EXCEPT !.faulted = TRUE, !.cause = cause, !.pending = left]
  <1>1. CASE r.faulted
    <2>1. Becomes(b, r) /\ wire' = w /\ sent' = sent
      BY <1>1 DEF request_fault, AlreadyFaulted
    <2> QED
      BY <2>1 DEF StepOf, IInv, NetworkOK
  <1>2. CASE ~r.faulted
    <2>1. Becomes(b, q) /\ SendOrders(b, r.targets, w)
      BY <1>2 DEF request_fault, AlreadyFaulted
    <2>2. left \subseteq r.targets /\ r.targets \subseteq Boards
      BY DEF Owed, BoardState
    <2>3. Sound(q)
      <3>1. moved \in BoardState /\ moved.installed = r.installed /\ moved.targets = r.targets
            /\ moved.runtime_started = r.runtime_started
        <4>1. EnterFault(r) \in BoardState
          <5> DEFINE inside == r.at \in {"predicate", "exit", "enter"}
                     count == r.entered + 1
                     off == SwitchedOff(r)
          <5>1. off \in SUBSET OpStates /\ count \in Nat /\ inside \in BOOLEAN
            BY DEF BoardState, SwitchedOff
          <5>2. r.outer # "FAULT" =>
                  EnterFault(r) = [r EXCEPT !.on = off, !.outer = "FAULT", !.entered = count,
                                            !.crossed = inside]
            BY DEF EnterFault
          <5> HIDE DEF off, count, inside
          <5>3. [r EXCEPT !.on = off, !.outer = "FAULT", !.entered = count,
                          !.crossed = inside] \in BoardState
            BY <5>1, ZenonT(30) DEF BoardState
          <5> QED
            BY <5>2, <5>3 DEF EnterFault
        <4>2. RebuildAsFault(r) \in BoardState
          BY DEF RebuildAsFault, BoardState
        <4>3. /\ EnterFault(r).installed = r.installed /\ EnterFault(r).targets = r.targets
              /\ EnterFault(r).runtime_started = r.runtime_started
          BY DEF EnterFault, BoardState
        <4>4. /\ RebuildAsFault(r).installed = r.installed /\ RebuildAsFault(r).targets = r.targets
              /\ RebuildAsFault(r).runtime_started = r.runtime_started
          BY DEF RebuildAsFault, BoardState
        <4> QED
          BY <4>1, <4>2, <4>3, <4>4
      <3>2. moved.installed => moved.outer = "FAULT"
        BY DEF Sound, BoardState, EnterFault, RebuildAsFault
      <3>3. moved.entered = IF r.runtime_started THEN 1 ELSE 0
        BY <1>2 DEF Sound, BoardState, EnterFault, RebuildAsFault
      <3> HIDE DEF moved
      <3>4. q \in BoardState
        BY <2>2, <3>1 DEF BoardState, FaultCauseKind
      <3>5. /\ q.faulted /\ q.cause = cause /\ q.pending = left
            /\ q.targets = moved.targets /\ q.installed = moved.installed /\ q.outer = moved.outer
            /\ q.runtime_started = moved.runtime_started /\ q.entered = moved.entered
        BY <3>1 DEF BoardState
      <3>6. cause # "none"
        BY DEF FaultCauseKind
      <3> HIDE DEF q
      <3> QED
        BY <2>2, <3>1, <3>2, <3>3, <3>4, <3>5, <3>6 DEF Sound
    <2>4. q.faulted /\ q.pending = left
      BY <2>3 DEF EnterFault, RebuildAsFault, BoardState
    <2>5. /\ wire' \subseteq Boards \X Boards
          /\ sent' \in [Boards \X Boards -> Nat]
          /\ \A c, p \in Boards : c # b => sent'[<<c, p>>] = sent[<<c, p>>]
          /\ \A p \in Boards : sent'[<<b, p>>] =
               sent[<<b, p>>] + IF p \in Accepting(b, r.targets) THEN 1 ELSE 0
      BY <2>1, <2>2, SendCounts DEF IInv
    <2>6. \A p \in Boards : sent[<<b, p>>] = 0
      BY <1>2 DEF Told
    <2>7. Told(b, q, sent')
      BY <2>4, <2>5, <2>6 DEF Told, Owed
    <2> QED
      BY <2>1, <2>3, <2>5, <2>7 DEF StepOf, Sound
  <1> QED
    BY <1>1, <1>2
-----------------------------------------------------------------------------
LEMMA InitSound == Init => IInv
  <1> SUFFICES ASSUME Init PROVE IInv
    OBVIOUS
  <1>1. Sound(NewBoard)
    BY BoardAssumption DEF Sound, NewBoard, BoardState, FaultCauseKind
  <1>2. NewBoard.pending = {}
    BY DEF NewBoard
  <1>3. board = [b \in Boards |-> NewBoard] /\ sent = [link \in Boards \X Boards |-> 0]
    BY DEF Init
  <1>4. \A b \in Boards : Told(b, NewBoard, sent)
    BY <1>2, <1>3 DEF Told
  <1>5. NetworkOK
    BY <1>3 DEF Init, NetworkOK
  <1> QED
    BY <1>1, <1>3, <1>4, <1>5 DEF IInv, Sound

LEMMA StepSound == IInv /\ [Next]_vars => IInv'
  <1> SUFFICES ASSUME IInv, [Next]_vars PROVE IInv'
    OBVIOUS
  <1> USE DEF BoardState
  <1>0. ASSUME NEW b \in Boards, StepOf(b), up' \subseteq Links, wire' \subseteq Boards \X Boards,
               busy' = busy
        PROVE  IInv'
    BY <1>0, StepKeepsBoards DEF IInv, NetworkOK
  <1>a. ASSUME NEW b \in Boards
        PROVE  board[b] \in BoardState /\ Sound(board[b]) /\ Told(b, board[b], sent)
    BY DEF IInv
  <1>n. NetworkOK
    BY DEF IInv
  <1>1. ASSUME NEW b \in Boards, Install(b) PROVE IInv'
    <2> DEFINE r == board[b]
               q == [r EXCEPT !.installed = TRUE, !.cause = KeepCause(r),
                              !.outer = IF r.faulted THEN "FAULT" ELSE "OPERATIONAL",
                              !.targets = {}, !.pending = {}]
    <2>1. Becomes(b, q) /\ UNCHANGED <<up, wire, sent, busy>> /\ ~r.installed
      BY <1>1 DEF Install
    <2>2. Sound(q)
      <3>1. KeepCause(r) = r.cause
        BY <1>a DEF KeepCause, Sound, FaultCauseKind
      <3>2. q \in BoardState
        <4>1. r \in BoardState /\ r.cause \in FaultCauseKind \union {"none"}
          BY <1>a
        <4>2. KeepCause(r) \in FaultCauseKind \union {"none"}
          BY <3>1, <4>1
        <4>3. (IF r.faulted THEN "FAULT" ELSE "OPERATIONAL") \in {"OPERATIONAL", "FAULT"}
          OBVIOUS
        <4> HIDE DEF BoardState
        <4> QED
          BY <4>1, <4>2, <4>3, InstalledType
      <3>3. /\ q.installed /\ q.cause = r.cause /\ q.faulted = r.faulted /\ q.entered = r.entered
            /\ q.runtime_started = r.runtime_started /\ q.targets = {} /\ q.pending = {}
            /\ q.outer = IF r.faulted THEN "FAULT" ELSE "OPERATIONAL"
        BY <1>a, <3>1
      <3> HIDE DEF q
      <3> QED
        BY <1>a, <2>1, <3>2, <3>3 DEF Sound
    <2>3. q.pending = {} /\ q.faulted = r.faulted
      BY <1>a
    <2>4. StepOf(b)
      BY <2>1, <2>2, <2>3, SilentStep
    <2> QED
      BY <1>0, <1>n, <2>1, <2>4 DEF NetworkOK
  <1>2. ASSUME NEW b \in Boards, NEW p \in Boards, RegisterTarget(b, p) PROVE IInv'
    <2> DEFINE r == board[b]
               q == [r EXCEPT !.targets = @ \union {p}]
    <2>1. Becomes(b, q) /\ UNCHANGED <<up, wire, sent, busy>>
      BY <1>2 DEF RegisterTarget
    <2>2. Sound(q) /\ q.pending = r.pending /\ q.faulted = r.faulted
      BY <1>a DEF Sound
    <2>3. StepOf(b)
      BY <2>1, <2>2, SilentStep
    <2> QED
      BY <1>0, <1>n, <2>1, <2>3 DEF NetworkOK
  <1>3. ASSUME NEW b \in Boards, Start(b) PROVE IInv'
    <2> DEFINE r == board[b]
               q == IF r.outer = "FAULT"
                      THEN [r EXCEPT !.runtime_started = TRUE, !.entered = @ + 1]
                      ELSE [r EXCEPT !.runtime_started = TRUE, !.at = "enter", !.within = "start"]
    <2>1. Becomes(b, q) /\ UNCHANGED <<up, wire, sent, busy>> /\ r.installed /\ ~r.runtime_started
      BY <1>3 DEF Start
    <2>2. Sound(q) /\ q.pending = r.pending /\ q.faulted = r.faulted
      <3>1. CASE r.outer = "FAULT"
        <4>1. r.entered = 0 /\ r.faulted
          BY <1>a, <2>1, <3>1 DEF Sound
        <4>2. q = [r EXCEPT !.runtime_started = TRUE, !.entered = 1]
          BY <1>a, <3>1, <4>1
        <4> HIDE DEF q
        <4>3. q \in BoardState
          <5> HIDE DEF BoardState
          <5> QED
            BY <1>a, <4>2, StartedType
        <4>4. /\ q.installed = r.installed /\ q.runtime_started /\ q.faulted = r.faulted
              /\ q.cause = r.cause /\ q.outer = r.outer /\ q.entered = 1
              /\ q.targets = r.targets /\ q.pending = r.pending
          BY <1>a, <4>2
        <4> QED
          BY <1>a, <2>1, <4>1, <4>3, <4>4 DEF Sound
      <3>2. CASE r.outer # "FAULT"
        <4>1. q = [r EXCEPT !.runtime_started = TRUE, !.at = "enter", !.within = "start"]
          BY <3>2
        <4> HIDE DEF q
        <4>2. q \in BoardState
          <5> HIDE DEF BoardState
          <5> QED
            BY <1>a, <4>1, StartedType
        <4>3. /\ q.installed = r.installed /\ q.runtime_started /\ q.faulted = r.faulted
              /\ q.cause = r.cause /\ q.outer = r.outer /\ q.entered = r.entered
              /\ q.targets = r.targets /\ q.pending = r.pending
          BY <1>a, <4>1
        <4> QED
          BY <1>a, <2>1, <3>2, <4>2, <4>3 DEF Sound
      <3> QED
        BY <3>1, <3>2
    <2>3. StepOf(b)
      BY <2>1, <2>2, SilentStep
    <2> QED
      BY <1>0, <1>n, <2>1, <2>3 DEF NetworkOK
  <1>4. ASSUME NEW b \in Boards, NEW cause \in Causes, Fault(b, cause) PROVE IInv'
    <2>1. cause \in FaultCauseKind /\ request_fault(b, board[b], cause, wire) /\ up' = up /\ busy' = busy
      BY <1>4, BoardAssumption DEF Fault
    <2>2. StepOf(b) /\ wire' \subseteq Boards \X Boards
      BY <1>a, <1>n, <2>1, Requested DEF NetworkOK
    <2> QED
      BY <1>0, <1>n, <2>1, <2>2 DEF NetworkOK
  <1>5. ASSUME NEW b \in Boards, CheckTransitions(b) PROVE IInv'
    <2> DEFINE r == board[b]
               q == [r EXCEPT !.at = IF r.outer = "OPERATIONAL" THEN "predicate" ELSE "retry",
                              !.within = "check"]
    <2>1. Becomes(b, q) /\ UNCHANGED <<up, wire, sent, busy>>
      BY <1>5 DEF CheckTransitions
    <2>2. Sound(q) /\ q.pending = r.pending /\ q.faulted = r.faulted
      BY <1>a, ZenonT(30) DEF Sound
    <2>3. StepOf(b)
      BY <2>1, <2>2, SilentStep
    <2> QED
      BY <1>0, <1>n, <2>1, <2>3 DEF NetworkOK
  <1>6. ASSUME NEW b \in Boards, Predicates(b) PROVE IInv'
    <2> DEFINE r == board[b]
    <2>1. \/ Becomes(b, [r EXCEPT !.at = "retry"])
          \/ \E to \in OpStates \ {r.state} :
               Becomes(b, [r EXCEPT !.at = "exit", !.to = to, !.on = SwitchedOff(r)])
      BY <1>6 DEF Predicates
    <2>2. \E q : Becomes(b, q) /\ Sound(q) /\ q.pending = r.pending /\ q.faulted = r.faulted
      <3>1. CASE Becomes(b, [r EXCEPT !.at = "retry"])
        <4> DEFINE q == [r EXCEPT !.at = "retry"]
        <4>1. Sound(q) /\ q.pending = r.pending /\ q.faulted = r.faulted
          BY <1>a DEF Sound
        <4> QED
          BY <3>1, <4>1
      <3>2. ASSUME NEW to \in OpStates,
                   Becomes(b, [r EXCEPT !.at = "exit", !.to = to, !.on = SwitchedOff(r)])
            PROVE  \E q : Becomes(b, q) /\ Sound(q) /\ q.pending = r.pending /\ q.faulted = r.faulted
        <4> DEFINE q == [r EXCEPT !.at = "exit", !.to = to, !.on = SwitchedOff(r)]
        <4>1. SwitchedOff(r) \in SUBSET OpStates
          BY <1>a DEF SwitchedOff
        <4>2. q \in BoardState
          BY <1>a, <3>2, <4>1, ZenonT(30)
        <4>3. KeepsController(r, q)
          BY <1>a DEF KeepsController
        <4>4. Sound(q) /\ q.pending = r.pending /\ q.faulted = r.faulted
          BY <1>a, <4>2, <4>3, ControllerKept
        <4> QED
          BY <3>2, <4>4
      <3> QED
        BY <2>1, <3>1, <3>2
    <2>3. StepOf(b)
      BY <1>6, <2>2, SilentStep DEF Predicates
    <2> QED
      BY <1>0, <1>6, <1>n, <2>3 DEF NetworkOK, Predicates
  <1>7. ASSUME NEW b \in Boards, ExitActions(b) PROVE IInv'
    <2> DEFINE r == board[b]
               q == [r EXCEPT !.at = "enter", !.state = r.to]
    <2>1. Becomes(b, q) /\ UNCHANGED <<up, wire, sent, busy>>
      BY <1>7 DEF ExitActions
    <2>2. Sound(q) /\ q.pending = r.pending /\ q.faulted = r.faulted
      BY <1>a, ZenonT(30) DEF Sound
    <2>3. StepOf(b)
      BY <2>1, <2>2, SilentStep
    <2> QED
      BY <1>0, <1>n, <2>1, <2>3 DEF NetworkOK
  <1>8. ASSUME NEW b \in Boards, EnterActions(b) PROVE IInv'
    <2> DEFINE r == board[b]
               left == [r EXCEPT !.at = IF r.within = "check" THEN "retry" ELSE "idle"]
               q == [left EXCEPT !.on = IF r.state \in Timed THEN @ \union {r.state} ELSE @]
    <2>1. /\ up' = up /\ busy' = busy
          /\ \/ Becomes(b, q) /\ UNCHANGED <<wire, sent>>
             \/ request_fault(b, left, "PANIC", wire)
      BY <1>8 DEF EnterActions
    <2>2. Sound(left) /\ left.pending = r.pending /\ left.faulted = r.faulted
      BY <1>a DEF Sound
    <2>3. Sound(q) /\ q.pending = r.pending /\ q.faulted = r.faulted
      <3>1. r.on \union {r.state} \in SUBSET OpStates
        BY <1>a
      <3>2. q \in BoardState
        BY <2>2, <3>1, ZenonT(30) DEF Sound
      <3>3. KeepsController(r, q)
        BY <1>a DEF KeepsController
      <3> HIDE DEF q
      <3> QED
        BY <1>a, <3>2, <3>3, ControllerKept
    <2>4. Told(b, left, sent)
      BY <1>a, <2>2 DEF Told
    <2>5. CASE Becomes(b, q) /\ UNCHANGED <<wire, sent>>
      <3>1. StepOf(b)
        BY <2>3, <2>5, SilentStep
      <3> QED
        BY <1>0, <1>n, <2>1, <2>5, <3>1 DEF NetworkOK
    <2>6. CASE request_fault(b, left, "PANIC", wire)
      <3>1. left \in BoardState /\ "PANIC" \in FaultCauseKind
        BY <2>2 DEF Sound, FaultCauseKind
      <3>2. StepOf(b) /\ wire' \subseteq Boards \X Boards
        BY <1>n, <2>2, <2>4, <2>6, <3>1, Requested DEF NetworkOK
      <3> QED
        BY <1>0, <1>n, <2>1, <3>2 DEF NetworkOK
    <2> QED
      BY <2>1, <2>5, <2>6
  <1>9. ASSUME NEW b \in Boards, Retry(b) PROVE IInv'
    <2> DEFINE r == board[b]
               tried == DueNow(r)
               q == [r EXCEPT !.at = "idle", !.retry_due = @ /\ ~r.faulted,
                              !.pending = Owed(@, Accepting(b, tried))]
    <2>1. Becomes(b, q) /\ SendOrders(b, tried, wire) /\ up' = up /\ busy' = busy
      BY <1>9 DEF Retry
    <2>2. tried \subseteq r.pending /\ r.pending \subseteq Boards
      BY <1>a DEF DueNow
    <2>4. q.pending = r.pending \ Accepting(b, tried)
      BY <1>a DEF Owed
    <2>3. Sound(q) /\ q.faulted = r.faulted
      <3>1. q \in BoardState
        <4>1. r \in BoardState /\ (r.retry_due /\ ~r.faulted) \in BOOLEAN
          BY <1>a
        <4>2. Owed(r.pending, Accepting(b, tried)) \in SUBSET Boards
          BY <2>2 DEF Owed
        <4> HIDE DEF BoardState
        <4> QED
          BY <4>1, <4>2, PolledType
      <3>2. /\ q.installed = r.installed /\ q.runtime_started = r.runtime_started
            /\ q.faulted = r.faulted /\ q.cause = r.cause /\ q.outer = r.outer
            /\ q.entered = r.entered /\ q.targets = r.targets
        BY <1>a
      <3> HIDE DEF q
      <3> QED
        BY <1>a, <2>4, <3>1, <3>2 DEF Sound
    <2>5. /\ wire' \subseteq Boards \X Boards
          /\ sent' \in [Boards \X Boards -> Nat]
          /\ \A c, p \in Boards : c # b => sent'[<<c, p>>] = sent[<<c, p>>]
          /\ \A p \in Boards : sent'[<<b, p>>] =
               sent[<<b, p>>] + IF p \in Accepting(b, tried) THEN 1 ELSE 0
      BY <1>n, <2>1, <2>2, SendCounts DEF NetworkOK
    <2>6. Accepting(b, tried) \subseteq r.pending
      BY <2>2 DEF Accepting
    <2>7. Told(b, q, sent')
      BY <1>a, <1>n, <2>3, <2>4, <2>5, <2>6 DEF Told, NetworkOK
    <2>8. StepOf(b)
      BY <2>1, <2>3, <2>5, <2>7, ZenonT(30) DEF StepOf, Sound
    <2> QED
      BY <1>0, <1>n, <2>1, <2>5, <2>8 DEF NetworkOK
  <1>10. ASSUME NEW b \in Boards, PeriodElapses(b) PROVE IInv'
    <2> DEFINE r == board[b]
               q == [r EXCEPT !.retry_due = TRUE]
    <2>1. Becomes(b, q) /\ UNCHANGED <<up, wire, sent, busy>>
      BY <1>10 DEF PeriodElapses
    <2>2. Sound(q) /\ q.pending = r.pending /\ q.faulted = r.faulted
      BY <1>a, ZenonT(30) DEF Sound
    <2>3. StepOf(b)
      BY <2>1, <2>2, SilentStep
    <2> QED
      BY <1>0, <1>n, <2>1, <2>3 DEF NetworkOK
  <1>11. ASSUME NEW from \in Boards, NEW to \in Boards, Arrive(from, to) PROVE IInv'
    <2> DEFINE rest == wire \ {<<from, to>>}
    <2>1. rest \subseteq Boards \X Boards /\ up' = up /\ busy' = busy
      BY <1>11, <1>n DEF Arrive, NetworkOK
    <2>2. CASE wire' = rest /\ UNCHANGED <<board, sent, busy>>
      BY <1>n, <2>1, <2>2 DEF IInv, NetworkOK, Told
    <2>3. CASE request_fault(to, board[to], "RUNTIME_FAULT", rest)
      <3>1. StepOf(to) /\ wire' \subseteq Boards \X Boards
        BY <1>a, <2>1, <2>3, Requested DEF FaultCauseKind
      <3> QED
        BY <1>0, <1>n, <2>1, <3>1 DEF NetworkOK
    <2> QED
      BY <1>11, <2>2, <2>3 DEF Arrive
  <1>12. ASSUME NEW link \in Links, Connect(link) \/ Break(link) PROVE IInv'
    BY <1>12, <1>n DEF Connect, Break, IInv, NetworkOK, Told
  <1>13. CASE UNCHANGED vars
    BY <1>13 DEF vars, IInv, NetworkOK, Told
  <1>14. ASSUME NEW b \in Boards, ApplicationTasks(b) PROVE IInv'
    BY <1>14, <1>n DEF ApplicationTasks, IInv, NetworkOK, Told
  <1> QED
    BY <1>1, <1>2, <1>3, <1>4, <1>5, <1>6, <1>7, <1>8, <1>9, <1>10, <1>11, <1>12, <1>13, <1>14
    DEF Next, Runtime, Loop

THEOREM AlwaysSound == Spec => []IInv
  BY InitSound, StepSound, PTL DEF Spec

(* Every static of every board and the network's state stay in range, for  *)
(* any number of boards, links, states and targets.                        *)
THEOREM TypeCorrect == Spec => []TypeOK
  <1>1. IInv => TypeOK
    BY DEF IInv, NetworkOK, TypeOK, Sound
  <1> QED
    BY <1>1, AlwaysSound, PTL

(* FAULT is entered exactly once by a board that faults, on whichever of   *)
(* the four paths of request_fault, install_runtime and start.             *)
THEOREM FaultIsEnteredOnce == Spec => []FaultEnteredOnce
  <1>1. IInv => FaultEnteredOnce
    BY DEF IInv, Sound, FaultEnteredOnce
  <1> QED
    BY <1>1, AlwaysSound, PTL

(* Both together: the record of every board is consistent at every moment  *)
(* of every execution, and FAULT is entered once.                          *)
THEOREM FaultHasOneEntry == Spec => []FaultIsEntered
  <1>1. TypeOK /\ FaultEnteredOnce => FaultIsEntered
    BY DEF FaultIsEntered
  <1> QED
    BY <1>1, TypeCorrect, FaultIsEnteredOnce, PTL

(* No peer is sent the FAULT order twice, and no pending one was sent it,  *)
(* for any topology and any sequence of breaks and reconnections.          *)
THEOREM PeersAreToldOnce == Spec => []OneOrderPerPeer
  <1>1. IInv => OneOrderPerPeer
    BY DEF IInv, Told, OneOrderPerPeer
  <1> QED
    BY <1>1, AlwaysSound, PTL
-----------------------------------------------------------------------------
(* What a step may not do to the record of a board that has faulted. *)
Latched(r, q) == r.faulted => q.faulted /\ q.cause = r.cause

LEMMA RequestLatches ==
  ASSUME NEW b \in Boards, NEW r \in BoardState, NEW cause, NEW w,
         request_fault(b, r, cause, w)
  PROVE  \E q : Becomes(b, q) /\ Latched(r, q)
  <1>1. CASE r.faulted
    BY <1>1 DEF request_fault, AlreadyFaulted, Latched
  <1>2. CASE ~r.faulted
    BY <1>2 DEF request_fault, AlreadyFaulted, Latched
  <1> QED
    BY <1>1, <1>2

LEMMA StepLatches ==
  ASSUME IInv, [Next]_vars
  PROVE  \A b \in Boards : Latched(board[b], board'[b])
  <1>0. ASSUME NEW b \in Boards, NEW q, Becomes(b, q), Latched(board[b], q)
        PROVE  \A c \in Boards : Latched(board[c], board'[c])
    <2>1. board \in [Boards -> BoardState]
      BY DEF IInv
    <2> QED
      BY <1>0, <2>1 DEF Becomes, Latched
  <1>a. \A b \in Boards : board[b] \in BoardState
    BY DEF IInv
  <1>1. ASSUME NEW b \in Boards, Install(b) PROVE \E q : Becomes(b, q) /\ Latched(board[b], q)
    <2> DEFINE r == board[b]
               q == [r EXCEPT !.installed = TRUE, !.cause = KeepCause(r),
                              !.outer = IF r.faulted THEN "FAULT" ELSE "OPERATIONAL",
                              !.targets = {}, !.pending = {}]
    <2>1. Becomes(b, q)
      BY <1>1 DEF Install
    <2>2. Latched(r, q)
      BY <1>a DEF Latched, BoardState, KeepCause
    <2> HIDE DEF q
    <2> QED
      BY <2>1, <2>2
  <1>2. ASSUME NEW b \in Boards, NEW p \in Boards, RegisterTarget(b, p)
        PROVE  \E q : Becomes(b, q) /\ Latched(board[b], q)
    BY <1>2, <1>a DEF RegisterTarget, Latched, BoardState
  <1>3. ASSUME NEW b \in Boards, Start(b) PROVE \E q : Becomes(b, q) /\ Latched(board[b], q)
    <2> DEFINE r == board[b]
               q == IF r.outer = "FAULT"
                      THEN [r EXCEPT !.runtime_started = TRUE, !.entered = @ + 1]
                      ELSE [r EXCEPT !.runtime_started = TRUE, !.at = "enter", !.within = "start"]
    <2>1. Becomes(b, q)
      BY <1>3 DEF Start
    <2>2. Latched(r, q)
      BY <1>a DEF Latched, BoardState
    <2> HIDE DEF q
    <2> QED
      BY <2>1, <2>2
  <1>4. ASSUME NEW b \in Boards, NEW cause \in Causes, Fault(b, cause)
        PROVE  \E q : Becomes(b, q) /\ Latched(board[b], q)
    BY <1>4, <1>a, RequestLatches DEF Fault
  <1>5. ASSUME NEW b \in Boards, CheckTransitions(b)
        PROVE  \E q : Becomes(b, q) /\ Latched(board[b], q)
    <2> DEFINE r == board[b]
               q == [r EXCEPT !.at = IF r.outer = "OPERATIONAL" THEN "predicate" ELSE "retry",
                              !.within = "check"]
    <2>1. Becomes(b, q)
      BY <1>5 DEF CheckTransitions
    <2>2. Latched(r, q)
      BY <1>a DEF Latched, BoardState
    <2> HIDE DEF q
    <2> QED
      BY <2>1, <2>2
  <1>6. ASSUME NEW b \in Boards, Predicates(b) PROVE \E q : Becomes(b, q) /\ Latched(board[b], q)
    <2> DEFINE r == board[b]
               stay == [r EXCEPT !.at = "retry"]
               leave(to) == [r EXCEPT !.at = "exit", !.to = to, !.on = SwitchedOff(r)]
    <2>1. Becomes(b, stay) \/ \E to \in OpStates : Becomes(b, leave(to))
      BY <1>6 DEF Predicates
    <2>2. Latched(r, stay) /\ \A to \in OpStates : Latched(r, leave(to))
      BY <1>a DEF Latched, BoardState
    <2> HIDE DEF stay, leave
    <2> QED
      BY <2>1, <2>2
  <1>7. ASSUME NEW b \in Boards, ExitActions(b) PROVE \E q : Becomes(b, q) /\ Latched(board[b], q)
    <2> DEFINE r == board[b]
               q == [r EXCEPT !.at = "enter", !.state = r.to]
    <2>1. Becomes(b, q)
      BY <1>7 DEF ExitActions
    <2>2. Latched(r, q)
      BY <1>a DEF Latched, BoardState
    <2> HIDE DEF q
    <2> QED
      BY <2>1, <2>2
  <1>8. ASSUME NEW b \in Boards, EnterActions(b)
        PROVE  \E q : Becomes(b, q) /\ Latched(board[b], q)
    <2> DEFINE r == board[b]
               left == [r EXCEPT !.at = IF r.within = "check" THEN "retry" ELSE "idle"]
               done == [left EXCEPT !.on = IF r.state \in Timed THEN @ \union {r.state} ELSE @]
    <2>1. Becomes(b, done) \/ request_fault(b, left, "PANIC", wire)
      BY <1>8 DEF EnterActions
    <2>2. left \in BoardState /\ left.faulted = r.faulted /\ left.cause = r.cause
      BY <1>a DEF BoardState
    <2>3. Latched(r, done)
      BY <1>a DEF Latched, BoardState
    <2>4. ASSUME request_fault(b, left, "PANIC", wire)
          PROVE  \E q : Becomes(b, q) /\ Latched(r, q)
      <3> HIDE DEF left
      <3> QED
        BY <2>2, <2>4, RequestLatches DEF Latched
    <2> QED
      BY <2>1, <2>3, <2>4
  <1>9. ASSUME NEW b \in Boards, Retry(b) PROVE \E q : Becomes(b, q) /\ Latched(board[b], q)
    <2> DEFINE r == board[b]
               q == [r EXCEPT !.at = "idle", !.retry_due = @ /\ ~r.faulted,
                              !.pending = Owed(@, Accepting(b, DueNow(r)))]
    <2>1. Becomes(b, q)
      BY <1>9 DEF Retry
    <2>2. Latched(r, q)
      BY <1>a DEF Latched, BoardState
    <2> HIDE DEF q
    <2> QED
      BY <2>1, <2>2
  <1>10. ASSUME NEW b \in Boards, PeriodElapses(b)
         PROVE  \E q : Becomes(b, q) /\ Latched(board[b], q)
    BY <1>10, <1>a DEF PeriodElapses, Latched, BoardState
  <1>11. ASSUME NEW from \in Boards, NEW to \in Boards, Arrive(from, to)
         PROVE  \A c \in Boards : Latched(board[c], board'[c])
    <2>1. CASE UNCHANGED board
      BY <2>1 DEF Latched
    <2>2. CASE request_fault(to, board[to], "RUNTIME_FAULT", wire \ {<<from, to>>})
      BY <1>0, <1>a, <2>2, RequestLatches
    <2> QED
      BY <1>11, <2>1, <2>2 DEF Arrive
  <1>12. ASSUME UNCHANGED board PROVE \A c \in Boards : Latched(board[c], board'[c])
    BY <1>12 DEF Latched
  <1> QED
    <2>1. ASSUME NEW b \in Boards, Runtime(b) \/ Loop(b) \/ PeriodElapses(b)
          PROVE  \E q : Becomes(b, q) /\ Latched(board[b], q)
      BY <1>1, <1>2, <1>3, <1>4, <1>5, <1>6, <1>7, <1>8, <1>9, <1>10, <2>1 DEF Runtime, Loop
    <2>2. ASSUME NEW link \in Links, Connect(link) \/ Break(link) PROVE UNCHANGED board
      BY <2>2 DEF Connect, Break
    <2>3. /\ UNCHANGED vars => UNCHANGED board
          /\ \A b \in Boards : ApplicationTasks(b) => UNCHANGED board
      BY DEF vars, ApplicationTasks
    <2> QED
      BY <1>0, <1>11, <1>12, <2>1, <2>2, <2>3 DEF Next

(* The first cause of a fault stays latched, whatever the application, the *)
(* other boards and the network do later.                                  *)
THEOREM FirstCauseIsKept == Spec => FirstCauseKept
  <1>1. IInv /\ [Next]_vars =>
          [\A b \in Boards : board[b].faulted =>
             board'[b].faulted /\ board'[b].cause = board[b].cause]_vars
    BY StepLatches DEF Latched
  <1> QED
    BY <1>1, AlwaysSound, PTL DEF Spec, FirstCauseKept
-----------------------------------------------------------------------------
(* Which cyclic actions are registered at each point of a state change,    *)
(* when FAULT was or was not entered in the middle of one.                 *)
Calm(r) ==
  /\ r.on \subseteq {r.state}
  /\ r.outer = "FAULT" /\ ~r.crossed => r.on = {}
  /\ ~r.runtime_started => r.on = {} /\ r.at = "idle"
  /\ r.at \in {"exit", "enter"} => r.on = {}
  /\ r.at \in {"predicate", "exit", "enter"} => r.outer = "OPERATIONAL" \/ r.crossed

CalmStep(b) == \E q : Becomes(b, q) /\ Calm(q)

LEMMA RequestIsCalm ==
  ASSUME NEW b \in Boards, NEW r \in BoardState, NEW cause, NEW w,
         Calm(r), request_fault(b, r, cause, w)
  PROVE  CalmStep(b)
  <1> DEFINE moved == IF ~r.installed THEN r
                      ELSE IF r.runtime_started THEN EnterFault(r) ELSE RebuildAsFault(r)
             left == Owed(r.targets, Accepting(b, r.targets))
             q == [moved EXCEPT !.faulted = TRUE, !.cause = cause, !.pending = left]
  <1>1. CASE r.faulted
    BY <1>1 DEF request_fault, AlreadyFaulted, CalmStep
  <1>2. CASE ~r.faulted
    <2>1. Becomes(b, q)
      BY <1>2 DEF request_fault, AlreadyFaulted
    <2>2. moved.at = r.at /\ moved.state = r.state /\ moved.runtime_started = r.runtime_started
      BY DEF EnterFault, RebuildAsFault, BoardState
    <2>3. moved.on \subseteq r.on
      BY DEF EnterFault, RebuildAsFault, SwitchedOff, BoardState
    <2>4. /\ moved.outer = "FAULT" /\ ~moved.crossed => moved.on = {}
          /\ moved.at \in {"predicate", "exit", "enter"} =>
               moved.outer = "OPERATIONAL" \/ moved.crossed
      <3>1. CASE moved = r
        BY <3>1 DEF Calm
      <3>2. CASE moved = EnterFault(r) /\ r.outer # "FAULT"
        <4>1. r.on \ {r.state} = {}
          BY DEF Calm
        <4>2. EnterFault(r).on = {}
          BY <3>2, <4>1 DEF EnterFault, SwitchedOff, BoardState
        <4>3. /\ EnterFault(r).at = r.at
              /\ EnterFault(r).crossed = (r.at \in {"predicate", "exit", "enter"})
          BY <3>2 DEF EnterFault, BoardState
        <4> HIDE DEF moved
        <4> QED
          BY <3>2, <4>2, <4>3
      <3>3. CASE r.installed /\ ~r.runtime_started /\ moved = RebuildAsFault(r)
        BY <3>3 DEF Calm, RebuildAsFault, BoardState
      <3> QED
        BY <3>1, <3>2, <3>3 DEF EnterFault
    <2>5. /\ q.at = moved.at /\ q.state = moved.state /\ q.on = moved.on /\ q.outer = moved.outer
          /\ q.runtime_started = moved.runtime_started /\ q.crossed = moved.crossed
      BY DEF EnterFault, RebuildAsFault, BoardState
    <2> HIDE DEF moved, q
    <2>6. Calm(q)
      BY <2>2, <2>3, <2>4, <2>5 DEF Calm
    <2> QED
      BY <2>1, <2>6 DEF CalmStep
  <1> QED
    BY <1>1, <1>2

LEMMA StepIsCalm ==
  ASSUME IInv, \A b \in Boards : Calm(board[b]), [Next]_vars
  PROVE  \A b \in Boards : Calm(board'[b])
  <1>0. ASSUME NEW b \in Boards, CalmStep(b)
        PROVE  \A c \in Boards : Calm(board'[c])
    <2>1. board \in [Boards -> BoardState]
      BY DEF IInv
    <2> QED
      BY <1>0, <2>1 DEF CalmStep, Becomes
  <1>a. \A b \in Boards : board[b] \in BoardState /\ Sound(board[b]) /\ Calm(board[b])
    BY DEF IInv
  <1>1. ASSUME NEW b \in Boards, Install(b) PROVE CalmStep(b)
    <2> DEFINE r == board[b]
               q == [r EXCEPT !.installed = TRUE, !.cause = KeepCause(r),
                              !.outer = IF r.faulted THEN "FAULT" ELSE "OPERATIONAL",
                              !.targets = {}, !.pending = {}]
    <2>1. Becomes(b, q) /\ ~r.installed
      BY <1>1 DEF Install
    <2>2. r.on = {} /\ r.at = "idle"
      BY <1>a, <2>1 DEF Sound, Calm
    <2>3. q.on = r.on /\ q.at = r.at
      BY <1>a DEF BoardState
    <2> HIDE DEF q
    <2> QED
      BY <2>1, <2>2, <2>3 DEF Calm, CalmStep
  <1>2. ASSUME NEW b \in Boards, NEW p \in Boards, RegisterTarget(b, p) PROVE CalmStep(b)
    <2> DEFINE r == board[b]
               q == [r EXCEPT !.targets = @ \union {p}]
    <2>1. Becomes(b, q)
      BY <1>2 DEF RegisterTarget
    <2>2. Calm(q)
      BY <1>a DEF Calm, BoardState
    <2> QED
      BY <2>1, <2>2 DEF CalmStep
  <1>3. ASSUME NEW b \in Boards, Start(b) PROVE CalmStep(b)
    <2> DEFINE r == board[b]
               inFault == [r EXCEPT !.runtime_started = TRUE, !.entered = @ + 1]
               inStart == [r EXCEPT !.runtime_started = TRUE, !.at = "enter", !.within = "start"]
    <2>1. /\ Becomes(b, IF r.outer = "FAULT" THEN inFault ELSE inStart)
          /\ ~r.runtime_started
      BY <1>3 DEF Start
    <2>2. r.on = {} /\ r.at = "idle" /\ (r.outer = "FAULT" \/ r.outer = "OPERATIONAL")
      BY <1>a, <2>1 DEF Calm, BoardState
    <2>3. CASE r.outer = "FAULT"
      <3>1. Calm(inFault)
        BY <1>a, <2>2 DEF Calm, BoardState
      <3> QED
        BY <2>1, <2>3, <3>1 DEF CalmStep
    <2>4. CASE r.outer = "OPERATIONAL"
      <3>1. Calm(inStart)
        BY <1>a, <2>2, <2>4 DEF Calm, BoardState
      <3> QED
        BY <2>1, <2>4, <3>1 DEF CalmStep
    <2> QED
      BY <2>2, <2>3, <2>4
  <1>4. ASSUME NEW b \in Boards, NEW cause \in Causes, Fault(b, cause) PROVE CalmStep(b)
    BY <1>4, <1>a, RequestIsCalm DEF Fault
  <1>5. ASSUME NEW b \in Boards, CheckTransitions(b) PROVE CalmStep(b)
    <2> DEFINE r == board[b]
               q == [r EXCEPT !.at = IF r.outer = "OPERATIONAL" THEN "predicate" ELSE "retry",
                              !.within = "check"]
    <2>1. Becomes(b, q) /\ r.runtime_started
      BY <1>5 DEF CheckTransitions
    <2>2. Calm(q)
      BY <1>a, <2>1 DEF Calm, BoardState
    <2> QED
      BY <2>1, <2>2 DEF CalmStep
  <1>6. ASSUME NEW b \in Boards, Predicates(b) PROVE CalmStep(b)
    <2> DEFINE r == board[b]
               stay == [r EXCEPT !.at = "retry"]
               leave(to) == [r EXCEPT !.at = "exit", !.to = to, !.on = SwitchedOff(r)]
    <2>1. /\ r.at = "predicate"
          /\ Becomes(b, stay) \/ \E to \in OpStates : Becomes(b, leave(to))
      BY <1>6 DEF Predicates
    <2>2. r.runtime_started /\ (r.outer = "OPERATIONAL" \/ r.crossed) /\ SwitchedOff(r) = {}
      BY <1>a, <2>1 DEF Calm, SwitchedOff
    <2>3. Calm(stay)
      BY <1>a, <2>2 DEF Calm, BoardState
    <2>4. ASSUME NEW to \in OpStates PROVE Calm(leave(to))
      <3>1. /\ leave(to).on = {} /\ leave(to).at = "exit" /\ leave(to).runtime_started
            /\ leave(to).outer = "OPERATIONAL" \/ leave(to).crossed
        BY <1>a, <2>2 DEF BoardState
      <3> HIDE DEF leave
      <3> QED
        BY <3>1 DEF Calm
    <2> HIDE DEF stay, leave
    <2> QED
      BY <2>1, <2>3, <2>4 DEF CalmStep
  <1>7. ASSUME NEW b \in Boards, ExitActions(b) PROVE CalmStep(b)
    <2> DEFINE r == board[b]
               q == [r EXCEPT !.at = "enter", !.state = r.to]
    <2>1. Becomes(b, q) /\ r.at = "exit"
      BY <1>7 DEF ExitActions
    <2>2. Calm(q)
      BY <1>a, <2>1 DEF Calm, BoardState
    <2> QED
      BY <2>1, <2>2 DEF CalmStep
  <1>8. ASSUME NEW b \in Boards, EnterActions(b) PROVE CalmStep(b)
    <2> DEFINE r == board[b]
               left == [r EXCEPT !.at = IF r.within = "check" THEN "retry" ELSE "idle"]
               done == [left EXCEPT !.on = IF r.state \in Timed THEN @ \union {r.state} ELSE @]
    <2>1. /\ r.at = "enter"
          /\ Becomes(b, done) \/ request_fault(b, left, "PANIC", wire)
      BY <1>8 DEF EnterActions
    <2>2. r.runtime_started /\ r.on = {} /\ (r.outer = "OPERATIONAL" \/ r.crossed)
      BY <1>a, <2>1 DEF Calm
    <2>3. left \in BoardState /\ left.at \in {"idle", "retry"} /\ left.on = {}
          /\ left.outer = r.outer /\ left.crossed = r.crossed
          /\ left.runtime_started /\ left.state = r.state
      BY <1>a, <2>2 DEF BoardState
    <2>4. done.on \subseteq {r.state} /\ done.at = left.at /\ done.outer = left.outer /\ done.crossed = left.crossed
          /\ done.runtime_started = left.runtime_started /\ done.state = left.state
      BY <1>a, <2>2 DEF BoardState
    <2> HIDE DEF left, done
    <2>5. Calm(left) /\ Calm(done)
      BY <2>2, <2>3, <2>4 DEF Calm
    <2> QED
      BY <2>1, <2>3, <2>5, RequestIsCalm DEF CalmStep
  <1>9. ASSUME NEW b \in Boards, Retry(b) PROVE CalmStep(b)
    <2> DEFINE r == board[b]
               q == [r EXCEPT !.at = "idle", !.retry_due = @ /\ ~r.faulted,
                              !.pending = Owed(@, Accepting(b, DueNow(r)))]
    <2>1. Becomes(b, q)
      BY <1>9 DEF Retry
    <2>2. Calm(q)
      BY <1>a DEF Calm, BoardState
    <2> QED
      BY <2>1, <2>2 DEF CalmStep
  <1>10. ASSUME NEW b \in Boards, PeriodElapses(b) PROVE CalmStep(b)
    <2> DEFINE r == board[b]
               q == [r EXCEPT !.retry_due = TRUE]
    <2>1. Becomes(b, q)
      BY <1>10 DEF PeriodElapses
    <2>2. Calm(q)
      BY <1>a DEF Calm, BoardState
    <2> QED
      BY <2>1, <2>2 DEF CalmStep
  <1>11. ASSUME NEW from \in Boards, NEW to \in Boards, Arrive(from, to)
         PROVE  \A c \in Boards : Calm(board'[c])
    <2>1. CASE UNCHANGED board
      BY <1>a, <2>1
    <2>2. CASE request_fault(to, board[to], "RUNTIME_FAULT", wire \ {<<from, to>>})
      <3>2. CalmStep(to)
        BY <1>a, <2>2, RequestIsCalm
      <3> QED
        BY <1>0, <3>2
    <2> QED
      BY <1>11, <2>1, <2>2 DEF Arrive
  <1> QED
    <2>1. ASSUME NEW b \in Boards, Runtime(b) \/ Loop(b) \/ PeriodElapses(b) PROVE CalmStep(b)
      BY <1>1, <1>2, <1>3, <1>4, <1>5, <1>6, <1>7, <1>8, <1>9, <1>10, <2>1 DEF Runtime, Loop
    <2>2. ASSUME NEW link \in Links, Connect(link) \/ Break(link) PROVE UNCHANGED board
      BY <2>2 DEF Connect, Break
    <2>3. /\ UNCHANGED vars => UNCHANGED board
          /\ \A b \in Boards : ApplicationTasks(b) => UNCHANGED board
      BY DEF vars, ApplicationTasks
    <2>4. UNCHANGED board => \A b \in Boards : Calm(board'[b])
      BY <1>a
    <2> QED
      BY <1>0, <1>11, <2>1, <2>2, <2>3, <2>4 DEF Next

(* For any machine and any connections: FAULT leaves none of its cyclic    *)
(* actions registered, and at most those of one state when it was entered  *)
(* from the machine's own predicates or actions.                           *)
THEOREM ActionsStopInFault == Spec => []OnlyCurrentActionsRun
  <1> DEFINE CalmInv == \A b \in Boards : Calm(board[b])
  <1>1. Init => CalmInv
    BY DEF Init, NewBoard, Calm
  <1>2. IInv /\ CalmInv /\ [Next]_vars => CalmInv'
    BY StepIsCalm
  <1>3. CalmInv => OnlyCurrentActionsRun
    BY DEF Calm, OnlyCurrentActionsRun
  <1> HIDE DEF CalmInv
  <1> QED
    BY <1>1, <1>2, <1>3, AlwaysSound, PTL DEF Spec

-----------------------------------------------------------------------------
(* Protections. *)

(* The state of an accumulation rule is that of its accumulated times, and *)
(* those are measured from the last sample not above the threshold, which  *)
(* is no later than the first above it.                                    *)
RuleOK(p, i) ==
  LET rule == Declared[p][i]
      r == rules[p][i]
  IN
  /\ r.last_tick_us <= tick
  /\ r.has_last_tick \/ since_tick[p][i] # Never => rule.kind = "TIME_ACCUMULATION"
  /\ rule.kind = "TIME_ACCUMULATION" =>
    IF r.has_last_tick
      THEN /\ r.last_tick_us = read_at[p].tick
           /\ cleared[p][i] \in 0..r.last_tick_us
           /\ r.fault_active_time_us = r.last_tick_us - cleared[p][i]
           /\ r.last_state = AccumulatedState(rule, r)
           /\ IF since_tick[p][i] = Never
                THEN cleared[p][i] = r.last_tick_us
                ELSE since_tick[p][i] \in cleared[p][i]..r.last_tick_us
      ELSE /\ r.last_state = "NORMAL" /\ r.fault_active_time_us = 0
           /\ cleared[p][i] = Never /\ since_tick[p][i] = Never

(* The histories of a protection's requests against its throttle.          *)
RequestOK(p) ==
  /\ requested[p] = Never => last_fault_publish_tick[p] = 0
  /\ requested[p] # Never => last_fault_publish_tick[p] = requested[p] /\ faulted
  /\ InFault(p) => requested[p] # Never /\ read_at[p].tick - requested[p] < notify_delay

ProtInv ==
  /\ ProtTypeOK
  /\ \A p \in Prots : RequestOK(p)
  /\ \A p \in Prots : \A i \in RulesOf(p) : RuleOK(p, i)
-----------------------------------------------------------------------------
LEMMA DeclaredRules ==
  /\ Prots = 1..Len(Declared) /\ Len(Declared) \in Nat \ {0} /\ 1 \in Prots
  /\ \A p \in Prots :
       /\ RulesOf(p) = 1..Len(Declared[p]) /\ Len(Declared[p]) \in Nat
       /\ \A i \in RulesOf(p) : /\ Declared[p][i] \in RuleDefinition
                                /\ Declared[p][i].window \in Nat \ {0}
  <1>1. Prots = 1..Len(Declared) /\ Len(Declared) \in Nat /\ Declared # <<>>
    BY RulesAssumption DEF Prots
  <1>2. Len(Declared) # 0
    BY <1>1, RulesAssumption
  <1>3. ASSUME NEW p \in Prots
        PROVE  /\ RulesOf(p) = 1..Len(Declared[p]) /\ Len(Declared[p]) \in Nat
               /\ \A i \in RulesOf(p) : /\ Declared[p][i] \in RuleDefinition
                                        /\ Declared[p][i].window \in Nat \ {0}
    <2>1. Declared[p] \in Seq(RuleDefinition)
      BY <1>1, RulesAssumption DEF Prots
    <2>2. \A i \in RulesOf(p) : Valid(Declared[p][i])
      BY RulesAssumption DEF Prots, RulesOf
    <2> QED
      BY <2>1, <2>2 DEF RulesOf, Valid
  <1> QED
    BY <1>1, <1>2, <1>3

(* What a rule remembers after a sample: never less than it should.        *)
LEMMA EvaluateType ==
  ASSUME NEW rule \in RuleDefinition, NEW r \in RuleMemory, NEW sample,
         tick \in Nat, r.last_tick_us <= tick
  PROVE  Evaluate(rule, r, sample) \in RuleMemory
  <1>1. CASE rule.kind # "TIME_ACCUMULATION"
    <2>1. Compare(rule, sample) \in RuleState
      BY DEF Compare, RuleState
    <2> QED
      BY <1>1, <2>1 DEF Evaluate, RuleMemory
  <1>2. CASE rule.kind = "TIME_ACCUMULATION"
    <2> DEFINE next == Accumulate(rule, r, sample)
    <2>1. \A time, elapsed \in Nat : \A active : Accumulated(time, active, elapsed) \in Nat
      BY DEF Accumulated
    <2>2. (IF r.has_last_tick THEN tick - r.last_tick_us ELSE 0) \in Nat
      BY DEF RuleMemory
    <2>3. next \in RuleMemory
      BY <2>1, <2>2 DEF Accumulate, RuleMemory
    <2>4. AccumulatedState(rule, next) \in RuleState
      BY DEF AccumulatedState, RuleState
    <2> QED
      BY <1>2, <2>3, <2>4 DEF Evaluate, RuleMemory
  <1> QED
    BY <1>1, <1>2

(* Functions of a protection and a rule: all alike, and changed at one.    *)
LEMMA ForEachType ==
  ASSUME NEW S, NEW value \in S
  PROVE  PerRule(S, ForEachRule(value))
  BY DEF PerRule, ForEachRule

LEMMA ChangedType ==
  ASSUME NEW S, NEW f, PerRule(S, f), NEW p \in Prots, NEW g \in [RulesOf(p) -> S]
  PROVE  PerRule(S, [f EXCEPT ![p] = g])
  <1>1. DOMAIN [f EXCEPT ![p] = g] = Prots
    BY DEF PerRule
  <1>2. ASSUME NEW q \in Prots PROVE [f EXCEPT ![p] = g][q] \in [RulesOf(q) -> S]
    <2>1. CASE q = p
      BY <2>1 DEF PerRule
    <2>2. CASE q # p
      BY <2>2 DEF PerRule
    <2> QED
      BY <2>1, <2>2
  <1> QED
    BY <1>1, <1>2 DEF PerRule

LEMMA NewRuleType == NewRule \in RuleMemory /\ NewRule.last_state = "NORMAL"
  BY DEF NewRule, RuleMemory, RuleState

(* The rules start over: at first, and at a reset.                         *)
LEMMA NewRulesAreSound ==
  ASSUME rules = ForEachRule(NewRule), since_tick = ForEachRule(Never),
         cleared = ForEachRule(Never), tick \in Nat
  PROVE  \A p \in Prots : ~InFault(p) /\ \A i \in RulesOf(p) : RuleOK(p, i)
  <1>1. ASSUME NEW p \in Prots, NEW i \in RulesOf(p)
        PROVE  rules[p][i] = NewRule /\ since_tick[p][i] = Never /\ cleared[p][i] = Never
    BY DEF ForEachRule
  <1> QED
    BY <1>1 DEF InFault, RuleOK, NewRule

LEMMA InitIsSound == ProtInit => ProtInv
  <1> SUFFICES ASSUME ProtInit PROVE ProtInv
    OBVIOUS
  <1>1. /\ PerRule(RuleMemory, rules) /\ PerRule({"NORMAL", "WARNING"}, told)
        /\ PerRule({Never} \union Nat, since) /\ PerRule({Never} \union Nat, cleared)
        /\ PerRule({Never} \union Nat, since_tick) /\ PerRule(BOOLEAN, forgotten)
    BY ForEachType, NewRuleType DEF ProtInit
  <1>2. ProtTypeOK
    <2>1. now \in Nat /\ tick \in 0..now
      BY DEF ProtInit
    <2>4. faulted \in BOOLEAN
      BY Zenon DEF ProtInit
    <2>2. turn \in Prots
      BY DeclaredRules DEF ProtInit
    <2>3. /\ last_fault_publish_tick \in [Prots -> 0..tick]
          /\ requested \in [Prots -> {Never} \union 0..tick]
          /\ read_at \in [Prots -> [now : 0..now, tick : 0..tick]]
      BY DEF ProtInit
    <2> QED
      BY <1>1, <2>1, <2>2, <2>3, <2>4 DEF ProtTypeOK
  <1>3. ASSUME NEW p \in Prots PROVE RequestOK(p)
    BY NewRulesAreSound DEF ProtInit, RequestOK
  <1>4. ASSUME NEW p \in Prots, NEW i \in RulesOf(p) PROVE RuleOK(p, i)
    BY NewRulesAreSound DEF ProtInit
  <1> QED
    BY <1>2, <1>3, <1>4 DEF ProtInv
-----------------------------------------------------------------------------
LEMMA EvaluateKeepsType ==
  ASSUME ProtInv, NEW p \in Prots, NEW sample \in Samples, EvaluateOne(p, sample)
  PROVE  ProtTypeOK'
  <1> DEFINE judged == [i \in RulesOf(p) |-> Evaluate(Declared[p][i], rules[p][i], sample)]
  <1>1. /\ ProtTypeOK /\ now' = now /\ tick' = tick /\ tick \in Nat /\ now \in Nat
        /\ rules' = [rules EXCEPT ![p] = judged] /\ turn' = NextTurn(p)
        /\ PublishEdgeEvents(p, judged) /\ RequestFaultIfDue(p, judged)
        /\ ObserveAbove(p, sample)
    BY DEF ProtInv, EvaluateOne, clock, ProtTypeOK
  <1>2. ASSUME NEW i \in RulesOf(p) PROVE judged[i] \in RuleMemory
    <2>1. rules[p][i] \in RuleMemory /\ rules[p][i].last_tick_us <= tick
      BY <1>1 DEF ProtInv, RuleOK, ProtTypeOK, PerRule
    <2> QED
      BY <1>1, <2>1, DeclaredRules, EvaluateType
  <1> HIDE DEF judged
  <1>3. judged \in [RulesOf(p) -> RuleMemory]
    BY <1>2 DEF judged
  <1>4. PerRule(RuleMemory, rules')
    BY <1>1, <1>3, ChangedType DEF ProtTypeOK
  <1>5. PerRule({"NORMAL", "WARNING"}, told')
    <2>1. PICK published \in SUBSET RulesOf(p) :
            /\ \A i \in published : judged[i].last_state # "FAULT"
            /\ told' = [told EXCEPT ![p] = [i \in RulesOf(p) |->
                          IF i \in published THEN judged[i].last_state ELSE told[p][i]]]
      BY <1>1 DEF PublishEdgeEvents, ProtTypeOK, PerRule
    <2>2. \A i \in RulesOf(p) : told[p][i] \in {"NORMAL", "WARNING"}
      BY <1>1 DEF ProtTypeOK, PerRule
    <2>3. \A i \in published : judged[i].last_state \in {"NORMAL", "WARNING"}
      BY <2>1, <1>3 DEF RuleMemory, RuleState
    <2> DEFINE g == [i \in RulesOf(p) |->
                       IF i \in published THEN judged[i].last_state ELSE told[p][i]]
    <2>4. g \in [RulesOf(p) -> {"NORMAL", "WARNING"}]
      BY <2>2, <2>3
    <2>5. PerRule({"NORMAL", "WARNING"}, told)
      BY <1>1 DEF ProtTypeOK
    <2> HIDE DEF g
    <2>6. told' = [told EXCEPT ![p] = g]
      BY <2>1 DEF g
    <2> QED
      BY <2>4, <2>5, <2>6, ChangedType
  <1>10. PerRule(BOOLEAN, forgotten')
    <2>1. PICK published :
            forgotten' = [forgotten EXCEPT ![p] = [i \in RulesOf(p) |->
                            forgotten[p][i] /\ i \notin published]]
      BY <1>1 DEF PublishEdgeEvents, ProtTypeOK, PerRule
    <2> DEFINE g == [i \in RulesOf(p) |-> forgotten[p][i] /\ i \notin published]
    <2>2. g \in [RulesOf(p) -> BOOLEAN]
      OBVIOUS
    <2>3. PerRule(BOOLEAN, forgotten) /\ forgotten' = [forgotten EXCEPT ![p] = g]
      BY <1>1, <2>1 DEF ProtTypeOK
    <2> HIDE DEF g
    <2> QED
      BY <2>2, <2>3, ChangedType
  <1>6. /\ PerRule({Never} \union Nat, since') /\ PerRule({Never} \union Nat, since_tick')
        /\ PerRule({Never} \union Nat, cleared')
    <2> DEFINE active(i) == Above(Magnitude(sample), Declared[p][i].high_fault)
               timed(i) == Declared[p][i].kind = "TIME_ACCUMULATION"
               s == [i \in RulesOf(p) |-> IF ~timed(i) \/ ~active(i) THEN Never
                                          ELSE IF since[p][i] = Never THEN now ELSE since[p][i]]
               t == [i \in RulesOf(p) |-> IF ~timed(i) \/ ~active(i) THEN Never
                                          ELSE IF since_tick[p][i] = Never THEN tick
                                                                           ELSE since_tick[p][i]]
               c == [i \in RulesOf(p) |-> IF ~timed(i) THEN Never
                                          ELSE IF active(i) /\ cleared[p][i] # Never
                                                 THEN cleared[p][i] ELSE tick]
    <2>1. /\ since' = [since EXCEPT ![p] = s] /\ since_tick' = [since_tick EXCEPT ![p] = t]
          /\ cleared' = [cleared EXCEPT ![p] = c]
      BY <1>1 DEF ObserveAbove, ProtTypeOK, PerRule
    <2>2. \A i \in RulesOf(p) : since[p][i] \in {Never} \union Nat
                                /\ since_tick[p][i] \in {Never} \union Nat
                                /\ cleared[p][i] \in {Never} \union Nat
      BY <1>1 DEF ProtTypeOK, PerRule
    <2>3. /\ s \in [RulesOf(p) -> {Never} \union Nat] /\ t \in [RulesOf(p) -> {Never} \union Nat]
          /\ c \in [RulesOf(p) -> {Never} \union Nat]
      BY <1>1, <2>2
    <2>4. /\ PerRule({Never} \union Nat, since) /\ PerRule({Never} \union Nat, since_tick)
          /\ PerRule({Never} \union Nat, cleared)
      BY <1>1 DEF ProtTypeOK
    <2> HIDE DEF s, t, c
    <2> QED
      BY <2>1, <2>3, <2>4, ChangedType
  <1>7. turn' \in Prots
    BY <1>1, DeclaredRules DEF NextTurn
  <1>8. /\ last_fault_publish_tick' \in [Prots -> 0..tick] /\ faulted' \in BOOLEAN
        /\ requested' \in [Prots -> {Never} \union 0..tick]
    <2>1. Mark(p) \in 0..tick
      BY <1>1 DEF Mark, ProtTypeOK
    <2>2. (faulted \/ Due(p)) \in BOOLEAN
      OBVIOUS
    <2>3. /\ last_fault_publish_tick' \in {last_fault_publish_tick,
                                           [last_fault_publish_tick EXCEPT ![p] = Mark(p)]}
          /\ requested' \in {requested, [requested EXCEPT ![p] = tick]}
      BY <1>1 DEF RequestFaultIfDue, ProtTypeOK
    <2>4. faulted' \in BOOLEAN
      BY <1>1, <2>2, Zenon DEF RequestFaultIfDue, ProtTypeOK
    <2> QED
      BY <1>1, <2>1, <2>3, <2>4 DEF ProtTypeOK
  <1>9. read_at' \in [Prots -> [now : 0..now, tick : 0..tick]]
    BY <1>1 DEF ObserveAbove, ProtTypeOK
  <1> QED
    BY <1>1, <1>4, <1>5, <1>6, <1>7, <1>8, <1>9, <1>10 DEF ProtTypeOK

(* What an accumulation rule remembers after a sample. *)
LEMMA EvaluateTimed ==
  ASSUME NEW rule, NEW r \in RuleMemory, NEW sample, rule.kind = "TIME_ACCUMULATION"
  PROVE  LET next == Evaluate(rule, r, sample)
             elapsed == IF r.has_last_tick THEN tick - r.last_tick_us ELSE 0
         IN
         /\ next.has_last_tick /\ next.last_tick_us = tick
         /\ next.fault_active_time_us =
              IF Above(Magnitude(sample), rule.high_fault)
                THEN r.fault_active_time_us + elapsed ELSE 0
         /\ next.last_state = AccumulatedState(rule, next)
  <1> DEFINE next == Accumulate(rule, r, sample)
             final == [next EXCEPT !.last_state = AccumulatedState(rule, next)]
  <1>1. Evaluate(rule, r, sample) = final
    BY DEF Evaluate
  <1>2. DOMAIN next = DOMAIN r /\ "last_state" \in DOMAIN r
    BY DEF Accumulate, RuleMemory
  <1>3. /\ final.last_state = AccumulatedState(rule, next)
        /\ final.fault_active_time_us = next.fault_active_time_us
        /\ final.warning_active_time_us = next.warning_active_time_us
        /\ final.has_last_tick = next.has_last_tick /\ final.last_tick_us = next.last_tick_us
    BY <1>2
  <1>4. AccumulatedState(rule, final) = AccumulatedState(rule, next)
    BY <1>3 DEF AccumulatedState
  <1>5. /\ next.has_last_tick /\ next.last_tick_us = tick
        /\ next.fault_active_time_us =
             Accumulated(r.fault_active_time_us, Above(Magnitude(sample), rule.high_fault),
                         IF r.has_last_tick THEN tick - r.last_tick_us ELSE 0)
    BY DEF Accumulate, RuleMemory
  <1> QED
    BY <1>1, <1>3, <1>4, <1>5 DEF Accumulated

LEMMA EvaluateUntimed ==
  ASSUME NEW rule, NEW r \in RuleMemory, NEW sample, rule.kind # "TIME_ACCUMULATION"
  PROVE  LET next == Evaluate(rule, r, sample) IN
         next.has_last_tick = r.has_last_tick /\ next.last_tick_us = r.last_tick_us
  BY DEF Evaluate, RuleMemory

LEMMA EvaluateKeepsRules ==
  ASSUME ProtInv, NEW p \in Prots, NEW sample \in Samples, EvaluateOne(p, sample),
         NEW q \in Prots, NEW i \in RulesOf(q)
  PROVE  RuleOK(q, i)'
  <1> DEFINE judged == [j \in RulesOf(p) |-> Evaluate(Declared[p][j], rules[p][j], sample)]
  <1>1. /\ ProtTypeOK /\ tick' = tick /\ tick \in Nat /\ RuleOK(q, i)
        /\ rules' = [rules EXCEPT ![p] = judged] /\ ObserveAbove(p, sample)
    BY DEF ProtInv, EvaluateOne, clock, ProtTypeOK
  <1>2. /\ DOMAIN rules = Prots /\ DOMAIN since_tick = Prots /\ DOMAIN cleared = Prots
        /\ rules[q][i] \in RuleMemory
    BY <1>1 DEF ProtTypeOK, PerRule
  <1>3. CASE q # p
    <2>1. /\ rules'[q] = rules[q] /\ cleared'[q] = cleared[q]
          /\ since_tick'[q] = since_tick[q]
          /\ read_at'[q] = read_at[q]
      BY <1>1, <1>2, <1>3 DEF ObserveAbove, ProtTypeOK
    <2> QED
      BY <1>1, <2>1 DEF RuleOK
  <1>4. CASE q = p
    <2> DEFINE rule == Declared[p][i]
               r == rules[p][i]
               next == Evaluate(rule, r, sample)
    <2>1. rules'[q][i] = next /\ read_at'[q].tick = tick
      BY <1>1, <1>2, <1>4 DEF ObserveAbove, ProtTypeOK
    <2>2. CASE rule.kind # "TIME_ACCUMULATION"
      <3>1. since_tick'[q][i] = Never
        BY <1>1, <1>2, <1>4, <2>2 DEF ObserveAbove
      <3> QED
        BY <1>1, <1>2, <1>4, <2>1, <2>2, <3>1, EvaluateUntimed DEF RuleOK
    <2>3. CASE rule.kind = "TIME_ACCUMULATION"
      <3> DEFINE active == Above(Magnitude(sample), rule.high_fault)
                 elapsed == IF r.has_last_tick THEN tick - r.last_tick_us ELSE 0
      <3>1. /\ cleared'[q][i] = IF active /\ cleared[p][i] # Never THEN cleared[p][i] ELSE tick
            /\ since_tick'[q][i] = IF ~active THEN Never
                                   ELSE IF since_tick[p][i] = Never THEN tick
                                                                    ELSE since_tick[p][i]
        BY <1>1, <1>2, <1>4, <2>3 DEF ObserveAbove
      <3>2. /\ next.has_last_tick /\ next.last_tick_us = tick
            /\ next.fault_active_time_us = IF active THEN r.fault_active_time_us + elapsed ELSE 0
            /\ next.last_state = AccumulatedState(rule, next)
        BY <1>2, <1>4, <2>3, EvaluateTimed
      <3>3. /\ r.has_last_tick => /\ cleared[p][i] \in 0..r.last_tick_us
                                  /\ r.fault_active_time_us = r.last_tick_us - cleared[p][i]
                                  /\ since_tick[p][i] # Never =>
                                       since_tick[p][i] \in cleared[p][i]..r.last_tick_us
            /\ ~r.has_last_tick => /\ r.fault_active_time_us = 0 /\ cleared[p][i] = Never
                                   /\ since_tick[p][i] = Never
            /\ r.last_tick_us \in Nat /\ r.last_tick_us <= tick
        BY <1>1, <1>2, <1>4, <2>3 DEF RuleOK, RuleMemory
      <3> HIDE DEF next, active, r, rule
      <3>4. /\ cleared'[q][i] \in 0..tick
            /\ next.fault_active_time_us = tick - cleared'[q][i]
            /\ IF since_tick'[q][i] = Never THEN cleared'[q][i] = tick
                                            ELSE since_tick'[q][i] \in cleared'[q][i]..tick
        BY <1>1, <3>1, <3>2, <3>3 DEF Never
      <3> QED
        BY <1>1, <1>4, <2>1, <2>3, <3>2, <3>4 DEF RuleOK, rule
    <2> QED
      BY <2>2, <2>3
  <1> QED
    BY <1>3, <1>4

LEMMA EvaluateKeepsRequests ==
  ASSUME ProtInv, NEW p \in Prots, NEW sample \in Samples, EvaluateOne(p, sample),
         NEW q \in Prots
  PROVE  RequestOK(q)'
  <1> DEFINE judged == [j \in RulesOf(p) |-> Evaluate(Declared[p][j], rules[p][j], sample)]
  <1>1. /\ ProtTypeOK /\ tick' = tick /\ tick \in Nat /\ RequestOK(q)
        /\ rules' = [rules EXCEPT ![p] = judged] /\ ObserveAbove(p, sample)
        /\ RequestFaultIfDue(p, judged)
    BY DEF ProtInv, EvaluateOne, clock, ProtTypeOK
  <1>2. /\ DOMAIN rules = Prots /\ DOMAIN read_at = Prots
        /\ DOMAIN requested = Prots /\ DOMAIN last_fault_publish_tick = Prots
        /\ requested[q] \in {Never} \union 0..tick
    BY <1>1 DEF ProtTypeOK, PerRule
  <1>3. faulted => faulted'
    BY <1>1 DEF RequestFaultIfDue
  <1>4. CASE q # p
    <2>1. /\ rules'[q] = rules[q] /\ requested'[q] = requested[q]
          /\ last_fault_publish_tick'[q] = last_fault_publish_tick[q]
          /\ read_at'[q] = read_at[q]
      BY <1>1, <1>2, <1>4 DEF ObserveAbove, RequestFaultIfDue
    <2> QED
      BY <1>1, <1>3, <2>1 DEF RequestOK, InFault
  <1>5. CASE q = p
    <2>1. rules'[p] = judged /\ read_at'[p].tick = tick
      BY <1>1, <1>2 DEF ObserveAbove
    <2>2. CASE ~ \E i \in RulesOf(p) : judged[i].last_state = "FAULT"
      <3>1. /\ ~InFault(p)' /\ faulted' = faulted
            /\ requested' = requested /\ last_fault_publish_tick' = last_fault_publish_tick
        BY <1>1, <2>1, <2>2 DEF InFault, RequestFaultIfDue
      <3> QED
        BY <1>1, <1>5, <3>1 DEF RequestOK
    <2>3. CASE \E i \in RulesOf(p) : judged[i].last_state = "FAULT"
      <3>1. /\ last_fault_publish_tick'[p] = Mark(p)
            /\ requested'[p] = IF Due(p) THEN tick ELSE requested[p]
            /\ faulted' = (faulted \/ Due(p))
        BY <1>1, <1>2, <2>3 DEF RequestFaultIfDue
      <3>2. CASE Due(p)
        <4>1. faulted' /\ requested'[p] = tick /\ last_fault_publish_tick'[p] = tick
          BY <3>1, <3>2 DEF Mark
        <4> QED
          BY <1>1, <1>5, <2>1, <4>1, ProtectionsAssumption DEF RequestOK, Never
      <3>3. CASE ~Due(p)
        <4>1. /\ requested'[p] = requested[p]
              /\ last_fault_publish_tick'[p] = last_fault_publish_tick[p]
              /\ last_fault_publish_tick[p] # 0
              /\ ~(tick - last_fault_publish_tick[p] >= notify_delay)
          BY <3>1, <3>3 DEF Mark, Due
        <4>2. requested[p] # Never /\ last_fault_publish_tick[p] = requested[p] /\ faulted
          BY <1>1, <1>5, <4>1 DEF RequestOK
        <4>3. tick - requested[p] < notify_delay
          BY <1>1, <1>2, <1>5, <4>1, <4>2, ProtectionsAssumption
        <4> QED
          BY <1>1, <1>3, <1>5, <2>1, <4>1, <4>2, <4>3 DEF RequestOK
      <3> QED
        BY <3>2, <3>3
    <2> QED
      BY <2>2, <2>3
  <1> QED
    BY <1>4, <1>5
-----------------------------------------------------------------------------
LEMMA ResetIsSound ==
  ASSUME ProtInv, Reset
  PROVE  ProtInv'
  <1>1. /\ PerRule(RuleMemory, rules')
        /\ PerRule({Never} \union Nat, since') /\ PerRule({Never} \union Nat, cleared')
        /\ PerRule({Never} \union Nat, since_tick')
    BY ForEachType, NewRuleType DEF Reset
  <1>6. PerRule(BOOLEAN, forgotten')
    BY DEF Reset, PerRule
  <1>2. ProtTypeOK'
    BY <1>1, <1>6 DEF Reset, clock, ProtInv, ProtTypeOK
  <1>3. ASSUME NEW p \in Prots, NEW i \in RulesOf(p)
        PROVE  rules'[p][i] = NewRule /\ since_tick'[p][i] = Never /\ cleared'[p][i] = Never
    BY DEF Reset, ForEachRule
  <1>4. ASSUME NEW p \in Prots PROVE RequestOK(p)'
    BY <1>3 DEF Reset, RequestOK, InFault, NewRule
  <1>5. ASSUME NEW p \in Prots, NEW i \in RulesOf(p) PROVE RuleOK(p, i)'
    BY <1>2, <1>3 DEF RuleOK, NewRule, ProtTypeOK
  <1> QED
    BY <1>2, <1>4, <1>5 DEF ProtInv

LEMMA ElapseIsSound ==
  ASSUME ProtInv, NEW time \in Nat, Elapse(time)
  PROVE  ProtInv'
  <1>1. now' = now + time /\ (tick' = tick \/ tick' = tick + time)
    BY DEF Elapse
  <1>2. ProtTypeOK
    BY DEF ProtInv
  <1>3. now' \in Nat /\ now' >= now /\ tick' \in 0..now' /\ tick' >= tick
    BY <1>1, <1>2 DEF ProtTypeOK
  <1>4. ProtTypeOK'
    <2>1. \A f : f \in [Prots -> 0..tick] => f \in [Prots -> 0..tick']
      BY <1>2, <1>3 DEF ProtTypeOK
    <2>2. requested \in [Prots -> {Never} \union 0..tick']
      BY <1>2, <1>3 DEF ProtTypeOK
    <2>3. read_at \in [Prots -> [now : 0..now', tick : 0..tick']]
      BY <1>2, <1>3 DEF ProtTypeOK
    <2> QED
      BY <1>2, <1>3, <2>1, <2>2, <2>3 DEF ProtTypeOK, Elapse, histories
  <1>5. ASSUME NEW p \in Prots PROVE RequestOK(p)'
    BY DEF ProtInv, RequestOK, InFault, Elapse, histories
  <1>6. ASSUME NEW p \in Prots, NEW i \in RulesOf(p) PROVE RuleOK(p, i)'
    <2>1. RuleOK(p, i) /\ rules[p][i] \in RuleMemory
      BY <1>2 DEF ProtInv, ProtTypeOK, PerRule
    <2>2. rules[p][i].last_tick_us <= tick'
      BY <1>2, <1>3, <2>1 DEF RuleOK, RuleMemory, ProtTypeOK
    <2> QED
      BY <2>1, <2>2 DEF RuleOK, Elapse, histories
  <1> QED
    BY <1>4, <1>5, <1>6 DEF ProtInv

LEMMA StepIsSound == ProtInv /\ [ProtNext]_protVars => ProtInv'
  <1> SUFFICES ASSUME ProtInv, [ProtNext]_protVars PROVE ProtInv'
    OBVIOUS
  <1>1. ASSUME NEW p \in Prots, NEW sample \in Samples, EvaluateOne(p, sample) PROVE ProtInv'
    BY <1>1, EvaluateKeepsType, EvaluateKeepsRequests, EvaluateKeepsRules DEF ProtInv
  <1>2. CASE Reset
    BY <1>2, ResetIsSound
  <1>3. ASSUME NEW time \in Nat \ {0}, Elapse(time) PROVE ProtInv'
    BY <1>3, ElapseIsSound
  <1>4. CASE UNCHANGED protVars
    BY <1>4 DEF protVars, clock, histories, ProtInv, ProtTypeOK, RequestOK, InFault, RuleOK
  <1> QED
    BY <1>1, <1>2, <1>3, <1>4 DEF ProtNext

LEMMA ProtAlwaysSound == ProtSpec => []ProtInv
  BY InitIsSound, StepIsSound, PTL DEF ProtSpec

(* The state of the engine is what its declarations say (Protection.hpp),  *)
(* and no tick it remembers is in the future.                              *)
THEOREM ProtTypeCorrect == ProtSpec => []ProtTypeOK
  <1>1. ProtInv => ProtTypeOK
    BY DEF ProtInv
  <1> QED
    BY <1>1, ProtAlwaysSound, PTL

(* The throttle of request_fault_if_due keeps no fault from the            *)
(* FaultController, at any tick and for any delay.                         *)
THEOREM NoFaultIsSwallowed == ProtSpec => []FaultIsLatched
  <1>1. ProtInv => FaultIsLatched
    BY DEF ProtInv, FaultIsLatched, RequestOK
  <1> QED
    BY <1>1, ProtAlwaysSound, PTL

(* A protection found in FAULT had been reported within the delay.         *)
THEOREM FaultIsReportedAgain == ProtSpec => []FaultStaysReported
  <1>1. ProtInv => FaultStaysReported
    BY DEF ProtInv, FaultStaysReported, RequestOK
  <1> QED
    BY <1>1, ProtAlwaysSound, PTL

(* A fault is passed on at once, and again while it lasts: what the        *)
(* throttle of request_fault_if_due must not take away.                    *)
THEOREM EveryFaultIsReported == ProtSpec => []FaultsAreReported
  <1>1. ProtTypeOK /\ FaultIsLatched /\ FaultStaysReported => FaultsAreReported
    BY DEF FaultsAreReported
  <1> QED
    BY <1>1, ProtTypeCorrect, NoFaultIsSwallowed, FaultIsReportedAgain, PTL

(* A sampled condition that lasts for the window while the scheduler's     *)
(* timer runs is a fault of its accumulation rule: TimeAccumulationEvaluator*)
(* misses none, at any rate of evaluation.                                 *)
THEOREM SustainedConditionIsFault == ProtSpec => []LongEnoughIsFault
  <1>1. ASSUME ProtInv PROVE LongEnoughIsFault
    <2> SUFFICES ASSUME NEW p \in Prots, NEW i \in RulesOf(p), Lasted(p, i), TickRan(p, i)
                 PROVE  rules[p][i].last_state = "FAULT"
      BY DEF LongEnoughIsFault
    <2> DEFINE rule == Declared[p][i]
               r == rules[p][i]
    <2>1. /\ RuleOK(p, i) /\ since_tick[p][i] # Never /\ rule.window \in Nat
          /\ read_at[p].tick - since_tick[p][i] >= rule.window
      BY <1>1, DeclaredRules DEF Lasted, TickRan, ProtInv
    <2>2. /\ r.has_last_tick /\ r.last_tick_us = read_at[p].tick
          /\ r.fault_active_time_us = r.last_tick_us - cleared[p][i]
          /\ r.last_state = AccumulatedState(rule, r)
          /\ cleared[p][i] \in 0..r.last_tick_us
          /\ since_tick[p][i] \in cleared[p][i]..r.last_tick_us
      BY <2>1 DEF RuleOK
    <2>3. r.last_tick_us \in Nat
      BY <1>1 DEF ProtInv, ProtTypeOK, PerRule, RuleMemory
    <2>4. r.fault_active_time_us >= rule.window
      BY <2>1, <2>2, <2>3
    <2> QED
      BY <2>2, <2>4 DEF AccumulatedState, Reached
  <1> QED
    BY <1>1, ProtAlwaysSound, PTL

(* A fault of accumulated time is no guess: every sample since one above   *)
(* the threshold was above it, and the last one that was not is a window   *)
(* of ticks back.                                                          *)
THEOREM TimedFaultIsEarned == ProtSpec => []FaultIsEarned
  <1>1. ASSUME ProtInv PROVE FaultIsEarned
    <2> SUFFICES ASSUME NEW p \in Prots, NEW i \in RulesOf(p), TimedFault(p, i)
                 PROVE  /\ since_tick[p][i] # Never
                        /\ read_at[p].tick - cleared[p][i] >= Declared[p][i].window
      BY DEF FaultIsEarned
    <2> DEFINE rule == Declared[p][i]
               r == rules[p][i]
    <2>1. RuleOK(p, i) /\ rule.window \in Nat \ {0} /\ r \in RuleMemory
      BY <1>1, DeclaredRules DEF ProtInv, ProtTypeOK, PerRule
    <2>2. /\ r.last_tick_us = read_at[p].tick
          /\ r.fault_active_time_us = r.last_tick_us - cleared[p][i]
          /\ AccumulatedState(rule, r) = "FAULT"
          /\ since_tick[p][i] = Never => cleared[p][i] = r.last_tick_us
      BY <2>1 DEF TimedFault, RuleOK
    <2>3. r.fault_active_time_us >= rule.window
      BY <2>2 DEF AccumulatedState, Reached
    <2>4. r.last_tick_us \in Nat
      BY <2>1 DEF RuleMemory
    <2> QED
      BY <2>1, <2>2, <2>3, <2>4
  <1> QED
    BY <1>1, ProtAlwaysSound, PTL

(* Both: accumulated time is judged to the precision of the samples, for   *)
(* any rules, windows, samples and rates of evaluation.                    *)
THEOREM AccumulationJudgesByTime == ProtSpec => []TimeIsMeasured
  <1>1. LongEnoughIsFault /\ FaultIsEarned => TimeIsMeasured
    BY DEF TimeIsMeasured
  <1> QED
    BY <1>1, SustainedConditionIsFault, TimedFaultIsEarned, PTL

(* Two requests of one protection are the delay apart, unless the first    *)
(* was at tick 0.                                                          *)
THEOREM RepeatedRequestsAreThrottled == ProtSpec => RequestsAreSpaced
  <1> DEFINE Spaced == \A p \in Prots :
               requested'[p] # requested[p] /\ requested[p] > 0 /\ requested'[p] # Never =>
                 requested'[p] - requested[p] >= notify_delay
  <1>1. ASSUME ProtInv, [ProtNext]_protVars PROVE [Spaced]_protVars
    <2> SUFFICES ASSUME NEW q \in Prots, requested'[q] # requested[q], requested[q] > 0,
                        requested'[q] # Never
                 PROVE  requested'[q] - requested[q] >= notify_delay
      OBVIOUS
    <2>1. CASE Reset
      BY <2>1 DEF Reset
    <2>2. ASSUME NEW p \in Prots, NEW sample \in Samples, EvaluateOne(p, sample)
          PROVE  requested'[q] - requested[q] >= notify_delay
      <3>1. PICK judged : RequestFaultIfDue(p, judged)
        BY <2>2 DEF EvaluateOne
      <3>2. ProtTypeOK /\ RequestOK(q)
        BY <1>1 DEF ProtInv
      <3>3. q = p /\ Due(p) /\ requested'[q] = tick
        BY <3>1, <3>2 DEF RequestFaultIfDue, ProtTypeOK
      <3>4. last_fault_publish_tick[q] = requested[q]
        BY <3>2 DEF RequestOK, Never
      <3> QED
        BY <3>3, <3>4 DEF Due
    <2>3. CASE \E time \in Nat \ {0} : Elapse(time)
      BY <2>3 DEF Elapse, histories
    <2>4. CASE UNCHANGED protVars
      BY <2>4 DEF protVars, histories
    <2> QED
      BY <1>1, <2>1, <2>2, <2>3, <2>4 DEF ProtNext
  <1> QED
    BY <1>1, ProtAlwaysSound, PTL DEF ProtSpec, RequestsAreSpaced
-----------------------------------------------------------------------------
LEMMA RoomForEvent ==
  ASSUME NEW p \in Prots, Len(Declared[p]) <= events_capacity, NEW i \in RulesOf(p),
         NEW S \in SUBSET RulesOf(p), \A j \in S : j < i
  PROVE  Cardinality(S) < events_capacity
  <1>1. RulesOf(p) = 1..Len(Declared[p]) /\ Len(Declared[p]) \in Nat
    BY DeclaredRules
  <1>2. S \subseteq 1..(i - 1) /\ i \in Nat /\ i >= 1
    BY <1>1
  <1>3. IsFiniteSet(1..(i - 1)) /\ Cardinality(1..(i - 1)) = i - 1
    BY <1>2, FS_Interval
  <1>4. IsFiniteSet(S) /\ Cardinality(S) <= i - 1
    BY <1>2, <1>3, FS_Subset
  <1>5. Cardinality(S) \in Nat
    BY <1>4, FS_CardinalityType
  <1> QED
    BY <1>1, <1>2, <1>4, <1>5, ProtectionsAssumption

LEMMA EvaluateTellsHub ==
  ASSUME ProtInv, HubKnowsState,
         NEW p \in Prots, NEW sample \in Samples, EvaluateOne(p, sample)
  PROVE  HubKnowsState'
  <1> DEFINE judged == [j \in RulesOf(p) |-> Evaluate(Declared[p][j], rules[p][j], sample)]
             edge(j) == Advance(rules[p][j].last_state, judged[j].last_state)
             before(j) == {k \in RulesOf(p) : k < j /\ edge(k) # "NONE"}
  <1>1. /\ DOMAIN rules = Prots /\ DOMAIN told = Prots /\ DOMAIN forgotten = Prots
        /\ rules' = [rules EXCEPT ![p] = judged] /\ PublishEdgeEvents(p, judged)
    BY DEF ProtInv, ProtTypeOK, PerRule, EvaluateOne
  <1> SUFFICES ASSUME NEW q \in Prots, Len(Declared[q]) <= events_capacity,
                      NEW i \in RulesOf(q), rules'[q][i].last_state # "FAULT",
                      ~forgotten'[q][i]
               PROVE  told'[q][i] = rules'[q][i].last_state
    BY DEF HubKnowsState, Agrees
  <1>2. CASE q # p
    BY <1>1, <1>2 DEF HubKnowsState, Agrees, PublishEdgeEvents
  <1>3. CASE q = p
    <2> HIDE DEF judged
    <2>1. rules'[q][i] = judged[i]
      BY <1>1, <1>3
    <2>2. Cardinality(before(i)) < events_capacity
      BY <1>3, RoomForEvent
    <2>3. /\ told'[q][i] = IF edge(i) # "NONE" THEN judged[i].last_state ELSE told[p][i]
          /\ edge(i) = "NONE" => ~forgotten[p][i]
      BY <1>1, <1>3, <2>1, <2>2 DEF PublishEdgeEvents
    <2>4. edge(i) = "NONE" => judged[i].last_state = rules[p][i].last_state
      BY DEF Advance
    <2> QED
      BY <1>3, <2>1, <2>3, <2>4 DEF HubKnowsState, Agrees
  <1> QED
    BY <1>2, <1>3

(* publish_edge_events leaves the hub with the state of every rule that is *)
(* not in FAULT, of every protection with no more rules than its array     *)
(* holds events, until reset() starts the rule over and the hub is next    *)
(* told of it.                                                             *)
THEOREM HubIsKeptInformed == ProtSpec => []HubKnowsState
  <1>1. ProtInit => HubKnowsState
    BY DEF ProtInit, HubKnowsState, Agrees, ForEachRule, NewRule
  <1>2. ASSUME ProtInv, HubKnowsState, [ProtNext]_protVars PROVE HubKnowsState'
    <2>1. ASSUME NEW p \in Prots, NEW sample \in Samples, EvaluateOne(p, sample)
          PROVE  HubKnowsState'
      BY <1>2, <2>1, EvaluateTellsHub
    <2>2. CASE Reset
      BY <2>2 DEF Reset, HubKnowsState, Agrees, ForEachRule, NewRule
    <2>3. CASE (\E time \in Nat \ {0} : Elapse(time)) \/ UNCHANGED protVars
      BY <1>2, <2>3 DEF HubKnowsState, Agrees, Elapse, protVars, histories
    <2> QED
      BY <1>2, <2>1, <2>2, <2>3 DEF ProtNext
  <1> QED
    BY <1>1, <1>2, ProtAlwaysSound, PTL DEF ProtSpec
=============================================================================
