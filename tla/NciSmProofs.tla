----------------------------- MODULE NciSmProofs -----------------------------
(***************************************************************************)
(* Proofs about NciSm: its invariants, and that it implements NciRfStates. *)
(*                                                                         *)
(* The handlers of the state machine call one another, so what has to be   *)
(* kept is said of the states in the middle of a handler as well as of     *)
(* those between two events. For each C function there is a lemma that     *)
(* says what it makes of the former (Running) or of the latter (Resting).  *)
(***************************************************************************)
EXTENDS NciSm, TLAPS

\* Whoever writes has something to write.
WellFormed(s) == s \in SmState /\ (s.writing => s.out # << >>)

\* What a client sees of the state is what it is, or a signal is pending.
Signalled(s) ==
    /\ s.current_state = s.last \/ "last" \in s.signals
    /\ s.next_state = s.next \/ "next" \in s.signals

\* The transitions that nci_sm_switch_internal queues
Queueable == {"idle_to_discovery", "deactivate_to_idle"}

\* What is true anywhere in a handler
Running(s) ==
    /\ WellFormed(s)
    /\ Signalled(s)
    /\ s.timers \subseteq {s.trans}
    /\ s.next_trans \in Queueable \cup {None}

TransTimed(s) ==
    Timeouts => s.timers = (IF s.trans = None THEN {} ELSE {s.trans})

CmdTimed(s) == Timeouts => (s.cmd_timeout <=> s.rsp_handler # None)

Fits(s) == s.trans \in {None, "reset", GetTransition(s.last, "IDLE"),
                        GetTransition(s.last, "DISCOVERY")}

\* A machine without a transition is where it wants to be. What is queued
\* behind a transition is forgotten with it, unless the machine has failed.
Aimed(s) ==
    IF s.trans = None
    THEN s.next = s.last /\ (s.next_trans # None => s.last = "ERROR")
    ELSE s.next \in {"IDLE", "DISCOVERY"}

DefaultPayload(s) ==
    s.last \in {"DISCOVERY", "W4_ALL_DISCOVERIES", "W4_HOST_SELECT"} => ~s.negotiated

\* What is true when a handler has nothing left to do but to emit the signals
Settled(s) ==
    /\ Running(s)
    /\ TransTimed(s)
    /\ CmdTimed(s)
    /\ Fits(s)
    /\ Aimed(s)
    /\ DefaultPayload(s)

\* What is true between two events
Resting(s) == Settled(s) /\ s.signals = {}

\* The inductive invariant
IInv == Resting(sm)

\* What a client sees of an event is a move that NciRfStates allows.
Follows(s, t) == t.last \in {s.last} \cup Promise!Successors(s.last)

-----------------------------------------------------------------------------
(***************************************************************************)
(* Commands                                                                *)
(***************************************************************************)

\* The states are not affected.
SameStates(s, t) ==
    /\ t.last = s.last /\ t.current_state = s.current_state
    /\ t.next = s.next /\ t.next_state = s.next_state
    /\ t.signals = s.signals
    /\ t.next_trans = s.next_trans
    /\ t.negotiated = s.negotiated

\* The state machine is not affected.
SameMachine(s, t) ==
    SameStates(s, t) /\ t.trans = s.trans /\ t.timers = s.timers

\* What is said of states in the middle of a handler is said of the fields of
\* the state machine.
LEMMA SameMachineRuns ==
  ASSUME NEW s, NEW t, Running(s), WellFormed(t), SameMachine(s, t)
  PROVE  Running(t)
  BY DEF Running, Signalled, SameMachine, SameStates

\* A queue without its last element.
LEMMA AllButLast ==
  ASSUME NEW S, NEW q \in Seq(S)
  PROVE  LET r == SubSeq(q, 1, Len(q) - 1)
         IN  r \in Seq(S) /\ (Len(q) > 1 => r # << >>)
  <1> DEFINE r == SubSeq(q, 1, Len(q) - 1)
  <1>1. CASE q = << >>
    <2>1. r = << >>
      BY <1>1
    <2> QED BY <1>1, <2>1
  <1>2. CASE q # << >>
    <2>1. Len(q) - 1 \in 0 .. Len(q)
      BY <1>2
    <2>2. r \in Seq(S) /\ Len(r) = (IF 1 <= Len(q) - 1 THEN Len(q) - 1 ELSE 0)
      BY <2>1, SMT
    <2> HIDE DEF r
    <2>3. Len(q) > 1 => r # << >>
      BY <2>2
    <2> QED BY <2>2, <2>3 DEF r
  <1> QED BY <1>1, <1>2

\* A queue of one element that is replaced.
LEMMA OnlyReplaced ==
  ASSUME NEW S, NEW q \in Seq(S), NEW x \in S, Len(q) = 1
  PROVE  [q EXCEPT ![1] = x] \in Seq(S) /\ [q EXCEPT ![1] = x] # << >>
  <1> DEFINE r == [q EXCEPT ![1] = x]
  <1>1. r \in [1 .. 1 -> S]
    OBVIOUS
  <1>2. r \in Seq(S) /\ Len(r) = 1
    BY <1>1
  <1> HIDE DEF r
  <1> QED BY <1>2 DEF r

\* nci_sar_cancel: the command that is being written stays in its queue.
LEMMA SarCancelled ==
  ASSUME NEW s, WellFormed(s)
  PROVE  /\ WellFormed(SarCancel(s))
         /\ SameMachine(s, SarCancel(s))
         /\ SarCancel(s).rsp_handler = s.rsp_handler
         /\ SarCancel(s).cmd_timeout = s.cmd_timeout
  <1> DEFINE Entry == [op : Opcodes, complete : BOOLEAN]
  <1>0. s \in SmState /\ s.out \in Seq(Entry) /\ (s.writing => s.out # << >>)
        /\ s.writing \in BOOLEAN
    BY DEF WellFormed, SmState
  <1>1. ASSUME NEW out \in Seq(Entry), s.writing => out # << >>,
               SarCancel(s) = [s EXCEPT !.out = out]
        PROVE  /\ WellFormed(SarCancel(s))
               /\ SameMachine(s, SarCancel(s))
               /\ SarCancel(s).rsp_handler = s.rsp_handler
               /\ SarCancel(s).cmd_timeout = s.cmd_timeout
    <2>1. SarCancel(s) \in SmState
      BY <1>0, <1>1 DEF SmState
    <2> QED BY <1>0, <1>1, <2>1 DEF SmState, SameMachine, SameStates, WellFormed
  <1>2. CASE s.writing /\ Len(s.out) = 1
    <2> DEFINE first == [s.out[1] EXCEPT !.complete = FALSE]
    <2>1. s.out[1] \in Entry
      <3> HIDE DEF Entry
      <3> QED BY <1>0, <1>2
    <2>2. first \in Entry
      BY <2>1
    <2>3. SarCancel(s) = [s EXCEPT !.out = [s.out EXCEPT ![1] = first]]
      BY <1>2 DEF SarCancel
    <2> HIDE DEF first, Entry
    <2> QED BY <1>0, <1>1, <1>2, <2>2, <2>3, OnlyReplaced
  <1>3. CASE ~(s.writing /\ Len(s.out) = 1)
    <2> DEFINE out == SubSeq(s.out, 1, Len(s.out) - 1)
    <2> HIDE DEF Entry
    <2>1. out \in Seq(Entry) /\ (Len(s.out) > 1 => out # << >>)
      BY <1>0, AllButLast
    <2>2. s.writing => Len(s.out) > 1
      <3> SUFFICES ASSUME s.writing PROVE Len(s.out) > 1
        BY <1>0
      <3> DEFINE n == Len(s.out)
      <3>1. n \in Nat /\ n # 0
        BY <1>0
      <3>2. n # 1
        BY <1>3
      <3> HIDE DEF n
      <3>3. n > 1
        BY <3>1, <3>2
      <3> QED BY <3>3 DEF n
    <2>3. SarCancel(s) = [s EXCEPT !.out = out]
      BY <1>3 DEF SarCancel
    <2> HIDE DEF out
    <2> QED BY <1>1, <2>1, <2>2, <2>3
  <1> QED BY <1>2, <1>3

\* nci_core_cancel_command and nci_core_io_cancel: after the latter nobody
\* waits for a response, and no timeout of a command is armed.
LEMMA CommandCancelled ==
  ASSUME NEW s, WellFormed(s)
  PROVE  /\ WellFormed(CancelCommand(s))
         /\ SameMachine(s, CancelCommand(s))
         /\ ~CancelCommand(s).cmd_timeout
         /\ CancelCommand(s).rsp_handler \in {None, s.rsp_handler}
  <1> DEFINE t == [s EXCEPT !.cmd_timeout = FALSE]
  <1>1. WellFormed(t) /\ SameMachine(s, t) /\ ~t.cmd_timeout /\ t.rsp_handler = s.rsp_handler
    BY DEF WellFormed, SmState, SameMachine, SameStates
  <1>2. CancelCommand(s) = IF s.cmd_id
          THEN [SarCancel(t) EXCEPT !.cmd_id = FALSE, !.rsp_handler = None] ELSE t
    BY DEF CancelCommand
  <1> HIDE DEF t
  <1> DEFINE u == SarCancel(t)
  <1>3. WellFormed(u) /\ SameMachine(t, u) /\ ~u.cmd_timeout
    BY <1>1, SarCancelled
  <1> HIDE DEF u
  <1>4. CASE s.cmd_id
    <2>1. CancelCommand(s) = [u EXCEPT !.cmd_id = FALSE, !.rsp_handler = None]
      BY <1>1, <1>2, <1>4 DEF u, t
    <2>2. u \in SmState
      BY <1>3 DEF WellFormed
    <2>3. CancelCommand(s) \in SmState
      BY <2>1, <2>2 DEF SmState
    <2> QED BY <1>1, <1>3, <2>1, <2>2, <2>3 DEF WellFormed, SmState, SameMachine, SameStates
  <1>5. CASE ~s.cmd_id
    BY <1>1, <1>2, <1>5 DEF t
  <1> QED BY <1>4, <1>5

LEMMA IoCancelled ==
  ASSUME NEW s, WellFormed(s)
  PROVE  /\ WellFormed(IoCancel(s))
         /\ SameMachine(s, IoCancel(s))
         /\ CmdTimed(IoCancel(s))
  <1> DEFINE t == [s EXCEPT !.rsp_handler = None]
  <1>1. WellFormed(t) /\ SameMachine(s, t) /\ t.rsp_handler = None
    BY DEF WellFormed, SmState, SameMachine, SameStates
  <1>2. IoCancel(s) = CancelCommand(t)
    BY DEF IoCancel
  <1> HIDE DEF t
  <1> QED BY <1>1, <1>2, CommandCancelled DEF SameMachine, SameStates, CmdTimed

\* nci_core_io_send: whoever waits for the response has a timeout.
LEMMA IoSent ==
  ASSUME NEW s, WellFormed(s), NEW h \in Handlers
  PROVE  /\ WellFormed(IoSend(s, h))
         /\ SameMachine(s, IoSend(s, h))
         /\ CmdTimed(IoSend(s, h))
  <1> DEFINE t == CancelCommand(s)
             out == Append(t.out, [op |-> Opcode(h), complete |-> TRUE])
             start == t.start_write \/ ~t.writing
  <1>1. WellFormed(t) /\ SameMachine(s, t)
    BY CommandCancelled
  <1>2. IoSend(s, h) = [t EXCEPT !.rsp_handler = h, !.out = out, !.cmd_id = TRUE,
                                 !.cmd_timeout = Timeouts, !.start_write = start]
    BY DEF IoSend
  <1>3. h # None /\ Opcode(h) \in Opcodes
    BY DEF Handlers, ResetHandlers, DiscoveryHandlers, DeactivateHandlers, None,
       Opcode, Opcodes
  <1> HIDE DEF t
  <1>4. start \in BOOLEAN /\ t.out \in Seq([op : Opcodes, complete : BOOLEAN])
    BY <1>1 DEF WellFormed, SmState
  <1>5. out \in Seq([op : Opcodes, complete : BOOLEAN]) /\ out # << >>
    BY <1>3, <1>4
  <1> HIDE DEF out, start
  <1>6. t \in SmState /\ Timeouts \in BOOLEAN
    BY <1>1, SmAssumption DEF WellFormed
  <1>7. IoSend(s, h) \in SmState
    <2> DEFINE u == [t EXCEPT !.rsp_handler = h, !.out = out]
    <2>1. u \in SmState
      BY <1>5, <1>6 DEF SmState
    <2>2. IoSend(s, h) = [u EXCEPT !.cmd_id = TRUE, !.cmd_timeout = Timeouts,
                                   !.start_write = start]
      BY <1>2
    <2> HIDE DEF u
    <2> QED BY <1>4, <1>6, <2>1, <2>2 DEF SmState
  <1> QED BY <1>1, <1>2, <1>3, <1>5, <1>6, <1>7
          DEF WellFormed, SmState, SameMachine, SameStates, CmdTimed

-----------------------------------------------------------------------------
(***************************************************************************)
(* Signals, transitions and states                                         *)
(***************************************************************************)

SameCommand(s, t) ==
    t.rsp_handler = s.rsp_handler /\ t.cmd_timeout = s.cmd_timeout

\* nci_sm_emit_pending_signals: NciCore gets what is new in the machine.
LEMMA Emitted ==
  ASSUME NEW s, Running(s)
  PROVE  LET t == Emit(s)
         IN  /\ Running(t)
             /\ t.signals = {}
             /\ t.last = s.last /\ t.next = s.next
             /\ t.trans = s.trans /\ t.next_trans = s.next_trans
             /\ t.timers = s.timers
             /\ t.negotiated = s.negotiated
             /\ SameCommand(s, t)
  <1> DEFINE t == Emit(s)
  <1>1. s \in SmState
    BY DEF Running, WellFormed
  <1>2. t \in SmState
    <2> DEFINE next == IF "next" \in s.signals THEN s.next ELSE s.next_state
               last == IF "last" \in s.signals THEN s.last ELSE s.current_state
    <2>1. next \in States /\ last \in States /\ {} \in SUBSET {"next", "last"}
      BY <1>1 DEF SmState
    <2>2. t = [s EXCEPT !.signals = {}, !.next_state = next, !.current_state = last]
      BY DEF Emit
    <2> HIDE DEF t, next, last
    <2> QED BY <1>1, <2>1, <2>2 DEF SmState
  <1>3. /\ t.signals = {}
        /\ t.last = s.last /\ t.next = s.next
        /\ t.trans = s.trans /\ t.next_trans = s.next_trans
        /\ t.timers = s.timers
        /\ t.negotiated = s.negotiated
        /\ t.out = s.out /\ t.writing = s.writing
        /\ t.rsp_handler = s.rsp_handler /\ t.cmd_timeout = s.cmd_timeout
    BY <1>1 DEF Emit, SmState
  <1>4. t.current_state = t.last /\ t.next_state = t.next
    BY <1>1 DEF Emit, SmState, Running, Signalled
  <1> HIDE DEF t
  <1> QED BY <1>2, <1>3, <1>4 DEF t, Running, WellFormed, Signalled, SameCommand

\* nci_sm_set_last_state, nci_sm_set_next_state: a change has its signal.
LEMMA LastSet ==
  ASSUME NEW s, Running(s), NEW st \in States
  PROVE  LET t == SetLast(s, st)
         IN  /\ Running(t)
             /\ t.last = st /\ t.next = s.next
             /\ t.trans = s.trans /\ t.next_trans = s.next_trans
             /\ t.timers = s.timers
             /\ t.negotiated = s.negotiated
             /\ SameCommand(s, t)
  <1> DEFINE t == SetLast(s, st)
  <1>1. s \in SmState
    BY DEF Running, WellFormed
  <1>2. t \in SmState
    <2> DEFINE signals == s.signals \cup {"last"}
    <2>1. signals \in SUBSET {"next", "last"}
      BY <1>1 DEF SmState
    <2>2. t = IF s.last = st THEN s ELSE [s EXCEPT !.last = st, !.signals = signals]
      BY DEF SetLast
    <2> HIDE DEF t, signals
    <2> QED BY <1>1, <2>1, <2>2 DEF SmState
  <1>3. /\ t.last = st /\ t.next = s.next
        /\ t.trans = s.trans /\ t.next_trans = s.next_trans
        /\ t.timers = s.timers
        /\ t.negotiated = s.negotiated
        /\ t.out = s.out /\ t.writing = s.writing
        /\ t.rsp_handler = s.rsp_handler /\ t.cmd_timeout = s.cmd_timeout
    BY <1>1 DEF SetLast, SmState
  <1>4. Signalled(t)
    BY <1>1 DEF SetLast, SmState, Running, Signalled
  <1> HIDE DEF t
  <1> QED BY <1>2, <1>3, <1>4 DEF t, Running, WellFormed, SameCommand

LEMMA NextSet ==
  ASSUME NEW s, Running(s), NEW st \in States
  PROVE  LET t == SetNext(s, st)
         IN  /\ Running(t)
             /\ t.last = s.last /\ t.next = st
             /\ t.trans = s.trans /\ t.next_trans = s.next_trans
             /\ t.timers = s.timers
             /\ t.negotiated = s.negotiated
             /\ SameCommand(s, t)
  <1> DEFINE t == SetNext(s, st)
  <1>1. s \in SmState
    BY DEF Running, WellFormed
  <1>2. t \in SmState
    <2> DEFINE signals == s.signals \cup {"next"}
    <2>1. signals \in SUBSET {"next", "last"}
      BY <1>1 DEF SmState
    <2>2. t = IF s.next = st THEN s ELSE [s EXCEPT !.next = st, !.signals = signals]
      BY DEF SetNext
    <2> HIDE DEF t, signals
    <2> QED BY <1>1, <2>1, <2>2 DEF SmState
  <1>3. /\ t.last = s.last /\ t.next = st
        /\ t.trans = s.trans /\ t.next_trans = s.next_trans
        /\ t.timers = s.timers
        /\ t.negotiated = s.negotiated
        /\ t.out = s.out /\ t.writing = s.writing
        /\ t.rsp_handler = s.rsp_handler /\ t.cmd_timeout = s.cmd_timeout
    BY <1>1 DEF SetNext, SmState
  <1>4. Signalled(t)
    BY <1>1 DEF SetNext, SmState, Running, Signalled
  <1> HIDE DEF t
  <1> QED BY <1>2, <1>3, <1>4 DEF t, Running, WellFormed, SameCommand

\* nci_state_leave concerns the state that is left only.
LEMMA Left ==
  ASSUME NEW s, Running(s)
  PROVE  Running(Leave(s)) /\ SameMachine(s, Leave(s)) /\ SameCommand(s, Leave(s))
  <1> DEFINE t == Leave(s)
  <1>1. s \in SmState
    BY DEF Running, WellFormed
  <1>2. t \in SmState
    <2> DEFINE supported == s.supported /\ s.active # "W4_ALL_DISCOVERIES"
    <2>1. supported \in BOOLEAN
      BY <1>1 DEF SmState
    <2>2. t = [s EXCEPT !.active = None, !.supported = supported]
      BY DEF Leave
    <2> HIDE DEF t, supported
    <2> QED BY <1>1, <2>1, <2>2 DEF SmState
  <1>3. /\ SameMachine(s, t) /\ SameCommand(s, t)
        /\ t.out = s.out /\ t.writing = s.writing
    BY <1>1 DEF Leave, SmState, SameMachine, SameStates, SameCommand
  <1> HIDE DEF t
  <1>4. WellFormed(t)
    BY <1>2, <1>3 DEF Running, WellFormed
  <1> QED BY <1>3, <1>4, SameMachineRuns DEF t

\* nci_sm_finish_active_transition leaves no transition and no timeout.
LEMMA Finished ==
  ASSUME NEW s, Running(s)
  PROVE  LET t == FinishActiveTransition(s)
         IN  /\ Running(t)
             /\ SameStates(s, t) /\ SameCommand(s, t)
             /\ t.trans = None /\ t.timers = {}
  <1> DEFINE t == FinishActiveTransition(s)
  <1>1. s \in SmState /\ None \notin Transitions
    BY DEF Running, WellFormed, None, Transitions
  <1>2. t \in SmState
    <2> DEFINE timers == s.timers \ {s.trans}
               ntf == s.ntf /\ s.trans # "listen_active_to_idle"
               exp == s.expecting_ntf /\ s.trans # "listen_active_to_idle"
    <2>1. timers \in SUBSET Transitions /\ ntf \in BOOLEAN /\ exp \in BOOLEAN
      BY <1>1 DEF SmState
    <2>2. t = IF s.trans = None THEN s
              ELSE [s EXCEPT !.trans = None, !.timers = timers, !.ntf = ntf,
                             !.expecting_ntf = exp]
      BY DEF FinishActiveTransition
    <2> HIDE DEF t, timers, ntf, exp
    <2> QED BY <1>1, <2>1, <2>2 DEF SmState
  <1>3. /\ SameStates(s, t) /\ SameCommand(s, t)
        /\ t.out = s.out /\ t.writing = s.writing
        /\ t.trans = None
    BY <1>1 DEF FinishActiveTransition, SmState, SameStates, SameCommand
  <1>4. t.timers = {}
    <2>1. s.timers \subseteq Transitions /\ s.timers \subseteq {s.trans}
      BY <1>1 DEF SmState, Running
    <2>2. CASE s.trans = None
      BY <1>1, <2>1, <2>2 DEF FinishActiveTransition
    <2>3. CASE s.trans # None
      <3>1. t.timers = s.timers \ {s.trans}
        BY <1>1, <2>3 DEF FinishActiveTransition, SmState
      <3> QED BY <2>1, <3>1
    <2> QED BY <2>2, <2>3
  <1> HIDE DEF t
  <1> QED BY <1>2, <1>3, <1>4
          DEF t, Running, WellFormed, Signalled, SameStates

\* The start method of a transition arms the timeout.
LEMMA RestartDone ==
  ASSUME NEW s, WellFormed(s), NEW t \in Transitions
  PROVE  LET r == Restarted(s, t)
         IN  /\ WellFormed(r)
             /\ SameStates(s, r)
             /\ r.trans = s.trans
             /\ r.timers = IF Timeouts THEN s.timers \cup {t} ELSE s.timers
  <1> DEFINE r == Restarted(s, t)
             version == IF t = "reset" THEN 0 ELSE s.version
             routing == IF t = "reset" THEN None ELSE s.routing
             used == IF t = "idle_to_discovery" THEN {} ELSE s.used
             ntf == s.ntf /\ t # "listen_active_to_idle"
             exp == s.expecting_ntf /\ t # "listen_active_to_idle"
             timers == IF Timeouts THEN s.timers \cup {t} ELSE s.timers
             q == [s EXCEPT !.version = version, !.routing = routing, !.used = used]
  <1>1. s \in SmState
    BY DEF WellFormed
  <1>2. /\ version \in 0 .. 2 /\ routing \in AllRoutingKinds
        /\ used \in SUBSET Modes
    BY <1>1 DEF SmState, AllRoutingKinds
  <1>3. ntf \in BOOLEAN /\ exp \in BOOLEAN /\ timers \in SUBSET Transitions
    BY <1>1 DEF SmState
  <1>4. r = [q EXCEPT !.ntf = ntf, !.expecting_ntf = exp, !.timers = timers]
    BY DEF Restarted
  <1> HIDE DEF r, version, routing, used, ntf, exp
  <1>5. /\ q \in SmState /\ q.trans = s.trans /\ SameStates(s, q)
        /\ q.out = s.out /\ q.writing = s.writing
    BY <1>1, <1>2 DEF SmState, SameStates
  <1> HIDE DEF q, timers
  <1>6. r \in SmState
    <2> DEFINE flagged == [q EXCEPT !.ntf = ntf, !.expecting_ntf = exp]
    <2>1. flagged \in SmState
      BY <1>3, <1>5 DEF SmState
    <2>2. r = [flagged EXCEPT !.timers = timers]
      BY <1>4
    <2> HIDE DEF flagged
    <2> QED BY <1>3, <2>1, <2>2 DEF SmState
  <1>7. /\ r.trans = s.trans /\ SameStates(s, r) /\ r.timers = timers
        /\ r.out = s.out /\ r.writing = s.writing
    BY <1>3, <1>4, <1>5 DEF SmState, SameStates
  <1> QED BY <1>6, <1>7 DEF r, timers, WellFormed

\* nci_sm_start_transition: whatever was going on has made way for the
\* transition, which has its timeout and waits for its first response.
LEMMA TransitionStarted ==
  ASSUME NEW s, Running(s), NEW t \in Transitions
  PROVE  LET u == StartTransition(s, t)
         IN  /\ Running(u)
             /\ SameStates(s, u)
             /\ u.trans = t
             /\ TransTimed(u)
             /\ CmdTimed(u)
  <1> DEFINE e == FinishActiveTransition(s)
             f == [e EXCEPT !.trans = t]
             r == Restarted(f, t)
             i == IoSend(r, FirstCommand(t))
  <1>1. Running(e) /\ SameStates(s, e) /\ e.timers = {}
    BY Finished
  <1> HIDE DEF e
  <1>2. WellFormed(f) /\ SameStates(s, f) /\ f.trans = t /\ f.timers = {}
    BY <1>1 DEF Running, WellFormed, SmState, SameStates
  <1> HIDE DEF f
  <1>3. /\ WellFormed(r) /\ SameStates(s, r) /\ r.trans = t
        /\ r.timers = IF Timeouts THEN {t} ELSE {}
    BY <1>2, RestartDone DEF SameStates
  <1> HIDE DEF r
  <1>4. FirstCommand(t) \in Handlers
    BY DEF Transitions, FirstCommand, Handlers, ResetHandlers, DiscoveryHandlers,
       DeactivateHandlers
  <1>5. WellFormed(i) /\ SameMachine(r, i) /\ CmdTimed(i)
    BY <1>3, <1>4, IoSent
  <1>6. StartTransition(s, t) = Leave(i)
    BY DEF StartTransition, i, r, f, e
  <1> HIDE DEF i
  <1>7. t # None
    BY DEF Transitions, None
  <1>8. Running(i) /\ SameStates(s, i) /\ i.trans = t /\ TransTimed(i)
    <2>1. SameStates(s, i) /\ i.trans = t /\ i.timers = IF Timeouts THEN {t} ELSE {}
      BY <1>3, <1>5 DEF SameMachine, SameStates
    <2>2. WellFormed(i) /\ i.timers \subseteq {i.trans}
      BY <1>5, <2>1
    <2> QED BY <1>7, <2>1, <2>2 DEF Running, Signalled, SameStates, TransTimed
  <1>9. SameMachine(i, Leave(i)) /\ SameCommand(i, Leave(i)) /\ Running(Leave(i))
    BY <1>8, Left
  <1> QED BY <1>5, <1>6, <1>8, <1>9
          DEF SameMachine, SameStates, SameCommand, TransTimed, CmdTimed

\* nci_sm_stall_internal(NCI_STALL_ERROR): the machine is in ERROR, and neither
\* a transition nor a command has anything left to wait for.
LEMMA Stalled ==
  ASSUME NEW s, Running(s)
  PROVE  LET t == StallInternal(s)
         IN  /\ Running(t)
             /\ t.last = "ERROR" /\ t.next = "ERROR"
             /\ t.trans = None /\ t.timers = {}
             /\ t.next_trans = s.next_trans
             /\ t.negotiated = s.negotiated
             /\ CmdTimed(t)
  <1> DEFINE i == IoCancel(s)
             f == FinishActiveTransition(i)
             l == SetLast(f, "ERROR")
             t == SetNext(l, "ERROR")
             v == Leave(t)
  <1>0. "ERROR" \in States
    BY DEF States, InternalStates
  <1>1. Running(i) /\ SameMachine(s, i) /\ CmdTimed(i)
    BY IoCancelled, SameMachineRuns DEF Running
  <1> HIDE DEF i
  <1>2. /\ Running(f) /\ SameStates(i, f) /\ SameCommand(i, f)
        /\ f.trans = None /\ f.timers = {}
    BY <1>1, Finished
  <1> HIDE DEF f
  <1>3. /\ Running(l) /\ l.last = "ERROR" /\ SameCommand(f, l)
        /\ l.trans = None /\ l.timers = {} /\ l.next_trans = f.next_trans
        /\ l.negotiated = f.negotiated
    BY <1>0, <1>2, LastSet
  <1> HIDE DEF l
  <1>4. /\ Running(t) /\ t.last = "ERROR" /\ t.next = "ERROR" /\ SameCommand(l, t)
        /\ t.trans = None /\ t.timers = {} /\ t.next_trans = l.next_trans
        /\ t.negotiated = l.negotiated
    BY <1>0, <1>3, NextSet
  <1>5. /\ t.next_trans = s.next_trans /\ t.negotiated = s.negotiated
        /\ CmdTimed(t)
    BY <1>1, <1>2, <1>3, <1>4 DEF SameMachine, SameStates, SameCommand, CmdTimed
  <1>6. StallInternal(s) = IF t.active = "ERROR" THEN t
                           ELSE [v EXCEPT !.active = "ERROR"]
    BY DEF StallInternal, t, l, f, i
  <1> HIDE DEF t
  <1>7. Running(v) /\ SameMachine(t, v) /\ SameCommand(t, v)
    BY <1>4, Left
  <1> HIDE DEF v
  <1> DEFINE w == [v EXCEPT !.active = "ERROR"]
  <1>8. v \in SmState
    BY <1>7 DEF Running, WellFormed
  <1>9. w \in SmState
    BY <1>0, <1>8 DEF SmState
  <1>10. /\ SameMachine(v, w) /\ SameCommand(v, w)
         /\ w.out = v.out /\ w.writing = v.writing
    BY <1>8 DEF SmState, SameMachine, SameStates, SameCommand
  <1> HIDE DEF w
  <1>11. Running(w)
    BY <1>7, <1>9, <1>10, SameMachineRuns DEF Running, WellFormed
  <1> QED BY <1>4, <1>5, <1>6, <1>7, <1>10, <1>11
          DEF w, SameMachine, SameStates, SameCommand, CmdTimed

\* nci_sm_error: a failure leaves nothing pending, wherever it happens.
LEMMA Failed ==
  ASSUME NEW s, Running(s)
  PROVE  /\ Resting(Error(s))
         /\ Error(s).last = "ERROR"
         /\ Error(s).negotiated = s.negotiated
  <1> DEFINE t == StallInternal(s)
             e == Emit(t)
  <1>1. /\ Running(t) /\ t.last = "ERROR" /\ t.next = "ERROR"
        /\ t.trans = None /\ t.timers = {} /\ CmdTimed(t)
        /\ t.negotiated = s.negotiated
    BY Stalled
  <1> HIDE DEF t
  <1>2. /\ Running(e) /\ e.signals = {} /\ e.last = "ERROR" /\ e.next = "ERROR"
        /\ e.trans = None /\ e.timers = {} /\ SameCommand(t, e)
        /\ e.negotiated = t.negotiated
    BY <1>1, Emitted
  <1>3. Error(s) = e
    BY DEF Error, e, t
  <1> HIDE DEF e
  <1>4. CmdTimed(e)
    BY <1>1, <1>2 DEF CmdTimed, SameCommand
  <1> QED BY <1>1, <1>2, <1>3, <1>4
          DEF Resting, Settled, TransTimed, Fits, Aimed, DefaultPayload

\* Emitting the signals is what ends a handler.
LEMMA Rested ==
  ASSUME NEW s, Settled(s)
  PROVE  Resting(Emit(s)) /\ Emit(s).last = s.last
  <1> DEFINE e == Emit(s)
  <1>1. /\ Running(e) /\ e.signals = {} /\ e.last = s.last /\ e.next = s.next
        /\ e.trans = s.trans /\ e.next_trans = s.next_trans
        /\ e.timers = s.timers /\ e.negotiated = s.negotiated
        /\ SameCommand(s, e)
    BY Emitted DEF Settled
  <1> HIDE DEF e
  <1>2. TransTimed(e) /\ CmdTimed(e)
    BY <1>1 DEF Settled, TransTimed, CmdTimed, SameCommand
  <1>3. Fits(e) /\ Aimed(e) /\ DefaultPayload(e)
    BY <1>1 DEF Settled, Fits, Aimed, DefaultPayload
  <1> QED BY <1>1, <1>2, <1>3 DEF e, Resting, Settled

\* nci_sm_enter_state_internal up to nci_state_enter
LEMMA Begun ==
  ASSUME NEW s, Running(s), NEW st \in States
  PROVE  LET t == Begin(s, st)
         IN  /\ Running(t)
             /\ t.last = s.last /\ t.next = s.next
             /\ t.trans = None /\ t.timers = {}
             /\ t.next_trans = s.next_trans
             /\ t.negotiated = (s.negotiated /\ st # "DISCOVERY")
             /\ SameCommand(s, t)
  <1> DEFINE f == FinishActiveTransition(s)
             l == IF f.active = st THEN f ELSE Leave(f)
             negotiated == f.negotiated /\ st # "DISCOVERY"
             t == Begin(s, st)
  <1>1. /\ Running(f) /\ SameStates(s, f) /\ SameCommand(s, f)
        /\ f.trans = None /\ f.timers = {}
    BY Finished
  <1>2. t = [l EXCEPT !.active = st, !.negotiated = negotiated]
    BY DEF Begin
  <1> HIDE DEF f, t
  <1>3. Running(l) /\ SameMachine(f, l) /\ SameCommand(f, l)
    BY <1>1, Left DEF SameMachine, SameStates, SameCommand
  <1>4. negotiated \in BOOLEAN /\ l \in SmState
    BY <1>1, <1>3 DEF Running, WellFormed, SmState
  <1> HIDE DEF l, negotiated
  <1>5. t \in SmState
    BY <1>2, <1>4 DEF SmState
  <1>6. /\ t.last = l.last /\ t.next = l.next /\ t.signals = l.signals
        /\ t.current_state = l.current_state /\ t.next_state = l.next_state
        /\ t.trans = l.trans /\ t.timers = l.timers
        /\ t.next_trans = l.next_trans /\ t.negotiated = negotiated
        /\ t.out = l.out /\ t.writing = l.writing
        /\ SameCommand(l, t)
    BY <1>2, <1>4 DEF SmState, SameCommand
  <1>7. Running(t)
    BY <1>3, <1>5, <1>6 DEF Running, WellFormed, Signalled
  <1>8. negotiated = (s.negotiated /\ st # "DISCOVERY")
    BY <1>1 DEF negotiated, SameStates
  <1> QED BY <1>1, <1>3, <1>6, <1>7, <1>8 DEF t, SameMachine, SameStates, SameCommand

\* nci_state_get_transition: there are transitions to IDLE and DISCOVERY only.
LEMMA TransitionFacts ==
  ASSUME NEW from \in States, NEW to \in States
  PROVE  LET t == GetTransition(from, to)
         IN  /\ t \in Transitions \cup {None}
             /\ t # None => to \in {"IDLE", "DISCOVERY"}
             /\ from = "IDLE" /\ t # None => to = "DISCOVERY" /\ t = "idle_to_discovery"
             /\ from = "DISCOVERY" /\ t # None => to = "IDLE" /\ t = "deactivate_to_idle"
  BY DEF GetTransition, Transitions, None

LEMMA StateFacts ==
  /\ {"IDLE", "DISCOVERY", "W4_ALL_DISCOVERIES", "W4_HOST_SELECT", "POLL_ACTIVE",
      "LISTEN_ACTIVE", "LISTEN_SLEEP", "INIT", "ERROR"} \subseteq States
  /\ InternalStates \subseteq States
  /\ Targets \subseteq States
  BY SmAssumption DEF States, InternalStates, BeyondIdle

\* A transition may be queued only where its state is what is entered; `next` is
\* then where it leads to. A nested restart is the only other transition there is.
Enterable(s, st) ==
    /\ s.next_trans # None => {st, s.next} \subseteq {"IDLE", "DISCOVERY"}
    /\ st \in {"W4_ALL_DISCOVERIES", "W4_HOST_SELECT"} => ~s.negotiated

\* nci_sm_enter_state_internal after nci_state_enter
LEMMA Ended ==
  ASSUME NEW s, Running(s), TransTimed(s), CmdTimed(s), NEW st \in States,
         Enterable(s, st), st = "DISCOVERY" => ~s.negotiated,
         s.trans # None => s.trans = "reset" /\ s.next \in {"IDLE", "DISCOVERY"}
  PROVE  LET t == End(s, st)
         IN  /\ Settled(t)
             /\ t.last = st /\ t.next_trans = None
             /\ s.next_trans = None => t.trans = s.trans
  <1> DEFINE t == [s EXCEPT !.next_trans = None]
             start == s.next_trans # None /\ Dest(s.next_trans) # st
             q == IF start THEN StartTransition(t, s.next_trans) ELSE t
             u == SetLast(q, st)
             v == IF u.trans = None THEN SetNext(u, st) ELSE u
  <1>0. s \in SmState
    BY DEF Running, WellFormed
  <1>1. t \in SmState /\ t.next_trans = None
    BY <1>0 DEF SmState
  <1>2. /\ t.last = s.last /\ t.next = s.next /\ t.signals = s.signals
        /\ t.current_state = s.current_state /\ t.next_state = s.next_state
        /\ t.trans = s.trans /\ t.timers = s.timers
        /\ t.negotiated = s.negotiated
        /\ t.out = s.out /\ t.writing = s.writing
        /\ SameCommand(s, t)
    BY <1>0 DEF SmState, SameCommand
  <1>3. Running(t) /\ TransTimed(t) /\ CmdTimed(t)
    BY <1>1, <1>2
       DEF Running, WellFormed, Signalled, TransTimed, CmdTimed, SameCommand
  <1>4. End(s, st) = v
    BY DEF End
  <1> HIDE DEF t
  <1>5. /\ Running(q) /\ TransTimed(q) /\ CmdTimed(q)
        /\ q.next = s.next /\ q.next_trans = None /\ q.negotiated = s.negotiated
        /\ \/ start /\ q.trans = s.next_trans
           \/ ~start /\ q.trans = s.trans
    <2>1. CASE start
      <3>1. s.next_trans \in Transitions
        BY <2>1, <1>0 DEF SmState
      <3> QED BY <1>1, <1>2, <1>3, <2>1, <3>1, TransitionStarted DEF SameStates
    <2>2. CASE ~start
      BY <1>1, <1>2, <1>3, <2>2
    <2> QED BY <2>1, <2>2
  <1>6. /\ start => \/ s.next_trans = "idle_to_discovery" /\ st = "IDLE"
                    \/ s.next_trans = "deactivate_to_idle" /\ st = "DISCOVERY"
        /\ start => s.next \in {"IDLE", "DISCOVERY"}
    BY DEF Running, Enterable, Queueable, Dest
  <1>13. s.next_trans = None => q.trans = s.trans
    BY <1>5
  <1> HIDE DEF q, start
  <1>7. /\ Running(u) /\ u.last = st /\ u.next = s.next /\ u.trans = q.trans
        /\ u.timers = q.timers /\ u.next_trans = None
        /\ u.negotiated = s.negotiated /\ SameCommand(q, u)
    BY <1>5, LastSet
  <1> HIDE DEF u
  <1>8. /\ Running(v) /\ v.last = st /\ v.trans = q.trans
        /\ v.next = (IF v.trans = None THEN st ELSE s.next)
        /\ v.timers = q.timers /\ v.next_trans = None
        /\ v.negotiated = s.negotiated /\ SameCommand(q, v)
    BY <1>7, NextSet DEF SameCommand
  <1> HIDE DEF v
  <1>9. TransTimed(v) /\ CmdTimed(v)
    BY <1>5, <1>8 DEF TransTimed, CmdTimed, SameCommand
  <1>10. Fits(v)
    BY <1>5, <1>6, <1>8 DEF Fits, GetTransition
  <1>11. Aimed(v)
    BY <1>5, <1>6, <1>8 DEF Aimed
  <1>12. DefaultPayload(v)
    BY <1>8 DEF DefaultPayload, Enterable
  <1> QED BY <1>4, <1>8, <1>9, <1>10, <1>11, <1>12, <1>13 DEF Settled

\* nci_sm_enter_state_internal
LEMMA EnteredInternal ==
  ASSUME NEW s, Running(s), CmdTimed(s), NEW st \in States, Enterable(s, st)
  PROVE  Settled(EnterInternal(s, st)) /\ EnterInternal(s, st).last = st
  <1> DEFINE t == Begin(s, st)
  <1>1. /\ Running(t) /\ t.next = s.next /\ t.trans = None /\ t.timers = {}
        /\ t.next_trans = s.next_trans
        /\ t.negotiated = (s.negotiated /\ st # "DISCOVERY")
        /\ SameCommand(s, t)
    BY Begun
  <1>2. EnterInternal(s, st) = End(t, st)
    BY DEF EnterInternal
  <1> HIDE DEF t
  <1>3. TransTimed(t) /\ CmdTimed(t) /\ Enterable(t, st)
    BY <1>1 DEF TransTimed, CmdTimed, SameCommand, Enterable
  <1>4. st = "DISCOVERY" => ~t.negotiated
    BY <1>1
  <1>5. Settled(End(t, st)) /\ End(t, st).last = st
    BY <1>1, <1>3, <1>4, Ended
  <1> QED BY <1>2, <1>5

\* nci_sm_enter_state
LEMMA Entered ==
  ASSUME NEW s, Running(s), CmdTimed(s), NEW st \in States, Enterable(s, st)
  PROVE  Resting(Enter(s, st)) /\ Enter(s, st).last = st
  BY EnteredInternal, Rested DEF Enter

\* From a machine at rest, IDLE and DISCOVERY may be entered with a transition,
\* and the other states without one.
LEMMA EnterableAtRest ==
  ASSUME NEW s, Settled(s), NEW st \in States,
         s.trans = None => s.last # "ERROR",
         s.trans # None => st \in {"IDLE", "DISCOVERY"},
         st \in {"W4_ALL_DISCOVERIES", "W4_HOST_SELECT"} => ~s.negotiated
  PROVE  Running(s) /\ CmdTimed(s) /\ Enterable(s, st)
  BY DEF Settled, Aimed, Enterable

-----------------------------------------------------------------------------
(***************************************************************************)
(* Switching                                                               *)
(***************************************************************************)

\* Forgetting what is queued
LEMMA Unqueued ==
  ASSUME NEW s, Running(s)
  PROVE  LET t == [s EXCEPT !.next_trans = None]
         IN  /\ Running(t) /\ SameCommand(s, t) /\ t.next_trans = None
             /\ t.last = s.last /\ t.next = s.next
             /\ t.trans = s.trans /\ t.timers = s.timers
             /\ t.negotiated = s.negotiated
             /\ Settled(s) => Settled(t)
  <1> DEFINE t == [s EXCEPT !.next_trans = None]
  <1>1. s \in SmState
    BY DEF Running, WellFormed
  <1>2. t \in SmState /\ t.next_trans = None
    BY <1>1 DEF SmState
  <1>3. /\ t.last = s.last /\ t.next = s.next /\ t.signals = s.signals
        /\ t.current_state = s.current_state /\ t.next_state = s.next_state
        /\ t.trans = s.trans /\ t.timers = s.timers
        /\ t.negotiated = s.negotiated
        /\ t.out = s.out /\ t.writing = s.writing
        /\ SameCommand(s, t)
    BY <1>1 DEF SmState, SameCommand
  <1> HIDE DEF t
  <1>4. Running(t)
    BY <1>2, <1>3 DEF Running, WellFormed, Signalled
  <1>5. Settled(s) => Settled(t)
    BY <1>2, <1>3, <1>4
       DEF Settled, TransTimed, CmdTimed, SameCommand, Fits, Aimed, DefaultPayload
  <1> QED BY <1>2, <1>3, <1>4, <1>5 DEF t

\* A transition is active, and the machine is going somewhere.
OnItsWay(s) ==
    /\ Running(s)
    /\ s.trans # None
    /\ TransTimed(s)
    /\ CmdTimed(s)
    /\ Fits(s)
    /\ DefaultPayload(s)

\* nci_sm_set_next_state, where a transition has been started
LEMMA Directed ==
  ASSUME NEW s, OnItsWay(s), NEW st \in {"IDLE", "DISCOVERY"}
  PROVE  Settled(SetNext(s, st)) /\ SetNext(s, st).last = s.last
  <1> DEFINE u == SetNext(s, st)
  <1>1. st \in States
    BY StateFacts
  <1>2. /\ Running(u) /\ u.last = s.last /\ u.next = st
        /\ u.trans = s.trans /\ u.timers = s.timers
        /\ u.negotiated = s.negotiated /\ SameCommand(s, u)
    BY <1>1, NextSet DEF OnItsWay
  <1> HIDE DEF u
  <1>3. Settled(u)
    BY <1>2 DEF OnItsWay, Settled, TransTimed, CmdTimed, SameCommand, Fits, Aimed,
           DefaultPayload
  <1> QED BY <1>2, <1>3 DEF u

\* Queueing a transition behind the active one
LEMMA Queued ==
  ASSUME NEW s, OnItsWay(s), NEW t \in Queueable, NEW st \in {"IDLE", "DISCOVERY"}
  PROVE  LET u == SetNext([s EXCEPT !.next_trans = t], st)
         IN  Settled(u) /\ u.last = s.last
  <1> DEFINE q == [s EXCEPT !.next_trans = t]
  <1>1. s \in SmState /\ t \in Transitions
    BY DEF OnItsWay, Running, WellFormed, Queueable, Transitions
  <1>2. q \in SmState
    BY <1>1 DEF SmState
  <1>3. /\ q.last = s.last /\ q.next = s.next /\ q.signals = s.signals
        /\ q.current_state = s.current_state /\ q.next_state = s.next_state
        /\ q.trans = s.trans /\ q.timers = s.timers
        /\ q.next_trans = t /\ q.negotiated = s.negotiated
        /\ q.out = s.out /\ q.writing = s.writing
        /\ SameCommand(s, q)
    BY <1>1 DEF SmState, SameCommand
  <1> HIDE DEF q
  <1>4. Running(q)
    BY <1>2, <1>3 DEF OnItsWay, Running, WellFormed, Signalled
  <1>5. OnItsWay(q)
    BY <1>3, <1>4
       DEF OnItsWay, TransTimed, CmdTimed, SameCommand, Fits, DefaultPayload
  <1> QED BY <1>3, <1>5, Directed DEF q

\* Wherever the machine is sent, it is there, on its way, or in trouble.
StaysOrLeaves(s, t) == t.last \in {s.last} \cup InternalStates

\* nci_sm_switch_internal with an active transition
LEMMA Redirected ==
  ASSUME NEW s, Settled(s), s.trans # None, NEW st \in States
  PROVE  Settled(Redirect(s, st)) /\ StaysOrLeaves(s, Redirect(s, st))
  <1> DEFINE t == [s EXCEPT !.next_trans = None]
             via == GetTransition(Dest(s.trans), st)
  <1>1. /\ Settled(t) /\ t.next_trans = None /\ t.last = s.last
        /\ t.trans = s.trans
    BY Unqueued DEF Settled
  <1>2. Redirect(s, st) =
          IF Dest(s.trans) = st THEN t
          ELSE IF via # None THEN SetNext([t EXCEPT !.next_trans = via], st)
          ELSE IF st \in InternalStates THEN EnterInternal(t, st)
          ELSE StallInternal(t)
    BY DEF Redirect
  <1>3. /\ Dest(s.trans) \in {"IDLE", "DISCOVERY"}
        /\ Dest(s.trans) \in States
    BY StateFacts DEF Dest
  <1>4. via # None => via \in Queueable /\ st \in {"IDLE", "DISCOVERY"}
    BY <1>3, TransitionFacts DEF Queueable
  <1> HIDE DEF t, via
  <1>5. CASE Dest(s.trans) = st
    BY <1>1, <1>2, <1>5 DEF StaysOrLeaves
  <1>6. CASE Dest(s.trans) # st /\ via # None
    <2>1. OnItsWay(t)
      BY <1>1 DEF Settled, OnItsWay
    <2> QED BY <1>1, <1>2, <1>4, <1>6, <2>1, Queued DEF StaysOrLeaves
  <1>7. CASE Dest(s.trans) # st /\ via = None /\ st \in InternalStates
    <2>1. Running(t) /\ CmdTimed(t) /\ Enterable(t, st)
      BY <1>1, <1>7 DEF Settled, Enterable, InternalStates
    <2> QED BY <1>2, <1>7, <2>1, EnteredInternal DEF StaysOrLeaves
  <1>8. CASE Dest(s.trans) # st /\ via = None /\ st \notin InternalStates
    <2>1. Redirect(s, st) = StallInternal(t)
      BY <1>2, <1>8
    <2> QED BY <1>1, <2>1, Stalled DEF Settled, StaysOrLeaves, InternalStates,
               TransTimed, Fits, Aimed, DefaultPayload
  <1> QED BY <1>5, <1>6, <1>7, <1>8

\* nci_sm_start_transition, for a transition that the state has
LEMMA SetOut ==
  ASSUME NEW s, Settled(s), NEW t \in Transitions,
         t \in {"reset", GetTransition(s.last, "IDLE"),
                GetTransition(s.last, "DISCOVERY")}
  PROVE  /\ OnItsWay(StartTransition(s, t))
         /\ StartTransition(s, t).last = s.last
         /\ StartTransition(s, t).next_trans = s.next_trans
  <1> DEFINE u == StartTransition(s, t)
  <1>1. Running(u) /\ SameStates(s, u) /\ u.trans = t /\ TransTimed(u) /\ CmdTimed(u)
    BY TransitionStarted DEF Settled
  <1> HIDE DEF u
  <1>2. t # None
    BY DEF Transitions, None
  <1>3. OnItsWay(u)
    BY <1>1, <1>2 DEF OnItsWay, Fits, DefaultPayload, Settled, SameStates
  <1> QED BY <1>1, <1>3 DEF u, SameStates

\* nci_sm_stall_internal leaves nothing to be done but to emit the signals.
LEMMA StalledSettled ==
  ASSUME NEW s, Running(s)
  PROVE  Settled(StallInternal(s)) /\ StallInternal(s).last = "ERROR"
  BY Stalled DEF Settled, TransTimed, Fits, Aimed, DefaultPayload

\* nci_sm_switch_internal without an active transition
LEMMA Departed ==
  ASSUME NEW s, Settled(s), s.trans = None, NEW st \in States, s.next # st
  PROVE  Settled(Depart(s, st)) /\ StaysOrLeaves(s, Depart(s, st))
  <1> DEFINE t == [s EXCEPT !.next_trans = None]
             direct == GetTransition(s.last, st)
             home == GetTransition(s.last, "IDLE")
             first == IF home = None THEN "reset" ELSE home
             away == StartTransition(t, first)
             via == GetTransition("IDLE", st)
  <1>1. Settled(t) /\ t.next_trans = None /\ t.last = s.last /\ t.trans = None
    BY Unqueued DEF Settled
  <1>2. Depart(s, st) =
          IF direct # None THEN SetNext(StartTransition(t, direct), st)
          ELSE IF st \in InternalStates THEN EnterInternal(t, st)
          ELSE IF st = "IDLE" THEN SetNext(away, st)
          ELSE IF via # None THEN SetNext([away EXCEPT !.next_trans = via], st)
          ELSE StallInternal(away)
    BY DEF Depart
  <1>3. s.last \in States /\ "IDLE" \in States
    BY StateFacts DEF Settled, Running, WellFormed, SmState
  <1>4. /\ direct # None => direct \in Transitions /\ st \in {"IDLE", "DISCOVERY"}
        /\ home \in Transitions \cup {None}
        /\ via # None => via \in Queueable /\ st = "DISCOVERY"
    BY <1>3, TransitionFacts DEF Queueable
  <1> HIDE DEF t, via
  <1>5. CASE direct # None
    <2>1. direct = GetTransition(t.last, "IDLE") \/ direct = GetTransition(t.last, "DISCOVERY")
      BY <1>1, <1>4, <1>5
    <2> HIDE DEF direct
    <2>2. OnItsWay(StartTransition(t, direct)) /\ StartTransition(t, direct).last = t.last
      BY <1>1, <1>4, <1>5, <2>1, SetOut
    <2> QED BY <1>1, <1>2, <1>4, <1>5, <2>2, Directed DEF StaysOrLeaves
  <1> HIDE DEF direct
  <1>6. OnItsWay(away) /\ away.last = s.last
    <2>1. first \in Transitions /\ first \in {"reset", GetTransition(t.last, "IDLE")}
      BY <1>1, <1>4 DEF Transitions
    <2> HIDE DEF first
    <2> QED BY <1>1, <2>1, SetOut
  <1> HIDE DEF away
  <1>7. CASE direct = None /\ st \in InternalStates
    <2>1. Running(t) /\ CmdTimed(t) /\ Enterable(t, st)
      BY <1>1, <1>7 DEF Settled, Enterable, InternalStates
    <2> QED BY <1>2, <1>7, <2>1, EnteredInternal DEF StaysOrLeaves
  <1>8. CASE direct = None /\ st \notin InternalStates /\ st = "IDLE"
    BY <1>2, <1>6, <1>8, Directed DEF StaysOrLeaves
  <1>9. CASE direct = None /\ st \notin InternalStates /\ st # "IDLE" /\ via # None
    BY <1>2, <1>4, <1>6, <1>9, Queued DEF StaysOrLeaves
  <1>10. CASE direct = None /\ st \notin InternalStates /\ st # "IDLE" /\ via = None
    BY <1>2, <1>6, <1>10, StalledSettled
       DEF StaysOrLeaves, OnItsWay, InternalStates
  <1> QED BY <1>5, <1>7, <1>8, <1>9, <1>10

\* nci_sm_switch_internal
LEMMA SwitchedInternal ==
  ASSUME NEW s, Settled(s), NEW st \in States
  PROVE  /\ Settled(SwitchInternal(s, st))
         /\ s.signals = {} => Resting(SwitchInternal(s, st))
         /\ StaysOrLeaves(s, SwitchInternal(s, st))
  <1> DEFINE d == IF s.trans # None THEN Redirect(s, st) ELSE Depart(s, st)
  <1>1. CASE s.next = st
    <2>1. SwitchInternal(s, st) = s
      BY <1>1 DEF SwitchInternal
    <2> QED BY <2>1 DEF Resting, StaysOrLeaves
  <1>2. CASE s.next # st
    <2>1. SwitchInternal(s, st) = Emit(d)
      BY <1>2 DEF SwitchInternal
    <2>2. Settled(d) /\ StaysOrLeaves(s, d)
      BY <1>2, Redirected, Departed
    <2> HIDE DEF d
    <2> QED BY <2>1, <2>2, Rested DEF Resting, StaysOrLeaves
  <1> QED BY <1>1, <1>2

\* The rest of the state matters to nobody here.
Alike(s, t) == WellFormed(t) /\ SameMachine(s, t) /\ SameCommand(s, t)

\* What is said of a state is said of its likes.
LEMMA SameAsEver ==
  ASSUME NEW s, NEW t, Alike(s, t)
  PROVE  /\ t.last = s.last /\ t.trans = s.trans /\ t.negotiated = s.negotiated
         /\ t.next_trans = s.next_trans /\ t.signals = s.signals
         /\ Running(s) => Running(t)
         /\ Settled(s) => Settled(t)
         /\ Resting(s) => Resting(t)
  <1>1. Running(s) => Running(t)
    BY SameMachineRuns DEF Alike
  <1>2. Settled(s) => Settled(t)
    BY <1>1 DEF Alike, SameMachine, SameStates, SameCommand, Settled, TransTimed, CmdTimed,
           Fits, Aimed, DefaultPayload
  <1> QED BY <1>1, <1>2 DEF Alike, SameMachine, SameStates, Resting

\* The fields that no invariant speaks of
LEMMA Touched ==
  ASSUME NEW s, WellFormed(s)
  PROVE  /\ \A x \in States \cup {None} : Alike(s, [s EXCEPT !.pending_switch = x])
         /\ \A x \in 0 .. 2 : Alike(s, [s EXCEPT !.version = x])
         /\ \A x \in Modes : Alike(s, [s EXCEPT !.op_mode = x])
         /\ \A x \in SUBSET Modes : Alike(s, [s EXCEPT !.used = x])
         /\ \A x \in BOOLEAN : Alike(s, [s EXCEPT !.supported = x])
         /\ \A x \in BOOLEAN : Alike(s, [s EXCEPT !.ntf = x])
         /\ \A x \in BOOLEAN : Alike(s, [s EXCEPT !.expecting_ntf = x])
         /\ \A x \in BOOLEAN : Alike(s, [s EXCEPT !.cmd_id = x])
         /\ \A x \in BOOLEAN : Alike(s, [s EXCEPT !.start_write = x])
         /\ \A x \in Seq(Opcodes) : Alike(s, [s EXCEPT !.wire = x])
  <1>1. s \in SmState /\ (s.writing => s.out # << >>)
    BY DEF WellFormed
  <1>2. ASSUME NEW x \in States \cup {None}
        PROVE  Alike(s, [s EXCEPT !.pending_switch = x])
    BY <1>1 DEF SmState, Alike, WellFormed, SameMachine, SameStates, SameCommand
  <1>3. ASSUME NEW x \in 0 .. 2
        PROVE  Alike(s, [s EXCEPT !.version = x])
    BY <1>1 DEF SmState, Alike, WellFormed, SameMachine, SameStates, SameCommand
  <1>4. ASSUME NEW x \in Modes
        PROVE  Alike(s, [s EXCEPT !.op_mode = x])
    BY <1>1 DEF SmState, Alike, WellFormed, SameMachine, SameStates, SameCommand
  <1>5. ASSUME NEW x \in SUBSET Modes
        PROVE  Alike(s, [s EXCEPT !.used = x])
    BY <1>1 DEF SmState, Alike, WellFormed, SameMachine, SameStates, SameCommand
  <1>6. ASSUME NEW x \in BOOLEAN
        PROVE  /\ Alike(s, [s EXCEPT !.supported = x])
               /\ Alike(s, [s EXCEPT !.ntf = x])
               /\ Alike(s, [s EXCEPT !.expecting_ntf = x])
               /\ Alike(s, [s EXCEPT !.cmd_id = x])
               /\ Alike(s, [s EXCEPT !.start_write = x])
    <2>1. Alike(s, [s EXCEPT !.supported = x])
      BY <1>1 DEF SmState, Alike, WellFormed, SameMachine, SameStates, SameCommand
    <2>2. Alike(s, [s EXCEPT !.ntf = x])
      BY <1>1 DEF SmState, Alike, WellFormed, SameMachine, SameStates, SameCommand
    <2>3. Alike(s, [s EXCEPT !.expecting_ntf = x])
      BY <1>1 DEF SmState, Alike, WellFormed, SameMachine, SameStates, SameCommand
    <2>4. Alike(s, [s EXCEPT !.cmd_id = x])
      BY <1>1 DEF SmState, Alike, WellFormed, SameMachine, SameStates, SameCommand
    <2>5. Alike(s, [s EXCEPT !.start_write = x])
      BY <1>1 DEF SmState, Alike, WellFormed, SameMachine, SameStates, SameCommand
    <2> QED BY <2>1, <2>2, <2>3, <2>4, <2>5
  <1>7. ASSUME NEW x \in Seq(Opcodes)
        PROVE  Alike(s, [s EXCEPT !.wire = x])
    BY <1>1 DEF SmState, Alike, WellFormed, SameMachine, SameStates, SameCommand
  <1> QED BY <1>2, <1>3, <1>4, <1>5, <1>6, <1>7

\* nci_sm_switch_to: only a state that is about to be left stays the same.
LEMMA Switched ==
  ASSUME NEW s, Resting(s), NEW st \in States
  PROVE  Resting(SwitchTo(s, st)) /\ StaysOrLeaves(s, SwitchTo(s, st))
  <1> DEFINE t == [s EXCEPT !.pending_switch = None]
  <1>1. Alike(s, t)
    BY Touched DEF Resting, Settled, Running
  <1>2. SwitchTo(s, st) = SwitchInternal(t, st)
    BY DEF SwitchTo
  <1> HIDE DEF t
  <1>3. Resting(t) /\ Settled(t) /\ t.last = s.last
    BY <1>1, SameAsEver DEF Resting
  <1> QED BY <1>2, <1>3, SwitchedInternal DEF Resting, StaysOrLeaves

-----------------------------------------------------------------------------
(***************************************************************************)
(* Resetting                                                               *)
(***************************************************************************)

\* nci_sm_reset: wherever the machine is, it starts from INIT again.
LEMMA MachineReset ==
  ASSUME NEW s, Running(s)
  PROVE  LET t == SmReset(s)
         IN  /\ Resting(t)
             /\ t.last = "INIT" /\ t.next = "IDLE" /\ t.trans = "reset"
             /\ t.next_trans = None /\ t.negotiated = s.negotiated
  <1> DEFINE p == [s EXCEPT !.pending_switch = None]
             a == [p EXCEPT !.next_trans = None]
             b == Begin(a, "INIT")
             c == [b EXCEPT !.next_trans = None]
             l == SetLast(c, "INIT")
             e == SetNext(l, "INIT")
             f == [e EXCEPT !.next_trans = None]
             g == StartTransition(f, "reset")
             h == SetNext(g, "IDLE")
  <1>0. {"INIT", "IDLE"} \subseteq States
    BY StateFacts
  <1>1. a = [s EXCEPT !.pending_switch = None, !.next_trans = None]
    OBVIOUS
  <1>2. SmReset(s) = SwitchInternal(EnterInternal(a, "INIT"), "IDLE")
    BY <1>1 DEF SmReset
  <1>3. Running(p) /\ p.negotiated = s.negotiated
    BY Touched, SameAsEver DEF Running
  <1> HIDE DEF p
  <1>4. Running(a) /\ a.next_trans = None /\ a.negotiated = s.negotiated
    BY <1>3, Unqueued
  <1> HIDE DEF a
  <1>5. /\ Running(b) /\ b.trans = None /\ b.timers = {} /\ b.next_trans = None
        /\ b.negotiated = (s.negotiated /\ "INIT" # "DISCOVERY")
    BY <1>0, <1>4, Begun
  <1>6. EnterInternal(a, "INIT") =
          LET u == SetLast(IF b.next_trans # None /\ Dest(b.next_trans) # "INIT"
                           THEN StartTransition(c, b.next_trans) ELSE c, "INIT")
          IN  IF u.trans = None THEN SetNext(u, "INIT") ELSE u
    BY DEF EnterInternal, End
  <1> HIDE DEF b
  <1>7. /\ Running(c) /\ c.trans = None /\ c.timers = {} /\ c.next_trans = None
        /\ c.negotiated = b.negotiated
    BY <1>5, Unqueued
  <1> HIDE DEF c
  <1>8. /\ Running(l) /\ l.last = "INIT" /\ l.trans = None /\ l.timers = {}
        /\ l.next_trans = None /\ l.negotiated = c.negotiated
    BY <1>0, <1>7, LastSet
  <1>9. EnterInternal(a, "INIT") = e
    BY <1>5, <1>6, <1>8
  <1> HIDE DEF l
  <1>10. /\ Running(e) /\ e.last = "INIT" /\ e.next = "INIT" /\ e.trans = None
         /\ e.next_trans = None /\ e.negotiated = l.negotiated
    BY <1>0, <1>8, NextSet
  <1> HIDE DEF e
  <1>11. Running(f) /\ f.last = "INIT" /\ f.next_trans = None /\ f.negotiated = e.negotiated
    BY <1>10, Unqueued
  <1>12. SmReset(s) = Emit(h)
    <2>1. Depart(e, "IDLE") = h
      BY <1>10 DEF Depart, GetTransition, InternalStates
    <2> HIDE DEF h
    <2> QED BY <1>2, <1>9, <1>10, <2>1 DEF SwitchInternal
  <1> HIDE DEF f
  <1>13. /\ Running(g) /\ g.last = "INIT" /\ g.trans = "reset"
         /\ TransTimed(g) /\ CmdTimed(g)
         /\ g.next_trans = None /\ g.negotiated = f.negotiated
    BY <1>11, TransitionStarted DEF Transitions, SameStates
  <1> HIDE DEF g
  <1>14. OnItsWay(g)
    BY <1>13 DEF OnItsWay, Fits, DefaultPayload, None
  <1>15. Settled(h)
    BY <1>14, Directed
  <1>16. /\ h.last = "INIT" /\ h.next = "IDLE" /\ h.trans = "reset"
         /\ h.next_trans = None /\ h.negotiated = g.negotiated
    BY <1>0, <1>13, NextSet
  <1>17. h.negotiated = s.negotiated
    <2>1. b.negotiated = s.negotiated
      <3>1. s.negotiated \in BOOLEAN
        BY DEF Running, WellFormed, SmState
      <3> QED BY <1>5, <3>1
    <2> QED BY <1>7, <1>8, <1>10, <1>11, <1>13, <1>16, <2>1
  <1> HIDE DEF h
  <1>18. /\ Emit(h).last = h.last /\ Emit(h).next = h.next /\ Emit(h).trans = h.trans
         /\ Emit(h).next_trans = h.next_trans /\ Emit(h).negotiated = h.negotiated
    BY <1>15, Emitted DEF Settled
  <1> QED BY <1>12, <1>15, <1>16, <1>17, <1>18, Rested

\* nci_sar_reset: it may fail the machine, but leaves it in order.
LEMMA SarWasReset ==
  ASSUME NEW s, Running(s)
  PROVE  Running(SarReset(s)) /\ SarReset(s).negotiated = s.negotiated
  <1> DEFINE t == [s EXCEPT !.out = << >>, !.writing = FALSE, !.start_write = FALSE]
             u == [t EXCEPT !.cmd_id = FALSE]
  <1>1. s \in SmState
    BY DEF Running, WellFormed
  <1>2. t \in SmState
    <2> DEFINE out == << >>
    <2>1. out \in Seq([op : Opcodes, complete : BOOLEAN])
      OBVIOUS
    <2>2. t = [s EXCEPT !.out = out, !.writing = FALSE, !.start_write = FALSE]
      OBVIOUS
    <2> HIDE DEF out, t
    <2> QED BY <1>1, <2>1, <2>2 DEF SmState
  <1>3. WellFormed(t) /\ SameMachine(s, t)
    BY <1>1, <1>2 DEF WellFormed, SmState, SameMachine, SameStates
  <1>4. SarReset(s) = IF s.writing /\ s.out[1].complete THEN Error(u) ELSE t
    BY DEF SarReset
  <1> HIDE DEF t
  <1>5. Running(t) /\ t.negotiated = s.negotiated
    BY <1>3, SameMachineRuns DEF SameMachine, SameStates
  <1>6. Running(u) /\ u.negotiated = t.negotiated
    BY <1>3, <1>5, Touched, SameAsEver
  <1> HIDE DEF u
  <1>7. Running(Error(u)) /\ Error(u).negotiated = u.negotiated
    BY <1>6, Failed DEF Resting, Settled
  <1> QED BY <1>4, <1>5, <1>6, <1>7

\* nci_core_restart_internal
LEMMA Restarting ==
  ASSUME NEW s, Running(s)
  PROVE  LET t == RestartInternal(s)
         IN  /\ Resting(t)
             /\ t.last = "INIT" /\ t.next = "IDLE" /\ t.trans = "reset"
             /\ t.next_trans = None /\ t.negotiated = s.negotiated
  <1> DEFINE c == CancelCommand(s)
             r == SarReset(c)
  <1>1. Running(c) /\ c.negotiated = s.negotiated
    BY CommandCancelled, SameMachineRuns DEF Running, SameMachine, SameStates
  <1>2. RestartInternal(s) = SmReset(r)
    BY DEF RestartInternal
  <1> HIDE DEF c
  <1>3. Running(r) /\ r.negotiated = c.negotiated
    BY <1>1, SarWasReset
  <1> HIDE DEF r
  <1> QED BY <1>1, <1>2, <1>3, MachineReset

\* What client code does in the middle of a handler
LEMMA Reacted ==
  ASSUME NEW s, Resting(s), NEW r \in Reactions
  PROVE  Resting(React(s, r)) /\ StaysOrLeaves(s, React(s, r))
  <1>1. CASE r = "nothing"
    BY <1>1 DEF React, StaysOrLeaves
  <1>2. CASE r = "restart"
    <2>1. React(s, r) = RestartInternal(s)
      BY <1>2 DEF React
    <2> QED BY <2>1, Restarting DEF Resting, Settled, StaysOrLeaves, InternalStates
  <1>3. CASE r \notin {"nothing", "restart"}
    <2>1. React(s, r) = SwitchTo(s, r) /\ r \in States
      BY <1>3, StateFacts DEF React, Reactions
    <2> QED BY <2>1, Switched
  <1> QED BY <1>1, <1>2, <1>3

-----------------------------------------------------------------------------
(***************************************************************************)
(* Events: what is at rest is at rest again, and has made no other move    *)
(* than NciRfStates allows.                                                *)
(***************************************************************************)
Sound(s, t) == Resting(t) /\ Follows(s, t)

\* ERROR, INIT and STOP may be entered from anywhere.
LEMMA LeavingIsFine ==
  ASSUME NEW s, NEW t, Resting(t), StaysOrLeaves(s, t)
  PROVE  Sound(s, t)
  BY DEF Sound, Follows, StaysOrLeaves, InternalStates, Promise!Successors,
     Promise!InternalStates

\* Staying in the same state is no move.
LEMMA StayingIsFine ==
  ASSUME NEW s, NEW t, Resting(t), t.last = s.last
  PROVE  Sound(s, t)
  BY DEF Sound, Follows

\* A failure is a move to ERROR.
LEMMA FailingIsFine ==
  ASSUME NEW s, NEW t, Running(t)
  PROVE  Sound(s, Error(t))
  BY Failed, LeavingIsFine DEF StaysOrLeaves, InternalStates

\* Sending a command changes nothing else.
LEMMA SendingIsFine ==
  ASSUME NEW s, Resting(s), NEW h \in Handlers
  PROVE  Resting(IoSend(s, h)) /\ IoSend(s, h).last = s.last
  <1> DEFINE t == IoSend(s, h)
  <1>1. WellFormed(t) /\ SameMachine(s, t) /\ CmdTimed(t)
    BY IoSent DEF Resting, Settled, Running
  <1> HIDE DEF t
  <1>2. Running(t)
    BY <1>1, SameMachineRuns DEF Resting, Settled
  <1> QED BY <1>1, <1>2 DEF t, Resting, Settled, SameMachine, SameStates, TransTimed, Fits,
             Aimed, DefaultPayload

\* nci_sm_enter_state for a state that the current one leads to
LEMMA EnteringIsFine ==
  ASSUME NEW s, Resting(s), NEW st \in States,
         s.trans = None => s.last # "ERROR",
         s.trans # None => st \in {"IDLE", "DISCOVERY"},
         st \in {"W4_ALL_DISCOVERIES", "W4_HOST_SELECT"} => ~s.negotiated,
         st = s.last \/ st \in Promise!Successors(s.last)
  PROVE  Sound(s, Enter(s, st)) /\ Enter(s, st).last = st
  <1>1. Resting(Enter(s, st)) /\ Enter(s, st).last = st
    BY EnterableAtRest, Entered DEF Resting
  <1> QED BY <1>1 DEF Sound, Follows

\* The states that a transition may be active in, as nci_sm_new adds them
LEMMA TransitionStates ==
  ASSUME NEW s, Resting(s)
  PROVE  /\ s.last \in States
         /\ s.trans = "idle_to_discovery" => s.last = "IDLE"
         /\ s.trans = "deactivate_to_discovery" => s.last \in {"POLL_ACTIVE", "LISTEN_ACTIVE"}
         /\ s.trans = "poll_active_to_idle" => s.last = "POLL_ACTIVE"
         /\ s.trans = "listen_active_to_idle" => s.last = "LISTEN_ACTIVE"
  <1>1. s.last \in States /\ Fits(s)
    BY DEF Resting, Settled, Running, WellFormed, SmState
  <1> QED BY <1>1 DEF Fits, GetTransition, None

\* The end of any transition may be IDLE.
LEMMA IdleEntered ==
  ASSUME NEW s, Resting(s), s.trans # None \/ s.last = "POLL_ACTIVE"
  PROVE  Sound(s, Enter(s, "IDLE"))
  <1>1. s.last \in States
    BY TransitionStates
  <1>2. "IDLE" = s.last \/ "IDLE" \in Promise!Successors(s.last)
    BY <1>1 DEF States, InternalStates, BeyondIdle, Promise!Successors, Promise!InternalStates
  <1> QED BY <1>2, StateFacts, EnteringIsFine

\* DISCOVERY is the end of two transitions, and of any activation.
LEMMA DiscoveryEntered ==
  ASSUME NEW s, Resting(s),
         \/ s.trans \in {"idle_to_discovery", "deactivate_to_discovery", "poll_active_to_idle"}
         \/ s.last \in {"POLL_ACTIVE", "LISTEN_ACTIVE", "LISTEN_SLEEP"}
  PROVE  Sound(s, Enter(s, "DISCOVERY"))
  <1>1. s.last \in {"IDLE", "POLL_ACTIVE", "LISTEN_ACTIVE", "LISTEN_SLEEP"}
    BY TransitionStates
  <1>2. "DISCOVERY" \in Promise!Successors(s.last)
    BY <1>1 DEF Promise!Successors, Promise!InternalStates
  <1> QED BY <1>1, <1>2, StateFacts, EnteringIsFine

-----------------------------------------------------------------------------
(***************************************************************************)
(* Responses                                                               *)
(***************************************************************************)

\* The commands that prepare discovery record what they are built from.
LEMMA Configured ==
  ASSUME NEW s, Resting(s), NEW h \in Handlers
  PROVE  Sound(s, Configure(s, h))
  <1> DEFINE used == s.used \cup {s.op_mode}
             t == [s EXCEPT !.used = used]
  <1>1. used \in SUBSET Modes /\ WellFormed(s)
    BY DEF Resting, Settled, Running, WellFormed, SmState
  <1> HIDE DEF used
  <1>2. Resting(t) /\ t.last = s.last
    BY <1>1, Touched, SameAsEver
  <1>3. Configure(s, h) = IoSend(t, h)
    BY DEF Configure, used
  <1> HIDE DEF t
  <1> QED BY <1>2, <1>3, SendingIsFine, StayingIsFine

\* The NFCC is asked for one kind of listen mode routing, or for none.
LEMMA RoutingConfigured ==
  ASSUME NEW s, Resting(s)
  PROVE  Sound(s, ConfigureRouting(s))
  <1> DEFINE kind == IF s.op_mode \in ListenModes THEN s.routing ELSE None
             h == CASE kind = "mixed" -> "mixed"
                    [] kind = "protocol" -> "last_protocol"
                    [] kind = "technology" -> "technology"
                    [] kind = None -> "map"
  <1>1. kind \in AllRoutingKinds
    BY DEF Resting, Settled, Running, WellFormed, SmState, AllRoutingKinds
  <1>2. ConfigureRouting(s) = Configure(s, h)
    BY DEF ConfigureRouting
  <1> HIDE DEF kind
  <1>3. h \in Handlers
    BY <1>1 DEF AllRoutingKinds, None, Handlers, DiscoveryHandlers
  <1> HIDE DEF h
  <1> QED BY <1>2, <1>3, Configured

\* The answers that a response handler may be given
LEMMA AnswerFacts ==
  ASSUME NEW h \in Handlers, NEW a \in AnswersTo(Opcode(h))
  PROVE  /\ h = "reset" => a \in {"v1", "v2", "bad"}
         /\ h = "init" => a = "bad" \/ a \in AllRoutingKinds
         /\ {"init", "reset_config", "map", "protocol", "technology", "discover",
             "set_config", "to_discovery_idle"} \subseteq Handlers
  BY SmAssumption DEF AnswersTo, Opcode, Handlers, ResetHandlers, DiscoveryHandlers,
     DeactivateHandlers

\* nci_transition_reset_init_v1_rsp, nci_transition_reset_init_v2_rsp: the RF
\* interface has the default data payload size.
LEMMA Initialized ==
  ASSUME NEW s, Resting(s), NEW a \in AllRoutingKinds \cup {"bad"}
  PROVE  Sound(s, InitRsp(s, a))
  <1> DEFINE t == [s EXCEPT !.routing = a, !.negotiated = FALSE]
  <1>1. CASE a = "bad"
    <2>1. InitRsp(s, a) = Error(s)
      BY <1>1 DEF InitRsp
    <2> QED BY <2>1, FailingIsFine DEF Resting, Settled
  <1>2. CASE a # "bad"
    <2>1. InitRsp(s, a) = IoSend(t, "reset_config")
      BY <1>2 DEF InitRsp
    <2>2. s \in SmState /\ a \in AllRoutingKinds
      BY <1>2 DEF Resting, Settled, Running, WellFormed
    <2>3. t \in SmState
      BY <2>2 DEF SmState
    <2>4. /\ t.last = s.last /\ t.next = s.next /\ t.signals = s.signals
          /\ t.current_state = s.current_state /\ t.next_state = s.next_state
          /\ t.trans = s.trans /\ t.timers = s.timers
          /\ t.next_trans = s.next_trans /\ t.negotiated = FALSE
          /\ t.out = s.out /\ t.writing = s.writing
          /\ SameCommand(s, t)
      BY <2>2 DEF SmState, SameCommand
    <2> HIDE DEF t
    <2>5. Running(t)
      BY <2>3, <2>4 DEF Resting, Settled, Running, WellFormed, Signalled
    <2>6. Resting(t)
      BY <2>4, <2>5 DEF Resting, Settled, TransTimed, CmdTimed, SameCommand, Fits, Aimed,
             DefaultPayload
    <2>7. "reset_config" \in Handlers
      BY DEF Handlers, ResetHandlers
    <2> QED BY <2>1, <2>4, <2>6, <2>7, SendingIsFine, StayingIsFine
  <1> QED BY <1>1, <1>2

\* nci_transition_reset_reset_rsp
LEMMA ResetAnswered ==
  ASSUME NEW s, Resting(s), NEW a \in {"v1", "v2", "bad"}
  PROVE  Sound(s, ResetRsp(s, a))
  <1> DEFINE one == [s EXCEPT !.version = 1]
             two == [s EXCEPT !.version = 2]
  <1>1. /\ Resting(one) /\ one.last = s.last
        /\ Resting(two) /\ two.last = s.last
    <2>1. WellFormed(s) /\ 1 \in 0 .. 2 /\ 2 \in 0 .. 2
      BY DEF Resting, Settled, Running
    <2>2. Alike(s, one) /\ Alike(s, two)
      BY <2>1, Touched
    <2> HIDE DEF one, two
    <2> QED BY <2>2, SameAsEver
  <1>2. ResetRsp(s, a) = CASE a = "v1" -> IoSend(one, "init")
                           [] a = "v2" -> two
                           [] a = "bad" -> Error(s)
    BY DEF ResetRsp
  <1> HIDE DEF one, two
  <1>3. "init" \in Handlers
    BY DEF Handlers, ResetHandlers
  <1>4. Sound(s, IoSend(one, "init")) /\ Sound(s, two)
    BY <1>1, <1>3, SendingIsFine, StayingIsFine
  <1>5. Sound(s, Error(s))
    BY FailingIsFine DEF Resting, Settled
  <1> QED BY <1>2, <1>4, <1>5

\* The handlers of the transitions: reset, RFST_IDLE to RFST_DISCOVERY and the
\* ones that deactivate.
LEMMA Answered ==
  ASSUME NEW s, Resting(s), NEW h \in Handlers, NEW a \in AnswersTo(Opcode(h)),
         Owner(h) # None, s.trans = Owner(h)
  PROVE  Sound(s, OnResponse(s, h, a))
  <1>1. Sound(s, Error(s)) /\ Sound(s, s)
    BY FailingIsFine, StayingIsFine DEF Resting, Settled
  <1>2. Sound(s, Enter(s, "IDLE"))
    BY IdleEntered
  <1>3. \A k \in Handlers : Sound(s, Configure(s, k)) /\ Sound(s, IoSend(s, k))
    BY Configured, SendingIsFine, StayingIsFine
  <1>4. Sound(s, ConfigureRouting(s))
    BY RoutingConfigured
  <1>5. CASE h = "reset"
    <2>1. OnResponse(s, h, a) = ResetRsp(s, a)
      BY <1>5 DEF OnResponse
    <2> QED BY <1>5, <2>1, AnswerFacts, ResetAnswered
  <1>6. CASE h = "init"
    <2>1. OnResponse(s, h, a) = InitRsp(s, a)
      BY <1>6 DEF OnResponse
    <2>2. a \in AllRoutingKinds \cup {"bad"}
      BY <1>6, AnswerFacts
    <2> QED BY <2>1, <2>2, Initialized
  <1>7. CASE h \in {"reset_config", "to_idle", "to_discovery_idle", "poll_to_idle"}
    <2>1. OnResponse(s, h, a) \in {s, Enter(s, "IDLE"), Error(s)}
      BY <1>7 DEF OnResponse, ResetConfigRsp, ToIdleRsp, ToDiscoveryIdleRsp, PollToIdleRsp
    <2> QED BY <1>1, <1>2, <2>1
  <1>8. CASE h \in {"get_config", "set_config"}
    <2>1. OnResponse(s, h, a) \in {ConfigureRouting(s), Configure(s, "set_config")}
      BY <1>8 DEF OnResponse, GetConfigRsp, SetConfigRsp
    <2> QED BY <1>3, <1>4, <2>1, AnswerFacts
  <1>9. CASE h \in {"mixed", "protocol", "last_protocol", "technology"}
    <2>1. OnResponse(s, h, a) \in {Configure(s, "map"), Configure(s, "protocol"),
                                   Configure(s, "technology")}
      BY <1>9 DEF OnResponse, MixedRsp, ProtocolRsp, LastRoutingRsp
    <2> QED BY <1>3, <2>1, AnswerFacts
  <1>10. CASE h = "map"
    <2>1. OnResponse(s, h, a) \in {Configure(s, "discover"), Error(s)}
      BY <1>10 DEF OnResponse, MapRsp
    <2> QED BY <1>1, <1>3, <2>1, AnswerFacts
  <1>11. CASE h = "discover"
    <2>1. OnResponse(s, h, a) \in {Enter(s, "DISCOVERY"), Error(s)}
      BY <1>11 DEF OnResponse, DiscoverRsp
    <2>2. s.trans = "idle_to_discovery"
      BY <1>11 DEF Owner, ResetHandlers, DiscoveryHandlers
    <2> QED BY <1>1, <2>1, <2>2, DiscoveryEntered
  <1>12. CASE h = "to_discovery"
    <2>1. OnResponse(s, h, a) \in {s, IoSend(s, "to_discovery_idle")}
      BY <1>12 DEF OnResponse, ToDiscoveryRsp
    <2> QED BY <1>1, <1>3, <2>1, AnswerFacts
  <1>13. CASE h = "listen_to_idle"
    <2> DEFINE t == [s EXCEPT !.expecting_ntf = TRUE]
    <2>1. Resting(t) /\ t.last = s.last
      BY Touched, SameAsEver DEF Resting, Settled, Running
    <2>2. OnResponse(s, h, a) = ListenToIdleRsp(s, a)
      BY <1>13 DEF OnResponse
    <2>3. OnResponse(s, h, a) \in {t, Enter(s, "IDLE"), Error(s)}
      BY <2>2 DEF ListenToIdleRsp
    <2> HIDE DEF t
    <2> QED BY <1>1, <1>2, <2>1, <2>3, StayingIsFine
  <1>14. h # "select"
    BY DEF Owner, ResetHandlers, DiscoveryHandlers
  <1> QED BY <1>5, <1>6, <1>7, <1>8, <1>9, <1>10, <1>11, <1>12, <1>13, <1>14
          DEF Handlers, ResetHandlers, DiscoveryHandlers, DeactivateHandlers

\* nci_core_sar_handle_response: whoever waited for the response waits no more.
LEMMA ResponseHandled ==
  ASSUME NEW s, Resting(s), NEW op \in Opcodes, NEW a \in AnswersTo(op)
  PROVE  Sound(s, HandleResponse(s, op, a))
  <1> DEFINE h == s.rsp_handler
             t == [s EXCEPT !.cmd_timeout = FALSE, !.cmd_id = FALSE, !.rsp_handler = None]
  <1>1. s \in SmState /\ h \in Handlers \cup {None}
    BY DEF Resting, Settled, Running, WellFormed, SmState
  <1>2. t \in SmState
    BY <1>1 DEF SmState
  <1>3. /\ SameMachine(s, t) /\ t.out = s.out /\ t.writing = s.writing
        /\ t.rsp_handler = None /\ t.cmd_timeout = FALSE
    BY <1>1 DEF SmState, SameMachine, SameStates
  <1>4. HandleResponse(s, op, a) =
          IF h = None THEN s
          ELSE IF Opcode(h) # op THEN s
          ELSE IF Owner(h) = None \/ Owner(h) # s.trans THEN t
          ELSE OnResponse(t, h, a)
    BY DEF HandleResponse
  <1> HIDE DEF t, h
  <1>5. Running(t)
    BY <1>2, <1>3, SameMachineRuns DEF Resting, Settled, Running, WellFormed
  <1>6. Resting(t) /\ t.last = s.last /\ t.trans = s.trans
    BY <1>3, <1>5 DEF Resting, Settled, SameMachine, SameStates, TransTimed, CmdTimed, Fits,
           Aimed, DefaultPayload
  <1>7. Sound(s, s) /\ Sound(s, t)
    BY <1>6, StayingIsFine
  <1>8. CASE h # None /\ Opcode(h) = op /\ Owner(h) # None /\ Owner(h) = s.trans
    <2>1. Sound(t, OnResponse(t, h, a))
      BY <1>1, <1>6, <1>8, Answered
    <2> QED BY <1>4, <1>6, <1>8, <2>1 DEF Sound, Follows
  <1> QED BY <1>4, <1>7, <1>8

-----------------------------------------------------------------------------
(***************************************************************************)
(* Notifications                                                           *)
(***************************************************************************)

\* What is true when nci_state_enter returns, for a state that collects targets
\* or selects one of them: only a restart may have got in between.
InEntry(s) ==
    /\ Running(s)
    /\ TransTimed(s)
    /\ CmdTimed(s)
    /\ s.next_trans = None
    /\ ~s.negotiated
    /\ s.trans # None => s.trans = "reset" /\ s.next = "IDLE"

\* The end of such an entry
LEMMA EntryEnded ==
  ASSUME NEW s, InEntry(s), NEW st \in States
  PROVE  /\ Resting(Emit(End(s, st)))
         /\ Emit(End(s, st)).last = st
         /\ Emit(End(s, st)).trans = s.trans
         /\ s.trans = None /\ st = "W4_HOST_SELECT" => InEntry(Emit(End(s, st)))
  <1> DEFINE t == End(s, st)
             e == Emit(t)
  <1>1. /\ Settled(t) /\ t.last = st /\ t.next_trans = None
        /\ t.trans = s.trans
    BY Ended DEF InEntry, Enterable
  <1> HIDE DEF t
  <1>2. Resting(e) /\ e.last = st
    BY <1>1, Rested
  <1>3. e.trans = t.trans /\ e.next_trans = t.next_trans
    BY <1>1, Emitted DEF Settled
  <1> HIDE DEF e
  <1>4. ASSUME s.trans = None, st = "W4_HOST_SELECT"
        PROVE  InEntry(e)
    BY <1>1, <1>2, <1>3, <1>4 DEF InEntry, Resting, Settled, DefaultPayload
  <1> QED BY <1>1, <1>2, <1>3, <1>4 DEF e, t

\* nci_state_w4_host_select_entered
LEMMA HostSelectEntered ==
  ASSUME NEW s, Running(s), CmdTimed(s), s.next_trans = None, ~s.negotiated
  PROVE  LET t == EnterHostSelect(s)
         IN  Resting(t) /\ t.last = "W4_HOST_SELECT" /\ InEntry(t) /\ t.trans = None
  <1> DEFINE t == Begin(s, "W4_HOST_SELECT")
             u == IF s.supported THEN IoSend(t, "select")
                                 ELSE [t EXCEPT !.pending_switch = "DISCOVERY"]
  <1>1. /\ Running(t) /\ t.trans = None /\ t.timers = {} /\ t.next_trans = None
        /\ ~t.negotiated /\ SameCommand(s, t)
    BY StateFacts, Begun
  <1>2. EnterHostSelect(s) = Emit(End(u, "W4_HOST_SELECT"))
    BY DEF EnterHostSelect
  <1> HIDE DEF t
  <1>3. InEntry(t)
    BY <1>1 DEF InEntry, TransTimed, CmdTimed, SameCommand
  <1>4. InEntry(u) /\ u.trans = None
    <2>1. CASE s.supported
      <3> DEFINE i == IoSend(t, "select")
      <3>1. "select" \in Handlers
        BY DEF Handlers
      <3>2. WellFormed(i) /\ SameMachine(t, i) /\ CmdTimed(i)
        BY <1>1, <3>1, IoSent DEF Running
      <3>3. u = i
        BY <2>1
      <3> HIDE DEF i, u
      <3>4. Running(i)
        BY <1>1, <3>2, SameMachineRuns
      <3> QED BY <1>1, <1>3, <3>2, <3>3, <3>4
              DEF InEntry, SameMachine, SameStates, TransTimed
    <2>2. CASE ~s.supported
      <3> DEFINE p == [t EXCEPT !.pending_switch = "DISCOVERY"]
      <3>1. Alike(t, p)
        BY <1>1, StateFacts, Touched DEF Running
      <3>2. u = p
        BY <2>2
      <3> HIDE DEF p, u
      <3>3. Running(p)
        BY <1>1, <3>1, SameAsEver
      <3> QED BY <1>1, <1>3, <3>1, <3>2, <3>3
              DEF InEntry, Alike, SameMachine, SameStates, SameCommand, TransTimed, CmdTimed
    <2> QED BY <2>1, <2>2
  <1> HIDE DEF u
  <1> QED BY <1>2, <1>4, StateFacts, EntryEnded

\* nci_state_w4_all_discoveries_handle_discovery, within the entry of the state
LEMMA DiscoveryHandled ==
  ASSUME NEW s, InEntry(s), s.trans = None, NEW n, n.supported \in BOOLEAN
  PROVE  InEntry(HandleDiscovery(s, n)) /\ HandleDiscovery(s, n).trans = None
  <1> DEFINE supported == s.supported \/ n.supported
             t == [s EXCEPT !.supported = supported]
  <1>1. supported \in BOOLEAN /\ WellFormed(s)
    BY DEF InEntry, Running, WellFormed, SmState
  <1> HIDE DEF supported
  <1>2. Alike(s, t)
    BY <1>1, Touched
  <1>3. HandleDiscovery(s, n) = IF n.last THEN EnterHostSelect(t) ELSE t
    BY DEF HandleDiscovery, supported
  <1> HIDE DEF t
  <1>4. Running(t)
    BY <1>2, SameAsEver DEF InEntry
  <1>5. InEntry(t) /\ t.trans = None
    BY <1>2, <1>4 DEF InEntry, Alike, SameMachine, SameStates, SameCommand, TransTimed, CmdTimed
  <1>6. CASE n.last
    <2> DEFINE e == EnterHostSelect(t)
    <2>1. InEntry(e) /\ e.trans = None
      BY <1>5, HostSelectEntered DEF InEntry
    <2> QED BY <1>3, <1>6, <2>1
  <1> QED BY <1>3, <1>5, <1>6

\* nci_core_set_state and nci_core_restart, called in the middle of an entry
LEMMA ReactedInside ==
  ASSUME NEW s, InEntry(s), s.trans = None, NEW r \in Reactions
  PROVE  InEntry(ReactInside(s, r))
  <1>1. CASE r = "nothing"
    BY <1>1 DEF ReactInside
  <1>2. CASE r = "restart"
    <2> DEFINE t == RestartInternal(s)
    <2>1. /\ Resting(t) /\ t.next = "IDLE" /\ t.trans = "reset"
          /\ t.next_trans = None /\ t.negotiated = s.negotiated
      BY Restarting DEF InEntry
    <2>2. ReactInside(s, r) = t
      BY <1>2 DEF ReactInside
    <2> HIDE DEF t
    <2> QED BY <2>1, <2>2 DEF InEntry, Resting, Settled
  <1>3. CASE r \notin {"nothing", "restart"}
    <2> DEFINE p == [s EXCEPT !.pending_switch = r]
    <2>1. ReactInside(s, r) = p /\ r \in States
      BY <1>3, StateFacts DEF ReactInside, Reactions
    <2>2. Alike(s, p)
      BY <2>1, Touched DEF InEntry, Running
    <2> HIDE DEF p
    <2>3. Running(p)
      BY <2>2, SameAsEver DEF InEntry
    <2> QED BY <2>1, <2>2, <2>3
            DEF InEntry, Alike, SameMachine, SameStates, SameCommand, TransTimed, CmdTimed
  <1> QED BY <1>1, <1>2, <1>3

\* nci_state_discovery_handle_ntf: with the first discovery the machine gets
\* to W4_ALL_DISCOVERIES, even where it has been in W4_HOST_SELECT already.
LEMMA AllDiscoveriesEntered ==
  ASSUME NEW s, Resting(s), s.trans = None, s.last = "DISCOVERY",
         NEW n, n.supported \in BOOLEAN, NEW r \in Reactions
  PROVE  Sound(s, EnterAllDiscoveries(s, n, r))
  <1> DEFINE b == Begin(s, "W4_ALL_DISCOVERIES")
             t == [b EXCEPT !.supported = FALSE]
             h == HandleDiscovery(t, n)
             i == ReactInside(h, r)
  <1>1. s.next_trans = None /\ ~s.negotiated
    BY DEF Resting, Settled, Aimed, DefaultPayload
  <1>2. /\ Running(b) /\ b.trans = None /\ b.timers = {} /\ b.next_trans = None
        /\ ~b.negotiated /\ SameCommand(s, b)
    BY <1>1, StateFacts, Begun DEF Resting, Settled
  <1>3. EnterAllDiscoveries(s, n, r) = Emit(End(i, "W4_ALL_DISCOVERIES"))
    BY DEF EnterAllDiscoveries
  <1> HIDE DEF b
  <1>4. InEntry(b)
    BY <1>2 DEF Resting, Settled, InEntry, TransTimed, CmdTimed, SameCommand
  <1>5. Alike(b, t)
    BY <1>2, Touched DEF Running
  <1> HIDE DEF t
  <1>6. Running(t)
    BY <1>2, <1>5, SameAsEver
  <1>7. InEntry(t) /\ t.trans = None
    BY <1>2, <1>4, <1>5, <1>6 DEF InEntry, Alike, SameMachine, SameStates, SameCommand,
       TransTimed, CmdTimed
  <1>8. InEntry(h) /\ h.trans = None
    BY <1>7, DiscoveryHandled
  <1> HIDE DEF h
  <1>9. InEntry(i)
    BY <1>8, ReactedInside
  <1> HIDE DEF i
  <1>10. /\ Resting(Emit(End(i, "W4_ALL_DISCOVERIES")))
         /\ Emit(End(i, "W4_ALL_DISCOVERIES")).last = "W4_ALL_DISCOVERIES"
    BY <1>9, StateFacts, EntryEnded
  <1> QED BY <1>3, <1>10 DEF Sound, Follows, Promise!Successors, Promise!InternalStates

\* What the parsers make of a notification
LEMMA NotificationFacts ==
  ASSUME NEW n \in Notifications
  PROVE  /\ n.ntf = "discover" => n.last \in BOOLEAN /\ n.supported \in BOOLEAN
         /\ n.ntf = "activated" => n.listen \in BOOLEAN /\ n.ok \in BOOLEAN
  BY DEF Notifications

\* nci_sm_handle_rf_deactivate_ntf
LEMMA Deactivated ==
  ASSUME NEW s, Resting(s),
         \/ s.trans \in {"deactivate_to_discovery", "poll_active_to_idle"}
         \/ s.trans = None /\ s.last = "POLL_ACTIVE",
         NEW n
  PROVE  Sound(s, RfDeactivate(s, n))
  <1>1. Sound(s, Enter(s, "IDLE")) /\ Sound(s, Enter(s, "DISCOVERY"))
    BY IdleEntered, DiscoveryEntered DEF None
  <1>2. Sound(s, Error(s))
    BY FailingIsFine DEF Resting, Settled
  <1>3. RfDeactivate(s, n) \in {Enter(s, "IDLE"), Enter(s, "DISCOVERY"), Error(s)}
    BY DEF RfDeactivate
  <1> QED BY <1>1, <1>2, <1>3

\* nci_transition_handle_ntf
LEMMA TransitionNotified ==
  ASSUME NEW s, Resting(s), s.trans # None, NEW n
  PROVE  Sound(s, TransitionNtf(s, n))
  <1> DEFINE t == [s EXCEPT !.ntf = TRUE]
  <1>1. Sound(s, s) /\ Sound(s, Error(s)) /\ Sound(s, Enter(s, "IDLE"))
    BY IdleEntered, StayingIsFine, FailingIsFine DEF Resting, Settled
  <1>2. Sound(s, IoSend(s, "init"))
    BY SendingIsFine, StayingIsFine DEF Handlers, ResetHandlers
  <1>3. Sound(s, t)
    <2>1. Alike(s, t)
      BY Touched DEF Resting, Settled, Running
    <2> HIDE DEF t
    <2> QED BY <2>1, SameAsEver, StayingIsFine
  <1>4. s.trans \in {"deactivate_to_discovery", "poll_active_to_idle"}
          => Sound(s, RfDeactivate(s, n))
    BY Deactivated
  <1>5. ListenToIdleNtf(s, n) \in {Error(s), Enter(s, "IDLE"), t}
    BY DEF ListenToIdleNtf
  <1>6. ResetNtf(s) \in {IoSend(s, "init"), s}
    BY DEF ResetNtf
  <1> HIDE DEF t
  <1>7. \/ TransitionNtf(s, n) \in {ResetNtf(s), ListenToIdleNtf(s, n), s}
        \/ /\ s.trans \in {"deactivate_to_discovery", "poll_active_to_idle"}
           /\ TransitionNtf(s, n) = RfDeactivate(s, n)
    BY DEF TransitionNtf
  <1> QED BY <1>1, <1>2, <1>3, <1>4, <1>5, <1>6, <1>7

\* RF_INTF_ACTIVATED_NTF: the data payload size is negotiated for a target, or
\* for a machine that client code has sent away in the meantime.
LEMMA ActivationHandled ==
  ASSUME NEW s, Resting(s), s.trans = None,
         NEW st \in {"POLL_ACTIVE", "LISTEN_ACTIVE"}, st \in Promise!Successors(s.last),
         s.last # "ERROR", NEW n, NEW r \in Reactions, NEW fallback \in States
  PROVE  Sound(s, Activated(s, st, n, r, fallback))
  <1> DEFINE e == Enter(s, st)
             t == React(e, r)
             u == [t EXCEPT !.negotiated = TRUE]
  <1>1. Resting(e) /\ e.last = st
    BY StateFacts, EnteringIsFine DEF Sound
  <1>2. Activated(s, st, n, r, fallback) = IF n.ok THEN u ELSE SwitchTo(t, fallback)
    BY DEF Activated
  <1> HIDE DEF e
  <1>3. Resting(t) /\ t.last \in {st} \cup InternalStates
    BY <1>1, Reacted DEF StaysOrLeaves
  <1> HIDE DEF t
  <1>4. \A v : v.last \in {st} \cup InternalStates => Follows(s, v)
    BY DEF Follows, InternalStates, Promise!Successors, Promise!InternalStates
  <1>5. CASE n.ok
    <2>1. t \in SmState
      BY <1>3 DEF Resting, Settled, Running, WellFormed
    <2>2. u \in SmState
      BY <2>1 DEF SmState
    <2>3. /\ u.last = t.last /\ u.next = t.next /\ u.signals = t.signals
          /\ u.current_state = t.current_state /\ u.next_state = t.next_state
          /\ u.trans = t.trans /\ u.timers = t.timers
          /\ u.next_trans = t.next_trans
          /\ u.out = t.out /\ u.writing = t.writing
          /\ SameCommand(t, u)
      BY <2>1 DEF SmState, SameCommand
    <2> HIDE DEF u
    <2>4. Running(u)
      BY <1>3, <2>2, <2>3 DEF Resting, Settled, Running, WellFormed, Signalled
    <2>5. DefaultPayload(u)
      BY <1>3, <2>3 DEF DefaultPayload, InternalStates
    <2>6. Resting(u)
      BY <1>3, <2>3, <2>4, <2>5
         DEF Resting, Settled, TransTimed, CmdTimed, SameCommand, Fits, Aimed
    <2> QED BY <1>2, <1>3, <1>4, <1>5, <2>3, <2>6 DEF Sound
  <1>6. CASE ~n.ok
    <2> DEFINE v == SwitchTo(t, fallback)
    <2>1. Resting(v) /\ v.last \in {st} \cup InternalStates
      BY <1>3, Switched DEF StaysOrLeaves
    <2>2. Activated(s, st, n, r, fallback) = v
      BY <1>2, <1>6
    <2> HIDE DEF v, u
    <2> QED BY <1>4, <2>1, <2>2 DEF Sound
  <1> QED BY <1>5, <1>6

\* nci_sm_switch_to, from anywhere
LEMMA SwitchingIsFine ==
  ASSUME NEW s, Resting(s), NEW st \in States
  PROVE  Sound(s, SwitchTo(s, st))
  BY Switched, LeavingIsFine

\* nci_state_discovery_handle_ntf
LEMMA DiscoveryNotified ==
  ASSUME NEW s, Resting(s), s.trans = None, s.last = "DISCOVERY",
         NEW n \in Notifications, NEW r \in Reactions
  PROVE  Sound(s, DiscoveryNtf(s, n, r))
  <1>1. CASE n.ntf = "discover"
    <2>1. DiscoveryNtf(s, n, r) = EnterAllDiscoveries(s, n, r)
      BY <1>1 DEF DiscoveryNtf
    <2> QED BY <1>1, <2>1, NotificationFacts, AllDiscoveriesEntered
  <1>2. CASE n.ntf = "activated"
    <2> DEFINE st == IF n.listen THEN "LISTEN_ACTIVE" ELSE "POLL_ACTIVE"
    <2>1. DiscoveryNtf(s, n, r) = Activated(s, st, n, r, "IDLE")
      BY <1>2 DEF DiscoveryNtf
    <2>2. st \in {"POLL_ACTIVE", "LISTEN_ACTIVE"} /\ st \in Promise!Successors(s.last)
      BY DEF Promise!Successors
    <2> HIDE DEF st
    <2> QED BY <2>1, <2>2, StateFacts, ActivationHandled
  <1>3. CASE n.ntf \notin {"discover", "activated"}
    <2>1. DiscoveryNtf(s, n, r) = s
      BY <1>3 DEF DiscoveryNtf
    <2> QED BY <2>1, StayingIsFine
  <1> QED BY <1>1, <1>2, <1>3

\* nci_state_w4_all_discoveries_handle_ntf
LEMMA AllDiscoveriesNotified ==
  ASSUME NEW s, Resting(s), s.trans = None, s.last = "W4_ALL_DISCOVERIES",
         NEW n \in Notifications, n.ntf = "discover"
  PROVE  Sound(s, HandleDiscovery(s, n))
  <1> DEFINE t == HandleDiscovery(s, n)
             supported == s.supported \/ n.supported
             u == [s EXCEPT !.supported = supported]
             v == EnterHostSelect(u)
  <1>1. supported \in BOOLEAN /\ WellFormed(s)
    BY NotificationFacts DEF Resting, Settled, Running, WellFormed, SmState
  <1>2. s.next_trans = None /\ ~s.negotiated
    BY DEF Resting, Settled, Aimed, DefaultPayload
  <1>3. t = IF n.last THEN v ELSE u
    BY DEF HandleDiscovery
  <1> HIDE DEF t, supported
  <1>4. Resting(u) /\ u.last = s.last /\ u.next_trans = None /\ ~u.negotiated
    <2>1. Alike(s, u)
      BY <1>1, Touched
    <2> HIDE DEF u
    <2> QED BY <1>2, <2>1, SameAsEver
  <1> HIDE DEF u
  <1>5. Resting(v) /\ v.last = "W4_HOST_SELECT"
    BY <1>4, HostSelectEntered DEF Resting, Settled
  <1> HIDE DEF v
  <1>6. Sound(s, v)
    BY <1>5 DEF Sound, Follows, Promise!Successors, Promise!InternalStates
  <1>7. Sound(s, u)
    BY <1>4, StayingIsFine
  <1> QED BY <1>3, <1>6, <1>7 DEF t

\* nci_state_w4_host_select_handle_ntf
LEMMA HostSelectNotified ==
  ASSUME NEW s, Resting(s), s.trans = None, s.last = "W4_HOST_SELECT",
         NEW n \in Notifications, NEW r \in Reactions
  PROVE  Sound(s, HostSelectNtf(s, n, r))
  <1>1. "POLL_ACTIVE" \in Promise!Successors(s.last)
    BY DEF Promise!Successors, Promise!InternalStates
  <1>2. Sound(s, Activated(s, "POLL_ACTIVE", n, r, "DISCOVERY"))
    BY <1>1, StateFacts, ActivationHandled
  <1>3. Sound(s, s) /\ Sound(s, SwitchTo(s, "DISCOVERY"))
    BY StateFacts, StayingIsFine, SwitchingIsFine
  <1>4. HostSelectNtf(s, n, r) \in {Activated(s, "POLL_ACTIVE", n, r, "DISCOVERY"), s,
                                    SwitchTo(s, "DISCOVERY")}
    BY DEF HostSelectNtf
  <1> QED BY <1>2, <1>3, <1>4

\* nci_state_poll_active_handle_ntf, nci_state_listen_active_handle_ntf
LEMMA ActiveNotified ==
  ASSUME NEW s, Resting(s), s.trans = None, NEW n
  PROVE  /\ s.last = "POLL_ACTIVE" => Sound(s, PollActiveNtf(s, n))
         /\ s.last = "LISTEN_ACTIVE" => Sound(s, ListenActiveNtf(s, n))
  <1>1. /\ Sound(s, s) /\ Sound(s, Error(s))
        /\ Sound(s, SwitchTo(s, "DISCOVERY"))
    BY StateFacts, StayingIsFine, FailingIsFine, SwitchingIsFine DEF Resting, Settled
  <1>2. ASSUME s.last = "POLL_ACTIVE"
        PROVE  Sound(s, PollActiveNtf(s, n))
    <2>1. Sound(s, RfDeactivate(s, n))
      BY <1>2, Deactivated
    <2>2. PollActiveNtf(s, n) \in {s, SwitchTo(s, "DISCOVERY"), RfDeactivate(s, n)}
      BY DEF PollActiveNtf
    <2> QED BY <1>1, <2>1, <2>2
  <1>3. ASSUME s.last = "LISTEN_ACTIVE"
        PROVE  Sound(s, ListenActiveNtf(s, n))
    <2>1. Sound(s, Enter(s, "DISCOVERY"))
      BY <1>3, DiscoveryEntered
    <2>2. Sound(s, Enter(s, "LISTEN_SLEEP"))
      <3>1. "LISTEN_SLEEP" \in Promise!Successors(s.last)
        BY <1>3 DEF Promise!Successors, Promise!InternalStates
      <3> QED BY <1>3, <3>1, StateFacts, EnteringIsFine
    <2>3. ListenActiveNtf(s, n) \in {s, SwitchTo(s, "DISCOVERY"), Enter(s, "DISCOVERY"),
                                     Enter(s, "LISTEN_SLEEP"), Error(s)}
      BY DEF ListenActiveNtf
    <2> QED BY <1>1, <2>1, <2>2, <2>3
  <1> QED BY <1>2, <1>3

\* nci_state_listen_sleep_handle_ntf
LEMMA ListenSleepNotified ==
  ASSUME NEW s, Resting(s), s.trans = None, s.last = "LISTEN_SLEEP",
         NEW n, NEW r \in Reactions
  PROVE  Sound(s, ListenSleepNtf(s, n, r))
  <1>1. Sound(s, s) /\ Sound(s, Error(s)) /\ Sound(s, Enter(s, "DISCOVERY"))
    BY StayingIsFine, FailingIsFine, DiscoveryEntered DEF Resting, Settled
  <1>2. "LISTEN_ACTIVE" \in Promise!Successors(s.last)
    BY DEF Promise!Successors, Promise!InternalStates
  <1>3. Sound(s, Activated(s, "LISTEN_ACTIVE", n, r, "IDLE"))
    BY <1>2, StateFacts, ActivationHandled
  <1>4. ListenSleepNtf(s, n, r) \in {s, Error(s), Enter(s, "DISCOVERY"),
                                     Activated(s, "LISTEN_ACTIVE", n, r, "IDLE")}
    BY DEF ListenSleepNtf
  <1> QED BY <1>1, <1>3, <1>4

\* nci_sm_handle_ntf
LEMMA NotificationHandled ==
  ASSUME NEW s, Resting(s), NEW n \in Notifications, NEW r \in Reactions
  PROVE  Sound(s, HandleNtf(s, n, r))
  <1>1. CASE n.ntf = "broken_credits"
    BY <1>1, FailingIsFine DEF HandleNtf, Resting, Settled
  <1>2. CASE n.ntf # "broken_credits" /\ s.trans # None
    BY <1>2, TransitionNotified DEF HandleNtf
  <1>3. CASE n.ntf # "broken_credits" /\ s.trans = None
    <2>1. HandleNtf(s, n, r) = StateNtf(s, n, r)
      BY <1>3 DEF HandleNtf
    <2>2. CASE s.last = "DISCOVERY"
      BY <1>3, <2>1, <2>2, DiscoveryNotified DEF StateNtf
    <2>3. CASE s.last = "W4_ALL_DISCOVERIES"
      <3>1. StateNtf(s, n, r) = IF n.ntf = "discover" THEN HandleDiscovery(s, n) ELSE s
        BY <2>3 DEF StateNtf
      <3> QED BY <1>3, <2>1, <2>3, <3>1, AllDiscoveriesNotified, StayingIsFine
    <2>4. CASE s.last = "W4_HOST_SELECT"
      BY <1>3, <2>1, <2>4, HostSelectNotified DEF StateNtf
    <2>5. CASE s.last = "POLL_ACTIVE"
      BY <1>3, <2>1, <2>5, ActiveNotified DEF StateNtf
    <2>6. CASE s.last = "LISTEN_ACTIVE"
      BY <1>3, <2>1, <2>6, ActiveNotified DEF StateNtf
    <2>7. CASE s.last = "LISTEN_SLEEP"
      BY <1>3, <2>1, <2>7, ListenSleepNotified DEF StateNtf
    <2>8. CASE s.last \notin {"DISCOVERY", "W4_ALL_DISCOVERIES", "W4_HOST_SELECT",
                              "POLL_ACTIVE", "LISTEN_ACTIVE", "LISTEN_SLEEP"}
      BY <2>1, <2>8, StayingIsFine DEF StateNtf
    <2> QED BY <2>2, <2>3, <2>4, <2>5, <2>6, <2>7, <2>8
  <1> QED BY <1>1, <1>2, <1>3

-----------------------------------------------------------------------------
(***************************************************************************)
(* The events of the client, of the main loop and of the NFCC              *)
(***************************************************************************)

\* nci_core_set_op_mode
LEMMA ModeSet ==
  ASSUME NEW s, Resting(s), NEW mode \in Modes
  PROVE  Sound(s, SmRestart([s EXCEPT !.op_mode = mode]))
  <1> DEFINE t == [s EXCEPT !.op_mode = mode]
  <1>1. Alike(s, t)
    BY Touched DEF Resting, Settled, Running
  <1> HIDE DEF t
  <1>2. Resting(t) /\ t.last = s.last
    BY <1>1, SameAsEver
  <1>3. Sound(t, SwitchTo(t, "IDLE")) /\ Sound(t, t)
    BY <1>2, StateFacts, SwitchingIsFine, StayingIsFine
  <1>4. SmRestart(t) \in {SwitchTo(t, "IDLE"), t}
    BY DEF SmRestart
  <1>5. Sound(t, SmRestart(t))
    BY <1>3, <1>4
  <1> QED BY <1>2, <1>5 DEF t, Sound, Follows

\* nci_sm_switch_proc
LEMMA ProcSwitched ==
  ASSUME NEW s, Resting(s), s.pending_switch # None
  PROVE  Sound(s, SwitchInternal([s EXCEPT !.pending_switch = None], s.pending_switch))
  <1>1. s.pending_switch \in States
    BY DEF Resting, Settled, Running, WellFormed, SmState
  <1>2. SwitchInternal([s EXCEPT !.pending_switch = None], s.pending_switch)
          = SwitchTo(s, s.pending_switch)
    BY DEF SwitchTo
  <1> QED BY <1>1, <1>2, SwitchingIsFine

\* nci_transition_timeout: the timer is gone before the machine fails.
LEMMA TransitionTimedOut ==
  ASSUME NEW s, Resting(s), NEW t
  PROVE  Sound(s, Error([s EXCEPT !.timers = s.timers \ {t}]))
  <1> DEFINE timers == s.timers \ {t}
             u == [s EXCEPT !.timers = timers]
  <1>1. s \in SmState /\ timers \in SUBSET Transitions /\ timers \subseteq {s.trans}
    BY DEF Resting, Settled, Running, WellFormed, SmState
  <1> HIDE DEF timers
  <1>2. u \in SmState
    BY <1>1 DEF SmState
  <1>3. /\ SameStates(s, u) /\ u.trans = s.trans /\ u.timers = timers
        /\ u.out = s.out /\ u.writing = s.writing
    BY <1>1 DEF SmState, SameStates
  <1> HIDE DEF u
  <1>4. Running(u)
    BY <1>1, <1>2, <1>3 DEF Resting, Settled, Running, WellFormed, Signalled, SameStates
  <1> QED BY <1>4, FailingIsFine DEF u, timers

\* nci_core_command_timeout: what client code does when it hears of the failure
\* does not outlive the second one.
LEMMA CommandTimedOut ==
  ASSUME NEW s, Resting(s), NEW r \in Reactions, NEW told \in BOOLEAN
  PROVE  Sound(s, Error(IF told THEN React(Error(TimedOut(s)), r) ELSE TimedOut(s)))
  <1> DEFINE c == IF s.cmd_id THEN SarCancel(s) ELSE s
             t == TimedOut(s)
             x == IF told THEN React(Error(t), r) ELSE t
  <1>1. WellFormed(c) /\ SameMachine(s, c)
    BY SarCancelled DEF Resting, Settled, Running, SameMachine, SameStates
  <1>2. t = [c EXCEPT !.cmd_timeout = FALSE, !.cmd_id = FALSE, !.rsp_handler = None]
    BY DEF TimedOut
  <1> HIDE DEF c, t
  <1>3. t \in SmState
    BY <1>1, <1>2 DEF WellFormed, SmState
  <1>4. WellFormed(t) /\ SameMachine(s, t)
    BY <1>1, <1>2, <1>3 DEF WellFormed, SmState, SameMachine, SameStates
  <1>5. Running(t)
    BY <1>4, SameMachineRuns DEF Resting, Settled
  <1>6. Resting(React(Error(t), r))
    BY <1>5, Failed, Reacted
  <1>7. Running(x)
    BY <1>5, <1>6 DEF Resting, Settled
  <1> HIDE DEF x
  <1>8. Sound(s, Error(x))
    BY <1>7, FailingIsFine
  <1> QED BY <1>8 DEF x, t

\* The HAL has got the first command of the queue.
LEMMA SubmittedIsFine ==
  ASSUME NEW s, Resting(s)
  PROVE  Sound(s, Submitted(s))
  <1>1. CASE s.out = << >>
    BY <1>1, StayingIsFine DEF Submitted
  <1>2. CASE s.out # << >>
    <2> DEFINE wire == Append(s.wire, s.out[1].op)
               w == [s EXCEPT !.writing = TRUE]
               t == [w EXCEPT !.wire = wire]
    <2>1. s \in SmState
      BY DEF Resting, Settled, Running, WellFormed
    <2>2. wire \in Seq(Opcodes)
      <3> DEFINE Entry == [op : Opcodes, complete : BOOLEAN]
      <3>1. s.out \in Seq(Entry) /\ s.wire \in Seq(Opcodes)
        BY <2>1 DEF SmState
      <3>2. s.out[1] \in Entry
        <4> HIDE DEF Entry
        <4> QED BY <1>2, <3>1
      <3>3. s.out[1].op \in Opcodes
        BY <3>2
      <3> QED BY <3>1, <3>3
    <2>3. Submitted(s) = t
      BY <1>2 DEF Submitted
    <2> HIDE DEF wire
    <2>4. Alike(s, w)
      <3>1. w \in SmState
        BY <2>1 DEF SmState
      <3> QED BY <1>2, <2>1, <3>1
              DEF SmState, Alike, WellFormed, SameMachine, SameStates, SameCommand
    <2> HIDE DEF w
    <2>5. Resting(w) /\ w.last = s.last
      BY <2>4, SameAsEver
    <2>6. Alike(w, t)
      BY <2>2, <2>4, Touched DEF Alike
    <2> HIDE DEF t
    <2> QED BY <2>3, <2>5, <2>6, SameAsEver, StayingIsFine
  <1> QED BY <1>1, <1>2

\* The write of the first command is over, in one way or another.
LEMMA Dequeued ==
  ASSUME NEW s, WellFormed(s), s.out # << >>, NEW id \in BOOLEAN
  PROVE  Alike(s, [s EXCEPT !.writing = FALSE, !.out = Tail(s.out), !.cmd_id = id])
  <1> DEFINE out == Tail(s.out)
             t == [s EXCEPT !.writing = FALSE, !.out = out, !.cmd_id = id]
  <1>1. s \in SmState
    BY DEF WellFormed
  <1>2. out \in Seq([op : Opcodes, complete : BOOLEAN])
    <2> DEFINE Entry == [op : Opcodes, complete : BOOLEAN]
    <2>1. s.out \in Seq(Entry)
      BY <1>1 DEF SmState
    <2> HIDE DEF Entry
    <2>2. Tail(s.out) \in Seq(Entry)
      BY <2>1
    <2> QED BY <2>2 DEF Entry
  <1> HIDE DEF out
  <1>3. t \in SmState
    BY <1>1, <1>2 DEF SmState
  <1>4. t.writing = FALSE /\ SameMachine(s, t) /\ SameCommand(s, t)
    BY <1>1 DEF SmState, SameMachine, SameStates, SameCommand
  <1> HIDE DEF t
  <1>5. Alike(s, t)
    BY <1>3, <1>4 DEF Alike, WellFormed
  <1> QED BY <1>5 DEF t, out

\* The completion callback of the first command is a Boolean.
LEMMA FirstInQueue ==
  ASSUME NEW s, WellFormed(s), s.out # << >>
  PROVE  s.out[1].complete \in BOOLEAN /\ s.cmd_id \in BOOLEAN
  <1> DEFINE Entry == [op : Opcodes, complete : BOOLEAN]
  <1>1. s.out \in Seq(Entry) /\ s.cmd_id \in BOOLEAN
    BY DEF WellFormed, SmState
  <1>2. s.out[1] \in Entry
    <2> HIDE DEF Entry
    <2> QED BY <1>1
  <1> QED BY <1>1, <1>2

\* nci_sar_start_write
LEMMA WriteStarted ==
  ASSUME IInv, StartWrite
  PROVE  Sound(sm, sm')
  <1> DEFINE s == [sm EXCEPT !.start_write = FALSE]
  <1>1. Resting(s) /\ s.last = sm.last
    <2>1. Alike(sm, s)
      BY Touched DEF IInv, Resting, Settled, Running
    <2> HIDE DEF s
    <2> QED BY <2>1, SameAsEver DEF IInv
  <1>2. sm' = IF s.writing THEN s ELSE Submitted(s)
    BY DEF StartWrite, Becomes
  <1> HIDE DEF s
  <1>3. Sound(s, sm')
    BY <1>1, <1>2, SubmittedIsFine, StayingIsFine
  <1> QED BY <1>1, <1>3 DEF Sound, Follows

\* nci_sar_write_completed and nci_core_command_completion
LEMMA WriteDone ==
  ASSUME IInv, WriteCompleted
  PROVE  Sound(sm, sm')
  <1> DEFINE id == sm.cmd_id /\ ~sm.out[1].complete
             s == [sm EXCEPT !.writing = FALSE, !.out = Tail(sm.out), !.cmd_id = id]
  <1>1. WellFormed(sm) /\ sm.out # << >>
    BY DEF IInv, Resting, Settled, Running, WellFormed, WriteCompleted
  <1>2. id \in BOOLEAN
    BY <1>1, FirstInQueue
  <1>3. sm' = Submitted(s)
    BY DEF WriteCompleted, Becomes
  <1> HIDE DEF id
  <1>4. Alike(sm, s)
    BY <1>1, <1>2, Dequeued
  <1> HIDE DEF s
  <1>5. Resting(s) /\ s.last = sm.last
    BY <1>4, SameAsEver DEF IInv
  <1> QED BY <1>3, <1>5, SubmittedIsFine DEF Sound, Follows

\* nci_core_command_completion with success = FALSE and nci_core_sar_error: the
\* machine fails once more after what client code has made of the first failure.
LEMMA WriteHasFailed ==
  ASSUME IInv, NEW r \in Reactions, WriteFailed(r)
  PROVE  Sound(sm, sm')
  <1> DEFINE complete == sm.out[1].complete
             id == sm.cmd_id /\ ~complete
             start == IF sm.writing THEN sm.start_write ELSE FALSE
             p == [sm EXCEPT !.start_write = start]
             s == [p EXCEPT !.writing = FALSE, !.out = Tail(p.out), !.cmd_id = id]
             q == IF complete THEN React(Error(s), r) ELSE s
             t == Error(q)
             more == t.start_write \/ t.out # << >>
             u == [t EXCEPT !.start_write = more]
  <1>1. WellFormed(sm) /\ sm.out # << >> /\ Running(sm)
    BY DEF IInv, Resting, Settled, Running, WriteFailed
  <1>2. complete \in BOOLEAN /\ id \in BOOLEAN
    BY <1>1, FirstInQueue
  <1>3. sm' = IF sm.writing THEN t ELSE u
    <2>1. sm \in SmState
      BY <1>1 DEF WellFormed
    <2>2. p.out = sm.out
      BY <2>1 DEF SmState
    <2>3. s = [sm EXCEPT !.writing = FALSE, !.start_write = start,
                         !.out = Tail(sm.out), !.cmd_id = id]
      <3>1. s = [p EXCEPT !.writing = FALSE, !.out = Tail(sm.out), !.cmd_id = id]
        BY <2>2
      <3> HIDE DEF id, start, s
      <3> QED BY <2>1, <3>1 DEF SmState
    <2> HIDE DEF s
    <2> QED BY <2>3 DEF WriteFailed, Becomes
  <1>4. start \in BOOLEAN
    BY <1>1 DEF WellFormed, SmState
  <1> HIDE DEF complete, id, start
  <1>5. Alike(sm, p) /\ p.out = sm.out
    <2>1. Alike(sm, p)
      BY <1>1, <1>4, Touched
    <2>2. p.out = sm.out
      BY <1>1 DEF WellFormed, SmState
    <2> QED BY <2>1, <2>2
  <1> HIDE DEF p
  <1>6. Alike(p, s)
    BY <1>1, <1>2, <1>5, Dequeued DEF Alike
  <1> HIDE DEF s
  <1>7. Running(s)
    BY <1>1, <1>5, <1>6, SameAsEver
  <1>8. Resting(React(Error(s), r))
    BY <1>7, Failed, Reacted
  <1>9. Running(q)
    BY <1>7, <1>8 DEF Resting, Settled
  <1> HIDE DEF q
  <1>10. Sound(sm, t)
    BY <1>9, FailingIsFine
  <1> HIDE DEF t
  <1>11. Sound(sm, u)
    <2>1. WellFormed(t) /\ more \in BOOLEAN
      BY <1>10 DEF Sound, Resting, Settled, Running, WellFormed, SmState
    <2> HIDE DEF more
    <2>2. Alike(t, u)
      BY <2>1, Touched
    <2> HIDE DEF u
    <2> QED BY <1>10, <2>2, SameAsEver DEF Sound, Follows
  <1> QED BY <1>3, <1>10, <1>11

\* nci_core_sar_handle_response, or a response that gets lost
LEMMA ResponseCame ==
  ASSUME IInv, LoseResponse \/ \E a \in Answers : Respond(a)
  PROVE  Sound(sm, sm')
  <1> DEFINE wire == Tail(sm.wire)
             s == [sm EXCEPT !.wire = wire]
             op == sm.wire[1]
  <1>1. sm \in SmState /\ WellFormed(sm) /\ sm.wire # << >>
    BY DEF IInv, Resting, Settled, Running, WellFormed, LoseResponse, Respond
  <1>2. sm.wire \in Seq(Opcodes)
    BY <1>1 DEF SmState
  <1>3. wire \in Seq(Opcodes) /\ op \in Opcodes
    BY <1>1, <1>2
  <1>4. \/ sm' = s
        \/ \E a \in AnswersTo(op) : sm' = HandleResponse(s, op, a)
    BY DEF LoseResponse, Respond, Becomes
  <1> HIDE DEF wire, op
  <1>5. Alike(sm, s)
    BY <1>1, <1>3, Touched
  <1> HIDE DEF s
  <1>6. Resting(s) /\ s.last = sm.last
    BY <1>5, SameAsEver DEF IInv
  <1>7. Sound(s, sm')
    BY <1>3, <1>4, <1>6, ResponseHandled, StayingIsFine
  <1> QED BY <1>6, <1>7 DEF Sound, Follows

\* Every event leaves the machine at rest, and makes a move that is promised.
LEMMA Inductive ==
  ASSUME IInv, Next
  PROVE  Sound(sm, sm')
  <1>0. Resting(sm) /\ Running(sm)
    BY DEF IInv, Resting, Settled
  <1>1. CASE Restart
    <2>1. sm' = RestartInternal(sm)
      BY <1>1 DEF Restart, Becomes
    <2> QED BY <1>0, <2>1, Restarting, LeavingIsFine DEF StaysOrLeaves, InternalStates
  <1>2. ASSUME NEW st \in Targets, SetState(st)
        PROVE  Sound(sm, sm')
    BY <1>0, <1>2, StateFacts, SwitchingIsFine DEF SetState, Becomes
  <1>3. ASSUME NEW mode \in Modes, SetOpMode(mode)
        PROVE  Sound(sm, sm')
    BY <1>0, <1>3, ModeSet DEF SetOpMode, Becomes
  <1>4. CASE SwitchProc
    BY <1>0, <1>4, ProcSwitched DEF SwitchProc, Becomes
  <1>5. ASSUME NEW t \in Transitions, TransitionTimeout(t)
        PROVE  Sound(sm, sm')
    BY <1>0, <1>5, TransitionTimedOut DEF TransitionTimeout, Becomes
  <1>6. ASSUME NEW r \in Reactions, CommandTimeout(r)
        PROVE  Sound(sm, sm')
    <2> DEFINE told == sm.rsp_handler # None /\ sm.rsp_handler # "select"
                         /\ Owner(sm.rsp_handler) = sm.trans
    <2>1. sm' = Error(IF told THEN React(Error(TimedOut(sm)), r) ELSE TimedOut(sm))
      BY <1>6 DEF CommandTimeout, Becomes
    <2>2. told \in BOOLEAN
      OBVIOUS
    <2> HIDE DEF told
    <2> QED BY <1>0, <2>1, <2>2, CommandTimedOut
  <1>7. CASE StartWrite
    BY <1>7, WriteStarted
  <1>8. CASE WriteCompleted
    BY <1>8, WriteDone
  <1>9. ASSUME NEW r \in Reactions, WriteFailed(r)
        PROVE  Sound(sm, sm')
    BY <1>9, WriteHasFailed
  <1>10. CASE HalError
    BY <1>0, <1>10, FailingIsFine DEF HalError, Becomes
  <1>11. CASE LoseResponse \/ \E a \in Answers : Respond(a)
    BY <1>11, ResponseCame
  <1>12. ASSUME NEW n \in Notifications, NEW r \in Reactions, Notify(n, r)
         PROVE  Sound(sm, sm')
    BY <1>0, <1>12, NotificationHandled DEF Notify, Becomes
  <1> QED BY <1>1, <1>2, <1>3, <1>4, <1>5, <1>6, <1>7, <1>8, <1>9, <1>10, <1>11, <1>12
          DEF Next, Client, Timers, Io, Nfcc

-----------------------------------------------------------------------------
(***************************************************************************)
(* The theorems                                                            *)
(***************************************************************************)

\* nci_core_new leaves the machine at rest, in INIT.
LEMMA InitAtRest ==
  ASSUME Init
  PROVE  IInv
  <1> PICK mode \in Modes : sm = [
        last |-> "INIT", next |-> "INIT", active |-> "INIT", trans |-> None,
        next_trans |-> None, pending_switch |-> None, signals |-> {}, version |-> 0,
        op_mode |-> mode, routing |-> None,
        timers |-> {}, ntf |-> FALSE, expecting_ntf |-> FALSE, supported |-> FALSE,
        current_state |-> "INIT", next_state |-> "INIT", rsp_handler |-> None,
        cmd_id |-> FALSE, cmd_timeout |-> FALSE,
        out |-> << >>, writing |-> FALSE, start_write |-> FALSE, wire |-> << >>,
        negotiated |-> FALSE, used |-> {}]
    BY DEF Init
  <1>1. sm \in SmState
    <2>1. "INIT" \in States /\ None \in AllRoutingKinds /\ 0 \in 0 .. 2
      BY StateFacts DEF AllRoutingKinds
    <2>2. << >> \in Seq([op : Opcodes, complete : BOOLEAN]) /\ << >> \in Seq(Opcodes)
      OBVIOUS
    <2> QED BY <2>1, <2>2 DEF SmState
  <1>2. Running(sm)
    BY <1>1 DEF Running, WellFormed, Signalled
  <1> QED BY <1>2 DEF IInv, Resting, Settled, TransTimed, CmdTimed, Fits, Aimed, DefaultPayload

\* The invariant is kept by every step, and every step is promised.
LEMMA StepSound ==
  ASSUME IInv, [Next]_sm
  PROVE  IInv' /\ Follows(sm, sm')
  <1>1. CASE Next
    BY <1>1, Inductive DEF Sound, IInv
  <1>2. CASE UNCHANGED sm
    BY <1>2 DEF IInv, Follows
  <1> QED BY <1>1, <1>2

\* Between two events the machine is at rest: nothing is pending, the timeouts
\* are those of what is being waited for, and a transition is one that the
\* state has (nci_sm.c, nci_transition.c and nci_core.c together).
THEOREM AtRest == Spec => []IInv
  <1>1. Init => IInv
    BY InitAtRest
  <1>2. IInv /\ [Next]_sm => IInv'
    BY StepSound
  <1> QED BY <1>1, <1>2, PTL DEF Spec

\* The fields of NciSmObject and NciCoreObject hold values of their types.
THEOREM TypeCorrect == Spec => []TypeOK
  <1>1. IInv => TypeOK
    BY DEF IInv, Resting, Settled, Running, WellFormed, TypeOK
  <1> QED BY <1>1, AtRest, PTL

\* nci_sm_emit_pending_signals is called on every path that changes last_state
\* or next_state: the client sees what the machine is.
THEOREM UpToDate == Spec => []ClientIsUpToDate
  <1>1. IInv => ClientIsUpToDate
    BY DEF IInv, Resting, Settled, Running, Signalled, ClientIsUpToDate
  <1> QED BY <1>1, AtRest, PTL

\* nci_core.h: where current_state and next_state differ, there is a transition
\* that leads from one to the other.
THEOREM Transitioning == Spec => []TransitioningMeansTransition
  <1>1. IInv => TransitioningMeansTransition
    BY DEF IInv, Resting, Settled, Running, Signalled, Aimed, TransitioningMeansTransition
  <1> QED BY <1>1, AtRest, PTL

\* nci_transition_start and nci_transition_finish: a timeout is armed for the
\* active transition, and for no other.
THEOREM TransitionTimed == Spec => []TransitionIsTimed
  <1>1. IInv => TransitionIsTimed
    BY DEF IInv, Resting, Settled, TransTimed, TransitionIsTimed
  <1> QED BY <1>1, AtRest, PTL

\* nci_core_io_send and nci_core_cancel_command: a timeout is armed exactly
\* while somebody waits for a response.
THEOREM CommandTimed == Spec => []CommandIsTimed
  <1>1. IInv => CommandIsTimed
    BY DEF IInv, Resting, Settled, CmdTimed, CommandIsTimed
  <1> QED BY <1>1, AtRest, PTL

\* nci_sm_enter_state_internal starts what nci_sm_switch_internal has queued
\* from the state that it is for, whatever has happened in between.
THEOREM TransitionFits == Spec => []TransitionFitsState
  <1>1. IInv => TransitionFitsState
    BY DEF IInv, Resting, Settled, Fits, TransitionFitsState
  <1> QED BY <1>1, AtRest, PTL

\* nci_sm_enter_state_internal resets the data payload size in DISCOVERY, and
\* no activation is taken there or in the states that follow it.
THEOREM PayloadReset == Spec => []DiscoveryHasDefaultPayload
  <1>1. IInv => DiscoveryHasDefaultPayload
    BY DEF IInv, Resting, Settled, DefaultPayload, DiscoveryHasDefaultPayload
  <1> QED BY <1>1, AtRest, PTL

\* The machine is what NciRfStates promises its client: what an event does to
\* current_state and next_state is one of the moves there, or nothing at all.
THEOREM Implementation == Spec => RefinesRfStates
  <1>1. Init => Promise!Init
    BY DEF Init, Promise!Init
  <1>2. IInv /\ IInv' /\ [Next]_sm
          => [Promise!Next]_<<sm.current_state, sm.next_state>>
    <2> SUFFICES ASSUME IInv, IInv', [Next]_sm
                 PROVE  Promise!Next
      OBVIOUS
    <2>1. Follows(sm, sm')
      BY StepSound
    <2>2. /\ sm.current_state = sm.last /\ sm.next_state = sm.next
          /\ sm.next \in {sm.last, "IDLE", "DISCOVERY"}
      BY DEF IInv, Resting, Settled, Running, Signalled, Aimed
    <2>3. /\ sm'.current_state = sm'.last /\ sm'.next_state = sm'.next
          /\ sm'.next \in {sm'.last, "IDLE", "DISCOVERY"}
      BY DEF IInv, Resting, Settled, Running, Signalled, Aimed
    <2>4. CASE sm'.last = sm.last
      BY <2>2, <2>3, <2>4 DEF Promise!Next, Promise!Aim
    <2>5. CASE sm'.last \in Promise!Successors(sm.last)
      BY <2>2, <2>3, <2>5 DEF Promise!Next, Promise!Move
    <2> QED BY <2>1, <2>4, <2>5 DEF Follows
  <1> QED BY <1>1, <1>2, AtRest, PTL DEF Spec, RefinesRfStates, Promise!Spec
=============================================================================
