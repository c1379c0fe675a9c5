------------------------------- MODULE NciSm -------------------------------
(***************************************************************************)
(* The NCI state machine: nci_sm.c with its states and transitions, and    *)
(* the command layer of nci_core.c that it sends commands through.         *)
(*                                                                         *)
(* A command passes the SAR (module NciSar has the details): it waits in   *)
(* `out`, its HAL write starts and completes, and the NFCC answers it or   *)
(* does not. The NFCC is external: it sends any notification at any time,  *)
(* and the answer to a command may be late, overtake the completion of the *)
(* HAL write, or get lost.                                                 *)
(*                                                                         *)
(* As in NciSar each C function is an operator from a state to the next    *)
(* one, and the actions are what the main loop and the client call.        *)
(***************************************************************************)
EXTENDS Integers, Sequences

CONSTANTS
    Targets,       \* states that the client asks for
    Modes,         \* values of op_mode and techs, as one
    ListenModes,   \* those that need listen mode routing
    RoutingKinds,  \* kinds of listen mode routing that the NFCC may support
    Timeouts,      \* NciCore.cmd_timeout is not zero
    MaxOut,        \* bound: commands in the SAR
    MaxWire        \* bound: commands that the NFCC has not answered

None == "none"
InternalStates == {"INIT", "ERROR", "STOP"}
\* NCI_RFST_IDLE < s, in the order of the enumeration
BeyondIdle == {"DISCOVERY", "W4_ALL_DISCOVERIES", "W4_HOST_SELECT",
               "POLL_ACTIVE", "LISTEN_ACTIVE", "LISTEN_SLEEP"}
States == InternalStates \cup {"IDLE"} \cup BeyondIdle

AllRoutingKinds == {None, "mixed", "protocol", "technology"}

ASSUME SmAssumption ==
    /\ Targets \subseteq States
    /\ Modes # {}
    /\ ListenModes \subseteq Modes
    /\ RoutingKinds \subseteq AllRoutingKinds
    /\ Timeouts \in BOOLEAN
    /\ MaxOut \in Nat
    /\ MaxWire \in Nat

VARIABLE sm

-----------------------------------------------------------------------------
(***************************************************************************)
(* Transitions, commands and response handlers                             *)
(***************************************************************************)
Transitions == {"reset", "idle_to_discovery", "deactivate_to_idle",
                "deactivate_to_discovery", "poll_active_to_idle",
                "listen_active_to_idle"}

Dest(t) == IF t \in {"idle_to_discovery", "deactivate_to_discovery"}
           THEN "DISCOVERY" ELSE "IDLE"

\* nci_state_get_transition, on what nci_sm_new adds to the states
GetTransition(from, to) ==
    CASE from = "IDLE" /\ to = "DISCOVERY" -> "idle_to_discovery"
      [] from = "POLL_ACTIVE" /\ to = "IDLE" -> "poll_active_to_idle"
      [] from = "LISTEN_ACTIVE" /\ to = "IDLE" -> "listen_active_to_idle"
      [] from \in {"POLL_ACTIVE", "LISTEN_ACTIVE"} /\ to = "DISCOVERY" ->
            "deactivate_to_discovery"
      [] from \in {"DISCOVERY", "W4_ALL_DISCOVERIES", "W4_HOST_SELECT",
                   "LISTEN_SLEEP"} /\ to = "IDLE" -> "deactivate_to_idle"
      [] OTHER -> None

Opcodes == {"RESET", "INIT", "SET_CONFIG", "GET_CONFIG", "SET_ROUTING",
            "DISCOVER_MAP", "DISCOVER", "DISCOVER_SELECT", "DEACTIVATE"}

\* The response handlers, by the command that each of them is passed with
ResetHandlers == {"reset", "init", "reset_config"}
DiscoveryHandlers == {"get_config", "set_config", "mixed", "protocol",
                      "last_protocol", "technology", "map", "discover"}
DeactivateHandlers == {"to_idle", "to_discovery", "to_discovery_idle",
                       "poll_to_idle", "listen_to_idle"}
Handlers == ResetHandlers \cup DiscoveryHandlers \cup DeactivateHandlers
                \cup {"select"}

Opcode(h) ==
    CASE h = "reset" -> "RESET"
      [] h = "init" -> "INIT"
      [] h \in {"reset_config", "set_config"} -> "SET_CONFIG"
      [] h = "get_config" -> "GET_CONFIG"
      [] h \in {"mixed", "protocol", "last_protocol", "technology"} -> "SET_ROUTING"
      [] h = "map" -> "DISCOVER_MAP"
      [] h = "discover" -> "DISCOVER"
      [] h = "select" -> "DISCOVER_SELECT"
      [] OTHER -> "DEACTIVATE"

\* The transition that a handler belongs to (the select command is a state's)
Owner(h) ==
    CASE h \in ResetHandlers -> "reset"
      [] h \in DiscoveryHandlers -> "idle_to_discovery"
      [] h = "to_idle" -> "deactivate_to_idle"
      [] h \in {"to_discovery", "to_discovery_idle"} -> "deactivate_to_discovery"
      [] h = "poll_to_idle" -> "poll_active_to_idle"
      [] h = "listen_to_idle" -> "listen_active_to_idle"
      [] OTHER -> None

\* The command that starts a transition
FirstCommand(t) ==
    CASE t = "reset" -> "reset"
      [] t = "idle_to_discovery" -> "get_config"
      [] t = "deactivate_to_idle" -> "to_idle"
      [] t = "deactivate_to_discovery" -> "to_discovery"
      [] t = "poll_active_to_idle" -> "poll_to_idle"
      [] t = "listen_active_to_idle" -> "listen_to_idle"

-----------------------------------------------------------------------------
(***************************************************************************)
(* The state. The first group is NciSm and NciSmObject, the second one the *)
(* states and transitions, the third one NciCoreObject, the fourth one the *)
(* SAR and the NFCC. `used` observes: the modes that the commands of the   *)
(* latest configuration of the NFCC were built from.                       *)
(***************************************************************************)
SmState == [
    last : States,
    next : States,
    active : States \cup {None},
    trans : Transitions \cup {None},
    next_trans : Transitions \cup {None},
    pending_switch : States \cup {None},
    signals : SUBSET {"next", "last"},
    version : 0 .. 2,
    op_mode : Modes,
    routing : AllRoutingKinds,

    timers : SUBSET Transitions,
    ntf : BOOLEAN,
    expecting_ntf : BOOLEAN,
    supported : BOOLEAN,

    current_state : States,
    next_state : States,
    rsp_handler : Handlers \cup {None},
    cmd_id : BOOLEAN,
    cmd_timeout : BOOLEAN,

    out : Seq([op : Opcodes, complete : BOOLEAN]),
    writing : BOOLEAN,
    start_write : BOOLEAN,
    wire : Seq(Opcodes),
    negotiated : BOOLEAN,
    used : SUBSET Modes]

Init == \E mode \in Modes : sm = [
    last |-> "INIT",
    next |-> "INIT",
    active |-> "INIT",
    trans |-> None,
    next_trans |-> None,
    pending_switch |-> None,
    signals |-> {},
    version |-> 0,
    op_mode |-> mode,
    routing |-> None,

    timers |-> {},
    ntf |-> FALSE,
    expecting_ntf |-> FALSE,
    supported |-> FALSE,

    current_state |-> "INIT",
    next_state |-> "INIT",
    rsp_handler |-> None,
    cmd_id |-> FALSE,
    cmd_timeout |-> FALSE,

    out |-> << >>,
    writing |-> FALSE,
    start_write |-> FALSE,
    wire |-> << >>,
    negotiated |-> FALSE,
    used |-> {}]

-----------------------------------------------------------------------------
(***************************************************************************)
(* Commands                                                                *)
(***************************************************************************)

\* nci_sar_cancel of the command sent last: once its write has started it can
\* only be stripped of the completion callback.
SarCancel(s) ==
    IF s.writing /\ Len(s.out) = 1
    THEN [s EXCEPT !.out[1].complete = FALSE]
    ELSE [s EXCEPT !.out = SubSeq(s.out, 1, Len(s.out) - 1)]

\* Mutant: nothing is done for a command that has been written.
CancelUnwrittenCommand(s) ==
    IF s.cmd_id
    THEN [SarCancel(s) EXCEPT !.cmd_timeout = FALSE, !.cmd_id = FALSE,
                              !.rsp_handler = None]
    ELSE s

\* nci_core_cancel_command. Handlers ignore NCI_REQUEST_CANCELLED.
CancelCommand(s) ==
    LET t == [s EXCEPT !.cmd_timeout = FALSE]
    IN  IF s.cmd_id
        THEN [SarCancel(t) EXCEPT !.cmd_id = FALSE, !.rsp_handler = None]
        ELSE t

\* nci_core_io_cancel
IoCancel(s) == CancelCommand([s EXCEPT !.rsp_handler = None])

\* nci_core_io_send. A command that nobody is writing waits for the idle callback.
IoSend(s, h) ==
    LET t == CancelCommand(s)
    IN  [t EXCEPT
            !.rsp_handler = h,
            !.out = Append(t.out, [op |-> Opcode(h), complete |-> TRUE]),
            !.cmd_id = TRUE,
            !.cmd_timeout = Timeouts,
            !.start_write = t.start_write \/ ~t.writing]

-----------------------------------------------------------------------------
(***************************************************************************)
(* The state machine                                                       *)
(***************************************************************************)

\* nci_sm_emit_pending_signals, and the handlers of NciCore
Emit(s) == [s EXCEPT
    !.signals = {},
    !.next_state = IF "next" \in s.signals THEN s.next ELSE s.next_state,
    !.current_state = IF "last" \in s.signals THEN s.last ELSE s.current_state]

\* nci_sm_set_last_state, nci_sm_set_next_state
SetLast(s, st) ==
    IF s.last = st THEN s
    ELSE [s EXCEPT !.last = st, !.signals = s.signals \cup {"last"}]
SetNext(s, st) ==
    IF s.next = st THEN s
    ELSE [s EXCEPT !.next = st, !.signals = s.signals \cup {"next"}]

\* nci_state_leave: W4_ALL_DISCOVERIES drops what it has collected.
Leave(s) ==
    [s EXCEPT !.active = None,
              !.supported = s.supported /\ s.active # "W4_ALL_DISCOVERIES"]

\* Mutant: the timeout stays armed.
FinishKeepsTimer(s) ==
    [s EXCEPT !.trans = None, !.ntf = FALSE, !.expecting_ntf = FALSE]

\* nci_sm_finish_active_transition
FinishActiveTransition(s) ==
    IF s.trans = None THEN s
    ELSE [s EXCEPT
            !.trans = None,
            !.timers = s.timers \ {s.trans},
            !.ntf = s.ntf /\ s.trans # "listen_active_to_idle",
            !.expecting_ntf = s.expecting_ntf /\ s.trans # "listen_active_to_idle"]

\* Mutant: the timeout is not armed.
RestartedUntimed(s, t) == [s EXCEPT
    !.version = IF t = "reset" THEN 0 ELSE s.version,
    !.ntf = FALSE, !.expecting_ntf = FALSE]

\* What the start method of a transition resets
Restarted(s, t) == [s EXCEPT
    !.version = IF t = "reset" THEN 0 ELSE s.version,
    !.routing = IF t = "reset" THEN None ELSE s.routing,
    !.used = IF t = "idle_to_discovery" THEN {} ELSE s.used,
    !.ntf = s.ntf /\ t # "listen_active_to_idle",
    !.expecting_ntf = s.expecting_ntf /\ t # "listen_active_to_idle",
    !.timers = IF Timeouts THEN s.timers \cup {t} ELSE s.timers]

\* nci_sm_start_transition. The start method fails only when there is no SAR.
StartTransition(s, t) ==
    LET f == [FinishActiveTransition(s) EXCEPT !.trans = t]
    IN  Leave(IoSend(Restarted(f, t), FirstCommand(t)))

\* nci_sm_stall_internal(NCI_STALL_ERROR) and nci_sm_error
StallInternal(s) ==
    LET t == SetNext(SetLast(FinishActiveTransition(IoCancel(s)), "ERROR"), "ERROR")
    IN  IF t.active = "ERROR" THEN t ELSE [Leave(t) EXCEPT !.active = "ERROR"]
\* Mutant: the signals of the stall are left pending.
ErrorUnannounced(s) == StallInternal(s)
Error(s) == Emit(StallInternal(s))

\* Mutant: the data payload size is left as it is.
BeginAsItWas(s, st) ==
    LET t == FinishActiveTransition(s)
    IN  [IF t.active = st THEN t ELSE Leave(t) EXCEPT !.active = st]

\* nci_sm_enter_state_internal before and after nci_state_enter. DISCOVERY
\* resets the data payload size.
Begin(s, st) ==
    LET t == FinishActiveTransition(s)
    IN  [IF t.active = st THEN t ELSE Leave(t) EXCEPT
            !.active = st,
            !.negotiated = t.negotiated /\ st # "DISCOVERY"]

\* Mutant: the queued transition is started wherever the machine has got to.
EndAnywhere(s, st) ==
    LET t == [s EXCEPT !.next_trans = None]
        u == SetLast(IF s.next_trans # None
                     THEN StartTransition(t, s.next_trans) ELSE t, st)
    IN  IF u.trans = None THEN SetNext(u, st) ELSE u

\* Mutant: next_state is left as it is when nothing is queued.
EndWithoutNext(s, st) ==
    LET t == [s EXCEPT !.next_trans = None]
    IN  SetLast(IF s.next_trans # None /\ Dest(s.next_trans) # st
                THEN StartTransition(t, s.next_trans) ELSE t, st)

End(s, st) ==
    LET t == [s EXCEPT !.next_trans = None]
        u == SetLast(IF s.next_trans # None /\ Dest(s.next_trans) # st
                     THEN StartTransition(t, s.next_trans) ELSE t, st)
    IN  IF u.trans = None THEN SetNext(u, st) ELSE u

\* nci_sm_enter_state_internal for the states that do nothing when entered
EnterInternal(s, st) == End(Begin(s, st), st)
\* nci_sm_enter_state
Enter(s, st) == Emit(EnterInternal(s, st))

\* nci_state_w4_host_select_entered: a target is selected or, with nothing
\* suitable, the machine is to go back to DISCOVERY. That switch is deferred.
EnterHostSelect(s) ==
    LET t == Begin(s, "W4_HOST_SELECT")
        u == IF s.supported THEN IoSend(t, "select")
                            ELSE [t EXCEPT !.pending_switch = "DISCOVERY"]
    IN  Emit(End(u, "W4_HOST_SELECT"))

\* nci_state_w4_all_discoveries_handle_discovery
HandleDiscovery(s, n) ==
    LET t == [s EXCEPT !.supported = s.supported \/ n.supported]
    IN  IF n.last THEN EnterHostSelect(t) ELSE t

\* nci_sm_switch_internal with an active transition
Redirect(s, st) ==
    LET t == [s EXCEPT !.next_trans = None]
        via == GetTransition(Dest(s.trans), st)
    IN  IF Dest(s.trans) = st THEN t
        ELSE IF via # None THEN SetNext([t EXCEPT !.next_trans = via], st)
        ELSE IF st \in InternalStates THEN EnterInternal(t, st)
        ELSE StallInternal(t)

\* nci_sm_switch_internal without one: directly or else by way of IDLE, where
\* the reset transition leads from the states that know no other way.
Depart(s, st) ==
    LET t == [s EXCEPT !.next_trans = None]
        direct == GetTransition(s.last, st)
        home == GetTransition(s.last, "IDLE")
        away == StartTransition(t, IF home = None THEN "reset" ELSE home)
        via == GetTransition("IDLE", st)
    IN  IF direct # None THEN SetNext(StartTransition(t, direct), st)
        ELSE IF st \in InternalStates THEN EnterInternal(t, st)
        ELSE IF st = "IDLE" THEN SetNext(away, st)
        ELSE IF via # None THEN SetNext([away EXCEPT !.next_trans = via], st)
        ELSE StallInternal(away)

SwitchInternal(s, st) ==
    IF s.next = st THEN s
    ELSE Emit(IF s.trans # None THEN Redirect(s, st) ELSE Depart(s, st))

\* nci_sm_switch_to, while no state is being entered
SwitchTo(s, st) == SwitchInternal([s EXCEPT !.pending_switch = None], st)

\* nci_sm_reset
SmReset(s) ==
    SwitchInternal(
        EnterInternal([s EXCEPT !.pending_switch = None, !.next_trans = None],
                      "INIT"), "IDLE")

\* nci_sar_reset stops the HAL and drops the commands; the completion
\* callback of the one being written, if it is still set, is told.
SarReset(s) ==
    LET t == [s EXCEPT !.out = << >>, !.writing = FALSE, !.start_write = FALSE]
    IN  IF s.writing /\ s.out[1].complete THEN Error([t EXCEPT !.cmd_id = FALSE])
                                          ELSE t

\* nci_core_restart_internal
RestartInternal(s) == SmReset(SarReset(CancelCommand(s)))

\* nci_sm_restart
SmRestart(s) == IF s.next \in BeyondIdle THEN SwitchTo(s, "IDLE") ELSE s

\* What client code called by a signal may do while a handler is running
Reactions == {"nothing", "restart"} \cup Targets
React(s, r) ==
    CASE r = "nothing" -> s
      [] r = "restart" -> RestartInternal(s)
      [] OTHER -> SwitchTo(s, r)

\* nci_core_set_state and nci_core_restart, by client code that a signal has
\* called in the middle of an entry: the former is put off, the latter is not.
ReactInside(s, r) ==
    CASE r = "nothing" -> s
      [] r = "restart" -> RestartInternal(s)
      [] OTHER -> [s EXCEPT !.pending_switch = r]

\* W4_ALL_DISCOVERIES is entered with the first discovery, which is handled
\* in the middle: should it be the last one too, W4_HOST_SELECT is entered
\* and announced before the entry of W4_ALL_DISCOVERIES is finished.
EnterAllDiscoveries(s, n, r) ==
    LET t == [Begin(s, "W4_ALL_DISCOVERIES") EXCEPT !.supported = FALSE]
    IN  Emit(End(ReactInside(HandleDiscovery(t, n), r), "W4_ALL_DISCOVERIES"))

-----------------------------------------------------------------------------
(***************************************************************************)
(* Responses                                                               *)
(***************************************************************************)

\* The commands that prepare discovery are built from op_mode and techs.
Configure(s, h) == IoSend([s EXCEPT !.used = s.used \cup {s.op_mode}], h)

\* nci_transition_idle_to_discovery_configure_routing
ConfigureRouting(s) ==
    LET kind == IF s.op_mode \in ListenModes THEN s.routing ELSE None
    IN  Configure(s, CASE kind = "mixed" -> "mixed"
                       [] kind = "protocol" -> "last_protocol"
                       [] kind = "technology" -> "technology"
                       [] kind = None -> "map")

\* What an answer says, as far as its handler looks
AnswersTo(op) ==
    CASE op = "RESET" -> {"v1", "v2", "bad"}
      [] op = "INIT" -> RoutingKinds \cup {"bad"}
      [] op = "GET_CONFIG" -> {"same", "differs"}
      [] OTHER -> {"ok", "bad"}
Answers == UNION {AnswersTo(op) : op \in Opcodes}

\* The response handlers, while their transition is active
ResetRsp(s, a) ==
    CASE a = "v1" -> IoSend([s EXCEPT !.version = 1], "init")
      [] a = "v2" -> [s EXCEPT !.version = 2]
      [] a = "bad" -> Error(s)

\* nci_transition_reset_init_v1_rsp, nci_transition_reset_init_v2_rsp
InitRsp(s, a) ==
    IF a = "bad" THEN Error(s)
    ELSE IoSend([s EXCEPT !.routing = a, !.negotiated = FALSE], "reset_config")

\* Whether the NFCC takes the parameters does not matter.
ResetConfigRsp(s, a) == Enter(s, "IDLE")

GetConfigRsp(s, a) ==
    IF a = "same" THEN ConfigureRouting(s) ELSE Configure(s, "set_config")

SetConfigRsp(s, a) == ConfigureRouting(s)

\* Mixed routing, or else protocol routing, or else technology routing
MixedRsp(s, a) == Configure(s, IF a = "ok" THEN "map" ELSE "protocol")
ProtocolRsp(s, a) == Configure(s, IF a = "ok" THEN "map" ELSE "technology")
LastRoutingRsp(s, a) == Configure(s, "map")

MapRsp(s, a) == IF a = "ok" THEN Configure(s, "discover") ELSE Error(s)
DiscoverRsp(s, a) == IF a = "ok" THEN Enter(s, "DISCOVERY") ELSE Error(s)

ToIdleRsp(s, a) == IF a = "ok" THEN Enter(s, "IDLE") ELSE Error(s)

\* The notification is what ends these two, and the one after them.
ToDiscoveryRsp(s, a) == IF a = "ok" THEN s ELSE IoSend(s, "to_discovery_idle")
PollToIdleRsp(s, a) == IF a = "ok" THEN s ELSE Error(s)
ListenToIdleRsp(s, a) ==
    IF a # "ok" THEN Error(s)
    ELSE IF s.ntf THEN Enter(s, "IDLE") ELSE [s EXCEPT !.expecting_ntf = TRUE]

\* NFCCs that refuse to go to DISCOVERY are sent to IDLE.
ToDiscoveryIdleRsp(s, a) == IF a = "ok" THEN Enter(s, "IDLE") ELSE Error(s)

OnResponse(s, h, a) ==
    CASE h = "reset" -> ResetRsp(s, a)
      [] h = "init" -> InitRsp(s, a)
      [] h = "reset_config" -> ResetConfigRsp(s, a)
      [] h = "get_config" -> GetConfigRsp(s, a)
      [] h = "set_config" -> SetConfigRsp(s, a)
      [] h = "mixed" -> MixedRsp(s, a)
      [] h = "protocol" -> ProtocolRsp(s, a)
      [] h \in {"last_protocol", "technology"} -> LastRoutingRsp(s, a)
      [] h = "map" -> MapRsp(s, a)
      [] h = "discover" -> DiscoverRsp(s, a)
      [] h = "to_idle" -> ToIdleRsp(s, a)
      [] h = "to_discovery" -> ToDiscoveryRsp(s, a)
      [] h = "to_discovery_idle" -> ToDiscoveryIdleRsp(s, a)
      [] h = "poll_to_idle" -> PollToIdleRsp(s, a)
      [] h = "listen_to_idle" -> ListenToIdleRsp(s, a)

\* nci_core_sar_handle_response: gid and oid are all that is compared. The
\* handler of a transition that is not active anymore does nothing.
HandleResponse(s, op, a) ==
    LET h == s.rsp_handler
        t == [s EXCEPT !.cmd_timeout = FALSE, !.cmd_id = FALSE,
                       !.rsp_handler = None]
    IN  IF h = None THEN s
        ELSE IF Opcode(h) # op THEN s
        ELSE IF Owner(h) = None \/ Owner(h) # s.trans THEN t
        ELSE OnResponse(t, h, a)

-----------------------------------------------------------------------------
(***************************************************************************)
(* Notifications. Those with nothing but credits or a generic error in     *)
(* them that no state cares about change nothing here and are left out.    *)
(* The mode of an activation that does not parse is zero, a poll mode.     *)
(***************************************************************************)
Notifications ==
    [ntf : {"reset", "broken_credits", "activation_failed", "interface_error"}]
    \cup [ntf : {"discover"}, last : BOOLEAN, supported : BOOLEAN]
    \cup {n \in [ntf : {"activated"}, listen : BOOLEAN, ok : BOOLEAN] :
                n.listen => n.ok}
    \cup [ntf : {"deactivate"}, type : {"IDLE", "DISCOVERY", "SLEEP", "broken"},
          dh_request : BOOLEAN]

\* Mutant: every deactivation type is taken for a state.
RfDeactivateAnywhere(s, n) == Enter(s, n.type)

\* nci_sm_handle_rf_deactivate_ntf
RfDeactivate(s, n) ==
    IF n.type \in {"IDLE", "DISCOVERY"} THEN Enter(s, n.type) ELSE Error(s)

\* nci_transition_listen_active_to_idle_handle_ntf
ListenToIdleNtf(s, n) ==
    IF n.type = "broken" THEN Error(s)
    ELSE IF s.expecting_ntf /\ n.type = "IDLE" /\ n.dh_request
         THEN Enter(s, "IDLE")
         ELSE [s EXCEPT !.ntf = TRUE]

\* nci_transition_reset_handle_ntf: only NCI 2.x sends it.
ResetNtf(s) == IF s.version = 2 THEN IoSend(s, "init") ELSE s

\* nci_transition_handle_ntf
TransitionNtf(s, n) ==
    CASE s.trans = "reset" /\ n.ntf = "reset" -> ResetNtf(s)
      [] /\ s.trans \in {"deactivate_to_discovery", "poll_active_to_idle"}
         /\ n.ntf = "deactivate" -> RfDeactivate(s, n)
      [] s.trans = "listen_active_to_idle" /\ n.ntf = "deactivate" ->
            ListenToIdleNtf(s, n)
      [] OTHER -> s

\* RF_INTF_ACTIVATED_NTF: the state is entered first, its signals run client
\* code, and then the interface is set up (nci_sm_intf_activated) or, if the
\* notification did not parse, the target is given up.
Activated(s, st, n, r, fallback) ==
    LET t == React(Enter(s, st), r)
    IN  IF n.ok THEN [t EXCEPT !.negotiated = TRUE] ELSE SwitchTo(t, fallback)

DiscoveryNtf(s, n, r) ==
    CASE n.ntf = "discover" -> EnterAllDiscoveries(s, n, r)
      [] n.ntf = "activated" ->
            Activated(s, IF n.listen THEN "LISTEN_ACTIVE" ELSE "POLL_ACTIVE",
                      n, r, "IDLE")
      [] OTHER -> s

HostSelectNtf(s, n, r) ==
    CASE n.ntf = "activation_failed" -> SwitchTo(s, "DISCOVERY")
      [] n.ntf = "activated" -> Activated(s, "POLL_ACTIVE", n, r, "DISCOVERY")
      [] OTHER -> s

PollActiveNtf(s, n) ==
    CASE n.ntf = "interface_error" -> SwitchTo(s, "DISCOVERY")
      [] n.ntf = "deactivate" -> RfDeactivate(s, n)
      [] OTHER -> s

ListenActiveNtf(s, n) ==
    CASE n.ntf = "interface_error" -> SwitchTo(s, "DISCOVERY")
      [] n.ntf = "deactivate" /\ n.type = "SLEEP" -> Enter(s, "LISTEN_SLEEP")
      [] n.ntf = "deactivate" /\ n.type = "DISCOVERY" -> Enter(s, "DISCOVERY")
      [] n.ntf = "deactivate" /\ n.type \in {"IDLE", "broken"} -> Error(s)
      [] OTHER -> s

\* Mutant: any activation wakes the machine up.
ListenSleepWakes(s, n, r) ==
    IF n.ntf = "activated"
    THEN Activated(s, IF n.listen THEN "LISTEN_ACTIVE" ELSE "POLL_ACTIVE", n, r, "IDLE")
    ELSE s

ListenSleepNtf(s, n, r) ==
    CASE n.ntf = "activated" ->
            IF n.ok /\ n.listen THEN Activated(s, "LISTEN_ACTIVE", n, r, "IDLE")
                                ELSE Error(s)
      [] n.ntf = "deactivate" ->
            IF n.type = "DISCOVERY" THEN Enter(s, "DISCOVERY") ELSE Error(s)
      [] OTHER -> s

\* nci_state_handle_ntf
StateNtf(s, n, r) ==
    CASE s.last = "DISCOVERY" -> DiscoveryNtf(s, n, r)
      [] s.last = "W4_ALL_DISCOVERIES" ->
            IF n.ntf = "discover" THEN HandleDiscovery(s, n) ELSE s
      [] s.last = "W4_HOST_SELECT" -> HostSelectNtf(s, n, r)
      [] s.last = "POLL_ACTIVE" -> PollActiveNtf(s, n)
      [] s.last = "LISTEN_ACTIVE" -> ListenActiveNtf(s, n)
      [] s.last = "LISTEN_SLEEP" -> ListenSleepNtf(s, n, r)
      [] OTHER -> s

\* nci_sm_handle_ntf. Everyone handles CORE_CONN_CREDITS_NTF in the same way.
HandleNtf(s, n, r) ==
    IF n.ntf = "broken_credits" THEN Error(s)
    ELSE IF s.trans # None THEN TransitionNtf(s, n) ELSE StateNtf(s, n, r)

-----------------------------------------------------------------------------
\* Bounds: longer queues need more overtaken and unanswered commands.
InBounds(s) == Len(s.out) <= MaxOut /\ Len(s.wire) <= MaxWire
Becomes(s) == sm' = s /\ InBounds(sm')

(***************************************************************************)
(* Actions of the client                                                   *)
(***************************************************************************)

\* nci_core_restart; nci_core_set_params and nci_core_reset_param do the same
\* when they change something.
Restart == Becomes(RestartInternal(sm))

\* nci_core_set_state
SetState(st) == Becomes(SwitchTo(sm, st))

\* nci_core_set_op_mode, nci_core_set_tech
SetOpMode(mode) ==
    /\ mode # sm.op_mode
    /\ Becomes(SmRestart([sm EXCEPT !.op_mode = mode]))

-----------------------------------------------------------------------------
(***************************************************************************)
(* Actions of the main loop                                                *)
(***************************************************************************)

\* nci_sm_switch_proc, the deferred switch
SwitchProc ==
    /\ sm.pending_switch # None
    /\ Becomes(SwitchInternal([sm EXCEPT !.pending_switch = None],
                              sm.pending_switch))

\* nci_transition_timeout
TransitionTimeout(t) ==
    /\ t \in sm.timers
    /\ Becomes(Error([sm EXCEPT !.timers = sm.timers \ {t}]))

\* nci_core_command_timeout: the handler of the active transition fails it,
\* the signals of that run client code, and then the machine is stalled.
TimedOut(s) == [IF s.cmd_id THEN SarCancel(s) ELSE s EXCEPT
                    !.cmd_timeout = FALSE, !.cmd_id = FALSE, !.rsp_handler = None]
CommandTimeout(r) ==
    LET h == sm.rsp_handler
        told == h # None /\ h # "select" /\ Owner(h) = sm.trans
    IN  /\ sm.cmd_timeout
        /\ r # "nothing" => told
        /\ Becomes(Error(IF told THEN React(Error(TimedOut(sm)), r)
                         ELSE TimedOut(sm)))

\* The HAL takes the first command of the queue; the NFCC gets it.
Submitted(s) ==
    IF s.out = << >> THEN s
    ELSE [s EXCEPT !.writing = TRUE, !.wire = Append(s.wire, s.out[1].op)]

\* The idle callback nci_sar_start_write
StartWrite ==
    /\ sm.start_write
    /\ Becomes(LET s == [sm EXCEPT !.start_write = FALSE]
               IN  IF s.writing THEN s ELSE Submitted(s))

\* nci_sar_write_completed, nci_core_command_completion with success = TRUE:
\* it does not matter to the latter which command was written.
WriteCompleted ==
    /\ sm.writing
    /\ Becomes(Submitted([sm EXCEPT
                !.writing = FALSE,
                !.out = Tail(sm.out),
                !.cmd_id = sm.cmd_id /\ ~sm.out[1].complete]))

\* The HAL refuses a write or completes it with an error. The completion
\* callback of the command, if it is still set, fails the machine, and so does
\* nci_core_sar_error after it. Only a refused write schedules the next one.
WriteFailed(r) ==
    LET first == sm.out[1]
        s == [sm EXCEPT
                !.writing = FALSE,
                !.start_write = IF sm.writing THEN sm.start_write ELSE FALSE,
                !.out = Tail(sm.out),
                !.cmd_id = sm.cmd_id /\ ~first.complete]
        t == Error(IF first.complete THEN React(Error(s), r) ELSE s)
    IN  /\ sm.out # << >>
        /\ sm.writing \/ sm.start_write
        /\ r # "nothing" => first.complete
        /\ Becomes(IF sm.writing THEN t
                   ELSE [t EXCEPT !.start_write = t.start_write \/ t.out # << >>])

\* nci_core_sar_error, on an error of the HAL
HalError == Becomes(Error(sm))

-----------------------------------------------------------------------------
(***************************************************************************)
(* Actions of the NFCC: it answers in order, or does not answer.           *)
(***************************************************************************)
Respond(a) ==
    /\ sm.wire # << >>
    /\ a \in AnswersTo(sm.wire[1])
    /\ Becomes(HandleResponse([sm EXCEPT !.wire = Tail(sm.wire)], sm.wire[1], a))

LoseResponse ==
    /\ sm.wire # << >>
    /\ Becomes([sm EXCEPT !.wire = Tail(sm.wire)])

Notify(n, r) ==
    /\ r # "nothing" => n.ntf = "activated" \/ (n.ntf = "discover" /\ n.last)
    /\ Becomes(HandleNtf(sm, n, r))

-----------------------------------------------------------------------------
Client ==
    \/ Restart
    \/ \E st \in Targets : SetState(st)
    \/ \E mode \in Modes : SetOpMode(mode)

Timers ==
    \/ SwitchProc
    \/ \E t \in Transitions : TransitionTimeout(t)
    \/ \E r \in Reactions : CommandTimeout(r)

Io ==
    \/ StartWrite
    \/ WriteCompleted
    \/ \E r \in Reactions : WriteFailed(r)
    \/ HalError

Nfcc ==
    \/ \E a \in Answers : Respond(a)
    \/ LoseResponse
    \/ \E n \in Notifications, r \in Reactions : Notify(n, r)

Next == Client \/ Timers \/ Io \/ Nfcc

Spec == Init /\ [][Next]_sm

(***************************************************************************)
(* The GLib main loop dispatches the timeout of a transition that nobody   *)
(* removes. This is weak fairness of the timeouts, taken together, with    *)
(* ENABLED <<...>>_sm spelled out: a timer is armed. Nothing is assumed of *)
(* the client, the HAL and the NFCC, or of the timeouts of the commands.   *)
(***************************************************************************)
FairSpec ==
    /\ Spec
    /\ \/ []<>(sm.timers = {})
       \/ []<><<\E t \in Transitions : TransitionTimeout(t)>>_sm

-----------------------------------------------------------------------------
(***************************************************************************)
(* Properties                                                              *)
(***************************************************************************)

\* The fields of NciSmObject and NciCoreObject hold values of their types.
TypeOK == sm \in SmState

\* Between two events the public fields of NciCore are those of the state
\* machine: every path that changes last_state or next_state, however deeply
\* nested, ends with its signals emitted.
ClientIsUpToDate ==
    sm.current_state = sm.last /\ sm.next_state = sm.next

\* nci_core.h: "If current_state != next_state, the state machine is
\* transitioning from one state to another."
TransitioningMeansTransition == sm.current_state # sm.next_state => sm.trans # None

\* The timeout of a transition is armed exactly while the transition is
\* active, so that no transition waits forever for the NFCC and none that has
\* been finished, abandoned or replaced breaks the machine later.
TransitionIsTimed ==
    Timeouts => sm.timers = (IF sm.trans = None THEN {} ELSE {sm.trans})

\* The same for commands: whoever waits for a response has a timeout armed,
\* and the timeout of a command that nobody waits for is gone.
CommandIsTimed == Timeouts => (sm.cmd_timeout <=> sm.rsp_handler # None)

\* A transition is only run from a state that has it, or it is the reset
\* transition: next_transition is never started from the wrong state.
TransitionFitsState ==
    sm.trans \in {None, "reset", GetTransition(sm.last, "IDLE"),
                  GetTransition(sm.last, "DISCOVERY")}

\* While the RF interface is not active the data payload size is the default
\* one: nothing negotiated for a target survives the return to DISCOVERY.
DiscoveryHasDefaultPayload ==
    sm.last \in {"DISCOVERY", "W4_ALL_DISCOVERIES", "W4_HOST_SELECT"}
        => ~sm.negotiated

\* nci_sm_set_op_mode: "If we are really changing the mode, we need to
\* reconfigure NFCC". At rest beyond IDLE it is configured for op_mode.
ConfiguredForMode ==
    sm.last \in BeyondIdle /\ sm.trans = None /\ sm.pending_switch = None
        => sm.used = {sm.op_mode}

\* nci_state_w4_all_discoveries.c: after the last RF_DISCOVER_NTF "the state
\* is changed to RFST_W4_HOST_SELECT", and not back.
HostSelectIsLast == sm.active = "W4_HOST_SELECT" => sm.last = "W4_HOST_SELECT"

\* The client sees the states and the moves that NciRfStates promises.
Promise == INSTANCE NciRfStates WITH current <- sm.current_state,
                                     goal <- sm.next_state
RefinesRfStates == Promise!Spec

\* A transition comes to an end whatever the NFCC, the HAL and the client do:
\* it gets to its state, is abandoned or times out. The client may put off the
\* end of the reset transition, by restarting the machine again and again.
TransitionsEnd ==
    \/ []<><<Restart>>_sm
    \/ \A t \in Transitions : sm.trans = t ~> sm.trans # t
=============================================================================
