---------------------------- MODULE NciRfStates ----------------------------
(***************************************************************************)
(* What the state machine promises its client: the states of NCI_STATE in  *)
(* nci_types.h and the moves between them that a client of NciCore may     *)
(* observe. How the moves come about (commands, timeouts, notifications)   *)
(* is not visible here; NciSm implements this module.                      *)
(***************************************************************************)
VARIABLES
    current,  \* NciCore.current_state
    goal      \* NciCore.next_state

InternalStates == {"INIT", "ERROR", "STOP"}
RfStates == {"IDLE", "DISCOVERY", "W4_ALL_DISCOVERIES", "W4_HOST_SELECT",
             "POLL_ACTIVE", "LISTEN_ACTIVE", "LISTEN_SLEEP"}
States == InternalStates \cup RfStates

(***************************************************************************)
(* The RF communication state machine of the NCI specification (5.2), as   *)
(* the comments of the nci_state_*.c and nci_transition_*.c files quote    *)
(* it. The internal states are entered from anywhere and left for IDLE,    *)
(* through the reset sequence, only.                                       *)
(***************************************************************************)
Successors(state) ==
    InternalStates \cup
        CASE state \in InternalStates -> {"IDLE"}
          [] state = "IDLE" -> {"DISCOVERY"}
          [] state = "DISCOVERY" ->
                {"IDLE", "W4_ALL_DISCOVERIES", "POLL_ACTIVE", "LISTEN_ACTIVE"}
          [] state = "W4_ALL_DISCOVERIES" -> {"IDLE", "W4_HOST_SELECT"}
          [] state = "W4_HOST_SELECT" -> {"IDLE", "POLL_ACTIVE"}
          [] state = "POLL_ACTIVE" -> {"IDLE", "DISCOVERY"}
          [] state = "LISTEN_ACTIVE" -> {"IDLE", "DISCOVERY", "LISTEN_SLEEP"}
          [] state = "LISTEN_SLEEP" -> {"IDLE", "DISCOVERY", "LISTEN_ACTIVE"}

Init == current = "INIT" /\ goal = "INIT"

\* A transition has been started, redirected or given up.
Aim ==
    /\ goal' \in {current, "IDLE", "DISCOVERY"}
    /\ UNCHANGED current

\* A state has been entered. The machine stays there or goes on to IDLE or
\* DISCOVERY, the only states that it can be sent to.
Move ==
    /\ current' \in Successors(current)
    /\ goal' \in {current', "IDLE", "DISCOVERY"}

Next == Aim \/ Move

Spec == Init /\ [][Next]_<<current, goal>>
=============================================================================
