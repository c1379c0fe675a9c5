------------------------------ MODULE NciParams ------------------------------
(***************************************************************************)
(* The parameters of NciCore: their defaults in the configuration file,    *)
(* nci_core_set_params and nci_core_reset_param, and how a change gets to  *)
(* those who listen for it and to the NFCC.                                *)
(*                                                                         *)
(* A change is made first, then announced, one signal for every parameter, *)
(* and then the state machine is restarted. A handler of a signal may set  *)
(* parameters again, which does all of that in the middle of the outer     *)
(* call. LLC_VERSION and LLC_WKS are given to the NFCC when it is reset.   *)
(*                                                                         *)
(* Of the state machine there is the reset transition here, and how it is  *)
(* begun anew, and of the layers below what becomes of its commands: each  *)
(* takes the place of the one before while that is known and has not been  *)
(* written. Module NciSm has the rest of the machine, NciSar that of the   *)
(* SAR, and NciDiscoverConfig what becomes of LA_NFCID1 and LI_A_HB.       *)
(***************************************************************************)
EXTENDS Integers, Sequences

CONSTANTS
    Files,        \* contents of the configuration file
    Lists,        \* lists of parameters that clients set
    Versions,     \* NCI versions of the NFCC
    MaxDepth,     \* bound: calls in the middle of one another
    MaxPending    \* bound: commands and answers on their way

None == "none"

\* NCI_CORE_PARAM: changes are announced in this order.
Number == [LLC_VERSION |-> 0, LLC_WKS |-> 1, LA_NFCID1 |-> 2, LI_A_HB |-> 3]
Keys == DOMAIN Number
First(keys) == CHOOSE k \in keys : \A j \in keys : Number[k] <= Number[j]

\* NciNfcid1 and NciAtsHb: a length, and the bytes as one value. "dynamic" is
\* a first byte of 08h. Text of the configuration file has a length, is
\* hexadecimal or is not, and stands for bytes.
Empty == [len |-> 0, bytes |-> "zero"]
Bytes == [len : Nat, bytes : {"zero", "dynamic", "x", "y"}]
Text == [len : Nat, hex : BOOLEAN, bytes : {"zero", "dynamic", "x", "y"}]
MaxHistBytes == 15

\* NciCoreParam, with values of 8 and of 16 bits
MaxUint8 == 255
MaxUint16 == 65535
Param == [key : {"LLC_VERSION"}, value : 0 .. MaxUint8]
            \cup [key : {"LLC_WKS"}, value : 0 .. MaxUint16]
            \cup [key : {"LA_NFCID1", "LI_A_HB"}, value : Bytes]

ASSUME ParamsAssumption ==
    /\ Files \subseteq [nfcid1 : Text, hb : Text]
    /\ \A list \in Lists : list \in Seq(Param)
    /\ Versions \subseteq {1, 2}
    /\ MaxDepth \in Nat \ {0}
    /\ MaxPending \in Nat

VARIABLES
    values,    \* llc_version, llc_wks, la_nfcid1 and li_a_hb of NciSm
    defaults,  \* what they are reset to
    calls,     \* calls under way, the innermost one last
    seen,      \* a client that reads a parameter when told of its change
    sm,        \* the reset transition
    sar,       \* commands of this host that are to be written
    wire,      \* commands on their way to the NFCC
    replies,   \* responses and notifications on their way back
    nfcc       \* the NFCC

vars == <<values, defaults, calls, seen, sm, sar, wire, replies, nfcc>>
host == <<sm, sar>>
link == <<wire, replies, nfcc>>

-----------------------------------------------------------------------------
(***************************************************************************)
(* Values                                                                  *)
(***************************************************************************)

\* nci_nfcid1_dynamic
Dynamic(id) == id.len = 0 \/ (id.len = 4 /\ id.bytes = "dynamic")

\* nci_nfcid1_equal
Nfcid1Equal(id1, id2) ==
    IF id1.len = id2.len THEN id1.len = 0 \/ id1.bytes = id2.bytes
    ELSE (id1.len = 0 \/ id2.len = 0) /\ Dynamic(id1) /\ Dynamic(id2)

Equal(key, x, y) == IF key = "LA_NFCID1" THEN Nfcid1Equal(x, y) ELSE x = y

\* nci_sm_parse_config
DefaultNfcid1(text) ==
    IF text.len \in {8, 14, 20} /\ text.hex
    THEN [len |-> text.len \div 2, bytes |-> text.bytes] ELSE Empty

DefaultHistBytes(text) ==
    IF text.len \in 1 .. 2 * MaxHistBytes /\ text.len % 2 = 0 /\ text.hex
    THEN [len |-> text.len \div 2, bytes |-> text.bytes] ELSE Empty

\* Mutant: an NFCID1 of any length is taken.
SetNfcid1Unchecked(old, id) == id

\* nci_sm_set_la_nfcid1
SetNfcid1(old, id) ==
    IF id.len \notin {0, 4, 7, 10} \/ Nfcid1Equal(id, old) THEN old
    ELSE IF Dynamic(id) THEN Empty ELSE id

\* nci_sm_set_li_a_hb
SetHistBytes(hb) ==
    IF hb.len = 0 THEN Empty
    ELSE [hb EXCEPT !.len = IF hb.len > MaxHistBytes THEN MaxHistBytes ELSE hb.len]

\* The set functions of nci_core_params. The link management service is
\* always one of the well-known ones.
Set(v, p) == [v EXCEPT ![p.key] =
    CASE p.key = "LLC_VERSION" -> p.value
      [] p.key = "LLC_WKS" -> p.value + 1 - (p.value % 2)
      [] p.key = "LA_NFCID1" -> SetNfcid1(v[p.key], p.value)
      [] p.key = "LI_A_HB" -> SetHistBytes(p.value)]

\* The loop over the list
SetAll(base, list) ==
    LET after[i \in 0 .. Len(list)] ==
            IF i = 0 THEN base ELSE Set(after[i - 1], list[i])
    IN  after[Len(list)]

\* The parameters that are to be announced
Changed(old, new) == {k \in Keys : ~Equal(k, old[k], new[k])}

-----------------------------------------------------------------------------
(***************************************************************************)
(* The reset transition                                                    *)
(***************************************************************************)
Command(op) == [op |-> op, gb |-> << >>]

\* LLCP parameters in the general bytes of ATR_REQ and ATR_RES
GeneralBytes == <<values["LLC_VERSION"], values["LLC_WKS"] \div 256,
                  values["LLC_WKS"] % 256>>
SetConfigCommand == [op |-> "SET_CONFIG", gb |-> GeneralBytes]

\* A SAR with nothing to write. `cmd_id` of NciCoreObject names a command, the
\* latest one, `out` is the queue behind the one that is being written, and
\* `complete` is there if that one is to tell nci_core when it is.
EmptySar == [out |-> << >>, cmd_id |-> FALSE, writing |-> FALSE, complete |-> FALSE]

\* nci_core_cancel_command, nci_sar_cancel: only a command that cmd_id names.
Cancelled(q) ==
    IF ~q.cmd_id THEN q
    ELSE IF q.out = << >> THEN [q EXCEPT !.cmd_id = FALSE, !.complete = FALSE]
    ELSE [q EXCEPT !.cmd_id = FALSE, !.out = SubSeq(@, 1, Len(@) - 1)]

\* nci_core_io_send
Send(q, s, cmd) ==
    /\ sm' = [s EXCEPT !.wait = cmd.op]
    /\ sar' = [Cancelled(q) EXCEPT !.out = Append(@, cmd), !.cmd_id = TRUE]

\* nci_sm_error, nci_core_io_cancel
Error(q) ==
    /\ sm' = [sm EXCEPT !.state = "ERROR", !.trans = FALSE, !.wait = None]
    /\ sar' = Cancelled(q)

\* A write that is cancelled may have reached the NFCC or not.
CancelWrite ==
    \/ UNCHANGED wire
    \/ sar.writing /\ wire # << >> /\ wire' = SubSeq(wire, 1, Len(wire) - 1)

\* Mutant: a machine that is being reset is left alone.
RestartInternalOnce ==
    IF sm.trans THEN UNCHANGED <<host, wire>>
    ELSE /\ Send(EmptySar,
                 [state |-> "INIT", trans |-> TRUE, version |-> 0, wait |-> None],
                 Command("RESET"))
         /\ CancelWrite

\* nci_core_restart_internal, nci_sar_reset, nci_sm_reset,
\* nci_transition_reset_start
RestartInternal ==
    /\ Send(EmptySar,
            [state |-> "INIT", trans |-> TRUE, version |-> 0, wait |-> None],
            Command("RESET"))
    /\ CancelWrite

\* nci_sm_parse_config clears what is behind an even number of digits as if it
\* were behind as many bytes. From 16 to 28 digits the length of that wraps
\* around, and the program ends before there is an NciCore.
Starts(file) ==
    ~ (file.hb.hex /\ file.hb.len % 2 = 0
       /\ file.hb.len > MaxHistBytes /\ file.hb.len < 2 * MaxHistBytes)

\* Configuration of the NFCC survives a reset (CORE_RESET_CMD with 00h).
Init ==
    /\ \E file \in {f \in Files : Starts(f)} :
          defaults = [k \in Keys |->
                        CASE k = "LLC_VERSION" -> 17
                          [] k = "LLC_WKS" -> 3
                          [] k = "LA_NFCID1" -> DefaultNfcid1(file.nfcid1)
                          [] k = "LI_A_HB" -> DefaultHistBytes(file.hb)]
    /\ values = defaults
    /\ seen = defaults
    /\ calls = << >>
    /\ sm = [state |-> "INIT", trans |-> FALSE, version |-> 0, wait |-> None]
    /\ sar = EmptySar
    /\ wire = << >>
    /\ replies = << >>
    /\ \E v \in Versions : nfcc = [version |-> v, gb |-> << >>, refused |-> FALSE]

-----------------------------------------------------------------------------
(***************************************************************************)
(* Actions of clients. They are called by the main loop, or by the signals *)
(* of a call of their own.                                                 *)
(***************************************************************************)
Top == calls[Len(calls)]
ClientRuns == IF calls = << >> THEN TRUE ELSE Top.running /\ Len(calls) < MaxDepth

Change(old, new) ==
    LET keys == Changed(old, new)
    IN  /\ values' = new
        /\ calls' = IF keys = {} THEN calls
                    ELSE Append(calls, [keys |-> keys, running |-> FALSE])
        /\ UNCHANGED <<defaults, seen, host, link>>

\* Mutant: the current values are saved after the reset.
SetParamsSavedLate(list, reset) ==
    LET base == IF reset THEN defaults ELSE values
    IN  ClientRuns /\ Change(base, SetAll(base, list))

\* nci_core_set_params
SetParams(list, reset) ==
    /\ ClientRuns
    /\ Change(values, SetAll(IF reset THEN defaults ELSE values, list))

\* nci_core_reset_param
ResetParam(key) ==
    /\ ClientRuns
    /\ Change(values, [values EXCEPT ![key] = defaults[key]])

\* nci_core_restart
Restart ==
    /\ ClientRuns
    /\ RestartInternal
    /\ UNCHANGED <<values, defaults, calls, seen, replies, nfcc>>

(***************************************************************************)
(* The rest of nci_core_set_params. A signal runs the clients that may     *)
(* call again first, and then the one that keeps `seen`.                   *)
(***************************************************************************)
Emit ==
    /\ calls # << >>
    /\ ~Top.running /\ Top.keys # {}
    /\ calls' = [calls EXCEPT ![Len(calls)].running = TRUE]
    /\ UNCHANGED <<values, defaults, seen, host, link>>

Listen ==
    /\ calls # << >>
    /\ Top.running
    /\ LET key == First(Top.keys)
       IN  /\ seen' = [seen EXCEPT ![key] = values[key]]
           /\ calls' = [calls EXCEPT ![Len(calls)] =
                           [keys |-> Top.keys \ {key}, running |-> FALSE]]
    /\ UNCHANGED <<values, defaults, host, link>>

Return ==
    /\ calls # << >>
    /\ ~Top.running /\ Top.keys = {}
    /\ calls' = SubSeq(calls, 1, Len(calls) - 1)
    /\ RestartInternal
    /\ UNCHANGED <<values, defaults, seen, replies, nfcc>>

-----------------------------------------------------------------------------
(***************************************************************************)
(* Actions of the main loop                                                *)
(***************************************************************************)
InMainLoop == calls = << >>
Fits(more) == Len(wire) + Len(replies) + more <= MaxPending

\* nci_sar_attempt_write: the first command of the queue, if there is any, is
\* given to the HAL, when the write before it has left q.
AttemptWrite(q) ==
    IF q.out = << >> THEN sar' = q /\ UNCHANGED wire
    ELSE /\ Fits(1)
         /\ wire' = Append(wire, q.out[1])
         /\ sar' = [q EXCEPT !.out = Tail(@), !.writing = TRUE, !.complete = TRUE]

\* nci_sar_start_write
StartWrite ==
    /\ InMainLoop
    /\ ~sar.writing /\ sar.out # << >>
    /\ AttemptWrite(sar)
    /\ UNCHANGED <<values, defaults, calls, seen, sm, replies, nfcc>>

\* nci_sar_write_completed, nci_core_command_completion
WriteCompleted ==
    /\ InMainLoop
    /\ sar.writing
    /\ AttemptWrite([sar EXCEPT !.cmd_id = @ /\ ~sar.complete,
                                !.writing = FALSE, !.complete = FALSE])
    /\ UNCHANGED <<values, defaults, calls, seen, sm, replies, nfcc>>

\* nci_transition_reset_rsp, nci_transition_reset_init_v1_rsp and _v2_rsp,
\* nci_transition_reset_set_config_rsp. A response that is not to the latest
\* command is dropped (nci_core_sar_handle_response), and the failure of
\* CORE_SET_CONFIG is ignored. A late response that is taken for the answer to
\* a command that waits yet leaves it in the queue, with no name.
HandleResponse(r) ==
    LET s == [sm EXCEPT !.wait = None]
        q == [sar EXCEPT !.cmd_id = FALSE]
    IN  IF r.op # sm.wait THEN UNCHANGED host
        ELSE IF r.op = "SET_CONFIG"
        THEN sm' = [s EXCEPT !.state = "IDLE", !.trans = FALSE] /\ sar' = q
        ELSE IF ~r.ok THEN Error(q)
        ELSE IF r.op = "INIT" THEN Send(q, s, SetConfigCommand)
        ELSE IF r.version = 1 THEN Send(q, [s EXCEPT !.version = 1], Command("INIT"))
        ELSE sm' = [s EXCEPT !.version = 2] /\ sar' = q

\* nci_transition_reset_handle_ntf
HandleResetNtf ==
    IF sm.trans /\ sm.version = 2 THEN Send(sar, sm, Command("INIT")) ELSE UNCHANGED host

Receive ==
    /\ InMainLoop
    /\ replies # << >>
    /\ IF replies[1].rsp THEN HandleResponse(replies[1]) ELSE HandleResetNtf
    /\ replies' = Tail(replies)
    /\ UNCHANGED <<values, defaults, calls, seen, wire, nfcc>>

\* Mutant: only a command has a timeout.
TimeoutOfCommand ==
    /\ InMainLoop
    /\ sm.wait # None
    /\ Error(sar)
    /\ UNCHANGED <<values, defaults, calls, seen, link>>

\* nci_core_command_timeout, nci_transition_timeout
Timeout ==
    /\ InMainLoop
    /\ sm.trans
    /\ Error(sar)
    /\ UNCHANGED <<values, defaults, calls, seen, link>>

-----------------------------------------------------------------------------
(***************************************************************************)
(* Actions of the NFCC: commands are carried out in order, and answers may *)
(* get lost.                                                               *)
(***************************************************************************)
Answer(cmd, ok) == [rsp |-> TRUE, op |-> cmd.op, ok |-> ok, version |-> nfcc.version]
ResetNtf == [rsp |-> FALSE]

Perform(ok) ==
    LET cmd == wire[1]
        all == IF cmd.op = "RESET" /\ ok /\ nfcc.version = 2
               THEN <<Answer(cmd, ok), ResetNtf>> ELSE <<Answer(cmd, ok)>>
    IN  /\ wire # << >>
        /\ Fits(Len(all) - 1)
        /\ wire' = Tail(wire)
        /\ replies' = replies \o all
        /\ nfcc' = IF cmd.op # "SET_CONFIG" THEN nfcc
                   ELSE IF ok THEN [nfcc EXCEPT !.gb = cmd.gb, !.refused = FALSE]
                   ELSE [nfcc EXCEPT !.refused = TRUE]
        /\ UNCHANGED <<values, defaults, calls, seen, host>>

Lose ==
    /\ replies # << >>
    /\ replies' = Tail(replies)
    /\ UNCHANGED <<values, defaults, calls, seen, host, wire, nfcc>>

-----------------------------------------------------------------------------
Client ==
    \/ \E list \in Lists, reset \in BOOLEAN : SetParams(list, reset)
    \/ \E key \in Keys : ResetParam(key)
    \/ Restart

Next ==
    \/ Client
    \/ Emit
    \/ Listen
    \/ Return
    \/ StartWrite
    \/ WriteCompleted
    \/ Receive
    \/ Timeout
    \/ \E ok \in BOOLEAN : Perform(ok)
    \/ Lose

Spec == Init /\ [][Next]_vars

(***************************************************************************)
(* A call that has begun goes on, and the main loop dispatches a timeout   *)
(* that nobody removes. Nothing is assumed of the NFCC and of the writing. *)
(***************************************************************************)
FairSpec ==
    /\ Spec
    /\ WF_vars(Emit)
    /\ WF_vars(Listen)
    /\ WF_vars(Return)
    /\ WF_vars(Timeout)

-----------------------------------------------------------------------------
(***************************************************************************)
(* Properties                                                              *)
(***************************************************************************)

\* Whatever clients ask for, and the configuration file if the program starts
\* with it, the parameters of NciSm are such that the NFCC can be given them: an
\* NFCID1 of a length that exists, no more than 15 historical bytes and the link
\* management service in WKS. A command is told of its writing only while it is
\* written.
TypeOK ==
    /\ values["LLC_VERSION"] \in 0 .. MaxUint8
    /\ values["LLC_WKS"] \in 0 .. MaxUint16 /\ values["LLC_WKS"] % 2 = 1
    /\ values["LA_NFCID1"] \in Bytes /\ values["LA_NFCID1"].len \in {0, 4, 7, 10}
    /\ values["LI_A_HB"] \in Bytes /\ values["LI_A_HB"].len <= MaxHistBytes
    /\ sm \in [state : {"INIT", "IDLE", "ERROR"}, trans : BOOLEAN, version : 0 .. 2,
               wait : {None, "RESET", "INIT", "SET_CONFIG"}]
    /\ Len(calls) <= MaxDepth
    /\ sar.complete => sar.writing

\* When nci_core_set_params or nci_core_reset_param returns to the main loop a
\* client that reads a parameter whenever it is told of its change has the
\* current value of all of them, even if other clients have changed them again,
\* or back, in the middle of the signals.
ListenersAreUpToDate ==
    calls = << >> =>
        \A k \in Keys :
            \/ seen[k] = values[k]
            \/ k = "LA_NFCID1" /\ Dynamic(seen[k]) /\ Dynamic(values[k])

\* Once the NFCC has been reset and has got every command, it has the current
\* LLCP parameters, unless it refused them. The answer to an earlier
\* CORE_SET_CONFIG_CMD, from before another restart, may be taken for the answer
\* to the last one and end the reset too soon, or to a command that is still in
\* the queue, which is then written besides the one that follows it. The last
\* CORE_SET_CONFIG_CMD is written after all the others, all the same.
NfccHasLlcParams ==
    sm.state = "IDLE" /\ calls = << >> /\ sar.out = << >> /\ wire = << >>
        /\ ~nfcc.refused
    =>  /\ nfcc.gb[1] = values["LLC_VERSION"]
        /\ nfcc.gb[2] * 256 + nfcc.gb[3] = values["LLC_WKS"]

\* Unless clients go on calling, every call returns and the reset that it has
\* begun comes to an end, in IDLE or in ERROR, whatever gets lost on the way.
Settles == \/ []<><<Client>>_vars
           \/ []<>(calls = << >> /\ ~sm.trans)
=============================================================================
