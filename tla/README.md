# A verification project for libncicore

libncicore talks to an NFC controller (NFCC) in the NCI protocol. It is a GLib
library: single threaded, driven by the main loop, with callbacks and signals that
call client code which calls back into the library. This directory holds TLA+ models
of it, the TLC instances that check them and TLAPS proofs. Paths such as
`src/nci_sar.c` are those of the repository.

## 1. The system

| Part | State it keeps | Operations |
|---|---|---|
| SAR, transmit (`nci_sar.c`) | command queue, a queue and a credit count per logical connection, the packet being written, whether a HAL write is in flight, the idle source, payload limits, packet ids | send, cancel, reset, start, resize, set limits, set and add credits, idle callback, write completion |
| SAR, receive (`nci_sar.c`) | `read_buf`, the parts of the unfinished control packet and of one data packet per connection | HAL read of any length, HAL error |
| State machine (`nci_sm.c`) | last and next state, the active and the queued transition, a deferred switch, pending signals | enter, switch, stall, reset, restart, change of mode and technologies |
| States (`nci_state*.c`) | the discoveries collected so far | a handler per notification |
| Transitions (`nci_transition*.c`) | the timeout, what has been answered | start, a handler per response, notifications, timeout |
| Command layer (`nci_core.c`) | the response handler with its opcode, the id of the packet, the command timeout, the public `current_state` and `next_state` | send, cancel, timeout, completion, response, restart |
| Discovery configuration (`nci_transition_idle_to_discovery.c`) | settings of the client, what the NFCC was told | GET/SET_CONFIG, routing, map, discover |
| Parsers and copies (`nci_util.c`, `nci_param_*.c`) | none; what they return points into the receive buffer, or is a copy in one block | decoding of notifications, deep copies of discoveries and of activation parameters |
| Parameters (`nci_core.c`, `nci_sm.c`) | `llc_version`, `llc_wks`, `la_nfcid1`, `li_a_hb` and their defaults from the configuration file | set, reset, signals to listeners, restart |
| Logging, reference counts | none that changes | |

The parts interact by direct calls. The client calls `NciCore`, which calls the state
machine; a transition or a state sends a command through the command layer to the SAR,
which hands one segment at a time to the HAL. The HAL calls the SAR back when a write
completes or bytes arrive; the SAR calls the command layer for completions, responses,
notifications, data and errors; those go to the response handler, the active transition
or the current state, which may enter a state, and the signals of that run client code,
all on one stack. Idle sources (start of a write, deferred switch) and timeouts (command,
transition) come from the main loop.

What is hard about it:

* callbacks in the middle of a function: client code may send, cancel, reset or switch
  the state while the function that called it has work left to do;
* commands that are overtaken: a cancelled command whose write has started is still
  written and answered, and its completion or response arrives in a later transition;
* switches requested during a transition, mode changes during a configuration, entries of
  a state nested in the entry of another one;
* credits that run out between two segments, counters that saturate, resizing;
* reads that end anywhere, messages whose segments interleave with others;
* configuration that stays in the NFCC and is compared bit by bit with what is needed;
* notifications that do not own their bytes, and copies of them whose size is computed by
  one function and filled by another;
* parameters that a listener changes again while it is told of their change.

`PROJECT.json` lists these as hazards with the line where each one bites and the
properties that watch it.

## 2. Modules

| Module | Models | State and actions |
|---|---|---|
| `NciSar` | transmit side of `nci_sar.c` | One record `sar`, field by field `struct nci_sar`, and five fields that observe (`live`, `open`, `torn`, `due`, `failed`). Each C function is an operator from state to state; the actions are the entry points (client calls, `StartWrite`, `WriteCompleted`, `WriteFailed`, `HalError`). Client code that runs in a callback is a parameter: it ignores the event, resets, or sends. |
| `NciPacketQueues` | what the client gets of it | `waiting` (a sequence of packets per channel), `sending`, and whether `more` of that packet is to come. No segments, credits or HAL; a packet that cannot be sent fails. `NciSar` is checked to implement it (`RefinesQueues`); the mapping takes the ids of the packets in each queue, the packet in `writing`, and `pos # len`. |
| `NciSarIn` | receive side of `nci_sar.c` | Bytes are pairs (segment, offset), so that the model cannot see more of a byte than the parser does, but the properties can. Each turn of the loop of `nci_sar_hal_client_read` is a step; the NFCC is an environment. |
| `NciSm` | `nci_sm.c`, states, transitions, command layer of `nci_core.c` | One record `sm`: the state machine, the transitions' flags and timers, the command layer, the SAR as a queue of commands, and the commands on their way to the NFCC. Actions: the client's calls, timers, HAL, NFCC. |
| `NciRfStates` | what a client sees | `current`, `goal` and the moves between states. `NciSm` is checked to implement it (`RefinesRfStates`). |
| `NciDiscoverConfig` | the contents of the commands of `idle_to_discovery` | `dh` (settings), `nfcc` (what it was told), `stage`. Flags and technologies are sets, so masks are intersections; bytes are sets of bits. The routing table is what a chain of `AddIf` makes of the empty one. |
| `NciNtf` | parsers and copies of `nci_util.c`, parameters of states, the choice of a target in `nci_state_w4_host_select.c` | The receive buffer as bytes, pointers as (memory, offset, length), copies as blocks with the parts that were written. Actions: a discovery or an activation, whole or cut short; any other packet; the return to DISCOVERY. |
| `NciParams` | parameters of the adapter in `nci_core.c` and `nci_sm.c`, the reset transition that hands them over | `values`, `defaults`, a stack of `calls` with the set of keys that each has yet to announce, what a listener has `seen`, and the reset with its commands and late answers. `sar` is the SAR as a queue of commands, and `cmd_id` of `NciCoreObject`. `SetAll` is the loop over the list of parameters. |
| `NciSarProofs` | theorems about `NciSar`: types, writes | |
| `NciSarFlowProofs` | on top of it: credits | |
| `NciSarPacketProofs` | on top of that: packets and queues without flow control, and that `NciSar` then implements `NciPacketQueues` | |
| `NciSarInProofs` | theorems about `NciSarIn` | |
| `NciSmProofs` | theorems about `NciSm`, and that it implements `NciRfStates` | |
| `NciDiscoverConfigProofs` | theorems about `NciDiscoverConfig` | |
| `NciNtfProofs` | theorems about `NciNtf` | |
| `NciParamsProofs` | theorems about `NciParams` | |
| `MC*` | instances for TLC | |

Definitions whose comment begins with "Mutant" are the plausible bugs against which the
properties are tested: each replaces one definition and violates one property.

The commands of the state machine and the data of the applications share the SAR.
`NciSm` has its own small SAR (a queue of commands, one of them being written), because
what matters there is which command is overtaken by which; that the real SAR behaves like
a queue that is written in order, one write at a time, is what `NciSar` is about.

How the rest fits together: what `NciSarIn` delivers as a notification is what `NciNtf`
takes apart; `NciSm` has the same notifications with only what decides on the next state
(whether they parse, whether the target is a listener, whether there is anything to
select), and `NciNtf` the collection of `W4_ALL_DISCOVERIES` and the choice of
`W4_HOST_SELECT` with only the states that change those. `NciParams` repeats the reset
transition of `NciSm`, because it needs to know what each command carries; and the
identities that it lets through are the ones that `NciDiscoverConfig` starts from. As in
`NciSm`, a response clears `cmd_id` (`nci_core.c:675`), so that a late one, taken for the
answer to a command that still waits in the SAR, leaves that command there: nothing can cancel
it any more (`nci_core.c:150`) and it is written before the next one. A restart empties
the SAR (`nci_sar_reset`), and a write that it cancels has reached the NFCC or has not. Writes
that fail are in `NciSm` only; in `NciParams` they would end in ERROR as a timeout does.

In `NciNtf` a byte is a number and a packet the sequence of its bytes; the NFCC in
that module announces the fields next to the bytes, and the properties compare what was
announced with what can be read through the pointers that are kept. That the announced fields
are what the bytes stand for is an assumption on the constants (`AnnouncementAssumption`),
which TLC evaluates: `PollATable`, `AtsTable` and so on are the tables of the NCI specification
that `nci_util.c` quotes above each parser, written from the side of the sender (how bytes
are put together from fields), where the parsers take them apart.

## 3. Runs

| Run | Configuration | Checks |
|---|---|---|
| `credits` | `MCNciSar_credits` | `TypeOK`, `OneWriteInFlight`, `NoLostWakeup`, `FlowControl` with packets of several segments that are put back when the credits run out; `CommandsGetWritten` while one data packet after the other competes |
| `segments` | `MCNciSar_segments` | `NoTornMessage`, `NoPacketLost` with commands and data of several segments on two connections that are resized, and the refinement `RefinesQueues` |
| `reads` | `MCNciSarIn_reads` | `PacketsAreWhole`, `ParsedAtHeaders`, `NothingStaysBehind` |
| `machine` | `MCNciSm_machine` | `TypeOK`, `ClientIsUpToDate`, `TransitioningMeansTransition`, `TransitionIsTimed`, `CommandIsTimed`, `TransitionFitsState`, `DiscoveryHasDefaultPayload`, `TransitionsEnd`, and the refinement `RefinesRfStates` |
| `discover` | `MCNciDiscoverConfig_discover` | `DiscoveredIsMapped`, `ListenTechsAreRouted`, `AdvertisedIsMapped`, `IdentityFits`, `OtherBitsKept` |
| `copies` | `MCNciNtf_copies` | `CollectedAsAnnounced`, `HandedOverAsAnnounced`, `SelectsBest`, `ClientCopyAsAnnounced`, `CopiesFit` |
| `params` | `MCNciParams_params` | `TypeOK`, `ListenersAreUpToDate`, `NfccHasLlcParams`, `Settles` |
| `queue_ends` | `MCNciSar_queue_ends` | `QueueEndsAgree`, violated, see section 6 |
| `mode`, `host_select` | `MCNciSm_*` | `ConfiguredForMode`, `HostSelectIsLast`, violated, see section 6 |
| `iso_dep`, `table` | `MCNciDiscoverConfig_*` | `IsoDepIsRouted`, `RoutingTableFits`, violated, see section 6 |

### Bounds

Section 4 says which of the properties are proved besides, for any values of the constants;
for those the runs are there to find mistakes early and to test the properties against
mutants.

* `NciSar`: `Unlimited` stands for 0xff and `MinControlLimit` for 0x20. With `Unlimited`
  = 3 a connection can be without credits, with one, at the last count below the limit,
  and unlimited, and sums saturate. Sizes and limits are chosen so that a packet has one,
  two or three segments. Two or three packets at a time are enough for one being written,
  one queued behind it and one sent by a callback. `IdSpace` makes the id counter wrap;
  `NextPacketId` passes over the ids of packets that are alive, which the counter meets
  after 2^32 packets in the program. `MaxPackets` = 3 in `credits` lets a command wait while
  one data packet is written and the client sends the next one, again and again: with
  the queues picked in the other order (`PickDataFirst`) the command waits for ever.
* `StrictCaller`: the client sets initial credits and resizes the connections only while
  no data is queued, as the assertion of `nci_sar_set_initial_credits` says. The
  program does not make sure of it: `nci_core_send_data_msg` takes data in any state and
  nothing empties the queue before the initial credits of an activation are set. Resizing
  with packets queued leaves dangling pointers (`dangling`), after which nothing can be
  promised.
* `NoPacketLost`, `NoTornMessage` and `RefinesQueues` are checked where no unfinished packet is put back:
  in `segments` there are no credits or they have no limit. With packets put back they do
  not hold, which is finding 1. Two packets are enough for the order in a queue and between
  commands and data.
* `NciSarIn`: headers of three bytes, payloads of none or one byte, and reads of any
  length cover every way to cut a header, a payload or the border of two segments. Two
  messages suffice for one being reassembled and another one that intrudes or goes on.
  Messages are symmetric.
* `NciSm`: `machine` has an NFCC with mixed routing, whose refusal leads to the other
  kinds; without routing, listen modes take the steps of poll modes. `MaxOut` = 2 allows
  one command being written and one overtaking it. `MaxWire` = 1 allows one command that
  the NFCC has not answered, whose late response meets a newer command. `Targets` holds
  DISCOVERY, which is reached through IDLE; a change of the mode asks for IDLE. Clients
  that ask for STOP or ERROR, which need no transition, are in the model (`Depart`) but
  not in the instance; the machine comes to an internal state from any other one by
  failures and by restarts. With STOP there are 118,000 states instead of 84,000.
* `NciDiscoverConfig`: a `setup` is chosen at the start. In one, clients change between
  all 32 sets of flags and 16 sets of technologies, for each kind of routing; in the
  other, between the main modes, five NFCID1s and historical bytes, with NFCCs that
  report everything, some parameters or none. All of them at once would multiply what
  does not interact: identities do not enter into routing, nor routing into CORE_SET_CONFIG.
* `NciNtf`: rounds of up to three targets, so that the first one (which goes through two
  copies), one in the middle and the last one differ. Targets are of each technology, with
  parameters of several lengths on both sides of an alignment border, or without
  parameters; each may be the last one. Activations are of each interface with each kind of parameters,
  with all eight combinations of the optional bytes of an ATS. Packets are whole or short of one byte, the boundary of every length
  check. Other packets in the receive buffer are shorter and longer than a notification.
  Structures have the sizes that they have on 64-bit and 32-bit builds.
* `NciParams`: two lists of parameters, one of them with values that are changed (an even
  WKS), refused (an NFCID1 of five bytes) or cut (16 historical bytes), over defaults that
  make some changes no changes. `MaxDepth` = 2 is a call from a signal of another call;
  deeper ones meet the same situation again. `MaxPending` = 3 allows commands of two
  resets, and CORE_RESET_NTF, on their way at once, and only with that many a late answer
  to CORE_SET_CONFIG ends the reset while commands are still queued. The NFCC speaks
  NCI 2, whose reset has the notification in addition; with NCI 1 (`Versions = {1}`) the run
  passes as well, on 890,000 states, and together they take twice the time. One of the two
  configuration files is one that the program does not start with.

No run turns deadlock checking off: a client, the NFCC or the HAL can always act.

### Fairness

`credits` assumes that the main loop runs a pending idle source and that the HAL
completes a write it has accepted; nothing of the client. Of the latter it assumes only the
consequence: again and again no idle source is pending (or the HAL has failed), and no write
is in flight or the SAR goes on to another segment or packet. It follows from `WF_sar(Idle)`
and `WF_sar(Hal)`. `machine` assumes only that, as
long as transition timers are armed, one of them fires. GLib dispatches a ready source as
long as the main loop runs, which is what the library is built upon. Both are what
weak fairness gives, without `ENABLED`: TLC evaluates it far too slowly for these nested
operators. The
timers of transitions are taken together: a transition that never ended would keep its
own timer armed, and no other one is armed then (`TransitionIsTimed`), so for
`TransitionsEnd` this is the same as fairness of each.

`params` uses `WF_vars`: a call that has begun goes on with its next signal and returns
(`Emit`, `Listen`, `Return`: it is a running function), and a timeout that stays armed
fires (`Timeout`). Nothing is assumed of writes, of the NFCC or of its answers.
`TransitionsEnd` and `Settles` except clients that restart, or change parameters, again
and again: every restart arms the timeout anew.

## 4. Proofs

All theorems hold for every value of the constants that satisfies the assumption named in
the module (`SarAssumption`, `SmAssumption` and so on: types, and in `NciNtf` that packets
are sequences of bytes and that the NFCC announces what they say, `AnnouncementAssumption`): any number of connections, packets and messages, any sizes,
limits, lists and tables, and any value of the bounds that keep TLC's state space finite.
Further hypotheses are part of the statement:

| Hypothesis | Of | Why |
|---|---|---|
| `StrictCaller` | `WriteProgress`, `FlowControlled`, and those of `NciSarPacketProofs` | The caller keeps to the asserted preconditions (section 3). `TypeCorrect` and `OneWrite` hold without it. |
| `Grants` is a subset of `{0, Unlimited}` | those of `NciSarPacketProofs` | No flow control. With it an unfinished packet may be put back, and finding 1 violates them. |
| `SizesOfEight` | `BlocksAreFilled` | Two branches of `nci_util_copy_activation_param` do not align (section 6). |

The C functions call one another, and callbacks in the middle of them, so each lemma about
a function is about a state in the middle of a handler. What holds there is less than
what holds between two events; most of the work is to find that predicate.

**`NciSarProofs`.** `TypeCorrect` is inductive as it stands. What could go wrong is a
credit count that leaves `0 .. Unlimited`; it needs that `Pick` and `Continue` only spend
where credits are positive (`ReadyFacts`, `LowestReady`) and that `Sum` saturates.
`OneWrite` and `WriteProgress` have the invariant `TypeOK /\ Steady(sar) /\ Woken(sar)`,
the two properties as predicates of a state. While a callback runs, nothing is being
written and perhaps nothing is scheduled (`Quiet`), so the invariant does not hold
there. The lemmas say what each C function does to the three predicates: `Complete` keeps
`Quiet`, `Error` keeps `Steady` and sets `failed`, `Submit` and `ScheduleWrite` establish
`Woken`, and `AttemptWrite` establishes both for any state in which no write is pending.

**`NciSarFlowProofs`.** `FlowControlled`: no data segment goes out without a credit.
`FlowControl` is about the number of credits that the NFCC has handed out and not got
back, which the program does not see. The invariant adds that every queued packet is
charged to the connection it is queued at (`Owned`), that a connection never has more
credits than are due to it (`Funded`), and, between the choice of a packet and the write,
that the credit of its segment has been taken already (`Prepaid`).

**`NciSarPacketProofs`.** `WholePackets`, and from it `NeverTorn`, `NeverLost` and
`EndsAgree`. The invariant `Whole(s, held)`: every packet in a queue is there once and
not yet begun, and `last` is set exactly if `first` is (`Sorted`); the packets alive are
those in the queues, the one being written, and the finished one whose completion
callback is running, which nothing points to (`Kept`, with `held` for the latter);
credits are none or unlimited (`Level`); and the message open on a channel is the one
being written (`Framed`). On top of it, `SentAsPromised` is the refinement of
`NciPacketQueues`: the invariant says that `last` is right, so that a packet sent joins the
end of its queue (`EnqueueIds`), and that the id of a new packet is none the client knows of
(`SendAccepts`); the lemmas then follow the C functions: a callback makes of the queues what
client code may make of them (`Calls`), `Pick` takes the first packet of a channel that may
go, `Submit` sends it or drops it, so `AttemptWrite` serves a queue (`AttemptServes`) or goes
on with the packet that has begun (`AttemptAdvances`).

**`NciSarInProofs`.** The HAL cuts the bytes where it likes. The trick is to look at what is
being parsed and what has not been read as one sequence, `Stream`: a read does not change it,
and a turn of the loop takes one segment off its front. The first part of the invariant is
about bytes: around each byte of the stream there are all the others of its segment
(`Framed`), so the parser is at a header (`AlwaysAtHeaders`). The second part is about
segments as a set of pieces with a place: the last one collected on each channel, then
those in the stream. `Orderly` says what the NFCC may have sent: the segments of a message in
order, with no gap except where a reset has cut, on one channel, not mixed with other
messages except for intruders, and with a last one for every message that is due.
Together with what has been collected (`Run`: consecutive segments of one message) this
gives `WholeOnArrival` and, when the stream is empty, `NothingLeft`.

**`NciSmProofs`.** `AtRest` is the inductive invariant, `IInv`, under `SmAssumption`
alone. `Running` is what holds anywhere in a handler: types, a HAL write has a command to
write, what the client sees is what is or its signal is pending, no timer but the
one of the active transition. `Resting` is what holds between events: the timers are
exactly those of what is waited for, the active transition is one that the last state has
(`Fits`), without a transition `next` is `last` (`Aimed`), and nothing negotiated is left
(`DefaultPayload`). `Aimed` also says that nothing is queued behind a transition that is
not there, unless the machine is in ERROR: without that, `nci_sm_enter_state_internal`
could start something from a state that does not have it. The six safety properties
follow at once. `Implementation` is the refinement of `NciRfStates`: a lemma for each
function says that the state afterwards `Follows` the one before.

**`NciDiscoverConfigProofs`.** `FollowsSettings`: the stage says which commands have been
taken, and each of them left in the NFCC what the *current* settings ask for, although
settings change at any time: those that matter to a command send the machine back
before it (`Configured`, `Routed`, `MapSent`, `DiscoverSent`). From this follow
`DiscoverableIsMapped`, `AdvertisedInterfaces`, `IdentityIsOurs` and `ListenersAreRouted`
by comparing what the four commands are computed from. `OthersKept` is an action property of
every step: the bits of a parameter outside its mask stay as they were reported, and those
of a parameter that was not reported (of all, if CORE_GET_CONFIG failed) are cleared,
because the program sets the whole byte without knowing them.
`TableAlmostFits` is what is true instead of `RoutingTableFits`, which finding 4 refutes:
the table is too long by one entry at most.

**`NciNtfProofs`.** `RoundIsCollected`: the copies in `discoveries` belong to the targets of
this round, in order, and each block is as large as what is in it. `BestIsSelected`: the
head of the list that `nci_state_w4_host_select_entered` makes by insertion is the best of
the targets seen so far (`Best`). `BlocksAreFilled`: nothing is written beyond a block nor
two parts over one another. The copies are two loops over the same array, one which
adds up sizes and one which moves a pointer; the proof shows that after each turn the pointer
is where the sum of the first loop is, and the parts written so far lie before it, apart
(`Placed`), for any packet and any parameters that the parsers can return (their
shape, `IsParam`, is proved for every parser).

`CollectedFaithfully`, `HandedOverFaithfully` and `ClientCopyIsFaithful` are about what is
in the copies. First the parsers: a parameter may be anywhere in a packet (`Holds`), its
bytes are put together from pieces as its table says (`Two` to `Five`), so each byte that a
parser looks at is found in one of the pieces; this gives a lemma for every technology and
interface (`PollAReads`, `AtsReads`, ...) and for the two notifications as a whole
(`DiscoverNtfSays`, `IntfActivatedNtfSays`); what is cut short does not parse. Then
the copies: as the parts of a block are apart, a pointer to a part leads to just the
bytes written there (`ReadPart`), so a copy says what its source says, in any memory
(`NtfCopyReads`, `Says`). The quantifier over the contents of the receive buffer in `Says` is
what makes the invariant `Faithful` inductive: the next packet may be anything. It also
serves the copy of the first target, whose source is a copy itself. `ModesWithData` and
the mutant `ModeParamCopyShallow` show what is at stake: a mode whose parameter has data
must be one that `nci_mode_param_copy_impl` copies them for (`FitsMode`, proved of what the
parsers return), or a copy would point into the buffer.

**`NciParamsProofs`.** `TypeCorrect`: values are such that an NFCC can be given them, if the
program starts with its configuration file (`Starts`, a condition of `Init`).
`ListenersAreTold`: a parameter that a listener does not know is among the keys that one of
the calls under way has yet to announce (`Told`), for any depth of calls.
`NfccIsGivenLlcParams`: the last CORE_SET_CONFIG_CMD that is queued or on its way, or else the
last one that the NFCC got, carries the current LLCP parameters, whenever the reset waits for its
answer or is over (`Given`, `Informed`); answers that are late or belong to another command
do not matter, nor do the commands that they leave in the queue. `Cancelled` takes the last
command off the queue only while `cmd_id` names it, which is what has to be kept apart: lemmas
such as `CancelledOK` and `WriteTyped` say what each function leaves of the queue.

Loops are functions on `0 .. n`, and what they compute is proved for every length by the
least counterexample: the set of the lengths for which it is wrong has no smallest
element (`NatLessThanWellFounded`, `WFMin`), hence it is empty. There are no recursive
operators in these modules.

Only model-checked:

* liveness (`CommandsGetWritten`, `TransitionsEnd`, `Settles`): fairness and `ENABLED` are
  out of the prover's reach;
* what is violated, of course (section 6).

## 5. What is not modelled

* Malformed parameters beyond what `NciNtf` has: the parsers get packets that are
  well-formed or short of their last byte, and no inner length that contradicts the
  outer one. `nci_parse_rf_deactivate_ntf` is two enumerations, which `NciSm` takes
  as they are; of the parsers of CORE_GET_CONFIG_RSP there is what `NciDiscoverConfig`
  uses of them.
* A RF_DISCOVER_SELECT that the NFCC rejects: the code logs it and waits, and neither the
  code nor its documentation says what should come of it. The same goes for a round of
  discoveries whose last notification is broken.
* Of the configuration file, the list of technologies (what it may say is in the sets that
  `NciDiscoverConfig` takes its first settings from). With historical bytes written with 16 to
  28 digits the length that `nci_sm.c:537` clears with wraps around to nearly 2^64;
  `NciParams` has it that the program does not get past that (`Starts`).
* Logging, reference counts, finalisation, registration of signal handlers. The objects are
  created before the first step and live until the end.
* In `NciSm`, client code reacts to the signals after which the same handler goes on
  (activation, command timeout, failed write, and the nested entry of `W4_HOST_SELECT`
  inside `W4_ALL_DISCOVERIES`). Signals emitted at the end of a handler are followed by
  the client's own actions, which is the same thing. The state that a client sees in the
  middle of nested entries is not seen by the refinement, which looks at whole events.
* In `NciDiscoverConfig` the settings change only in IDLE and DISCOVERY; changes in the
  middle of the transition are the run `mode` of `NciSm`.
* A HAL that loses part of a segment.
* What freed memory holds: connections that are resized while data is queued.

## 6. Findings

1. `queue_ends`: an unfinished packet is put back without setting `queue->last`; the
   next packet sent on the connection replaces it (`nci_sar.c:247`, `:399`).
2. `mode`: a mode change during the configuration queues the way back to IDLE, and a
   request for DISCOVERY drops it again; the NFCC stays configured from two modes
   (`nci_sm.c:862`).
3. `host_select`: if the first discovery is the last one, `last_state` ends up at
   W4_ALL_DISCOVERIES with W4_HOST_SELECT active (`nci_state_w4_all_discoveries.c:80`).
4. `table`: the size of the routing table is compared before the entry is added
   (`nci_transition_idle_to_discovery.c:557`).
5. `iso_dep`: `&` for `&&` between two masks (`nci_transition_idle_to_discovery.c:596`).

Met while modelling, without a run of their own: a packet with segments on the wire that
waits for credits is freed by `nci_sar_cancel` (`nci_sar.c:972`); data may be queued when
the initial credits are set (`nci_sar.c:902`); switching to the destination of the active
transition leaves `next_state` at the abandoned goal (`nci_sm.c:621`); the flow chart at
the top of `nci_transition_idle_to_discovery.c` skips CORE_SET_CONFIG after a failed
CORE_GET_CONFIG, while the code then sets everything. In `NciParams`: the late answer to an
earlier CORE_SET_CONFIG may end the reset before the current one has been written
(`nci_core.c:667` compares opcodes only); it is written all the same, so
that the NFCC gets the parameters, but the machine is in IDLE before it has. In
`nci_util_copy_activation_param` the NFC-DEP branches do not align the size of the structure
before they add to it (`nci_util.c:1448`, `:1464`), as the others do; the copies fit because
that size is a multiple of eight on the builds of `copies`. This is the hypothesis
`SizesOfEight` of `BlocksAreFilled`: the proof fails at these two branches without it.

## 7. Plan

Done: the models, in the order `NciSar`, `NciSarIn`, `NciSm` with `NciRfStates`,
`NciDiscoverConfig`, client reactions inside nested entries, `NciNtf`, `NciParams` and
`NciPacketQueues`; and the proofs of every safety invariant and action property that a
passing run checks, and of the refinements of `NciRfStates` and `NciPacketQueues`. What is
left is a composition of the command layer of `NciSm` with `NciSar` in place of its queue.
