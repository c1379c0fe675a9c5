-------------------------- MODULE NciPacketQueues --------------------------
(***************************************************************************)
(* What the transmit side of the SAR promises its client: a queue of       *)
(* packets per channel, from which one packet at a time is sent whole, in  *)
(* the order in which the packets were given, and commands before data.    *)
(* Segments, credits and the HAL are not visible here. NciSar implements   *)
(* this module while every connection has unlimited credits or none.       *)
(***************************************************************************)
EXTENDS Integers, Sequences

CONSTANTS
    Channels,        \* the commands, and the logical connections
    CommandChannel,  \* the channel of the commands
    Ids,             \* the ids of packets
    None             \* no packet

VARIABLES
    waiting,  \* per channel, the packets that wait, the first one first
    sending,  \* the packet that is being sent, or None
    more      \* segments of it are yet to be written

vars == <<waiting, sending, more>>

Nothing == [ch \in Channels |-> << >>]

Members(w) == UNION {{w[ch][i] : i \in DOMAIN w[ch]} : ch \in Channels}

Init == waiting = Nothing /\ sending = None /\ more = FALSE

-----------------------------------------------------------------------------
\* The queues w and one more packet, of which nothing is known yet
Accepting(w, known) ==
    {[w EXCEPT ![ch] = Append(@, id)] : ch \in Channels,
                                        id \in Ids \ (Members(w) \cup known)}

\* What client code makes of the queues w in a callback: it ignores the event,
\* resets or sends a packet. The packet that was sent is still there.
CalledBack(w) == {w, Nothing} \cup Accepting(w, {sending})

\* Nothing is being sent.
Rest(w) == waiting' = w /\ sending' = None /\ more' = FALSE

\* Data waits for the commands.
MayGo(w, ch) ==
    w[ch] # << >> /\ (ch # CommandChannel => w[CommandChannel] = << >>)

\* The first packet of a channel is sent. The HAL may refuse it at once, and
\* the client may then reset everything.
Serve(w) ==
    \/ w[CommandChannel] = << >> /\ Rest(w)
    \/ \E ch \in Channels :
          LET left == [w EXCEPT ![ch] = Tail(@)]
          IN  /\ MayGo(w, ch)
              /\ \/ waiting' = left /\ sending' = Head(w[ch]) /\ more' \in BOOLEAN
                 \/ Rest(left)
                 \/ Rest(Nothing)

-----------------------------------------------------------------------------
Accept ==
    /\ waiting' \in Accepting(waiting, {sending})
    /\ UNCHANGED <<sending, more>>

\* A packet that waits is withdrawn; one that is being sent is sent.
Cancel ==
    /\ \E ch \in Channels : \E i \in DOMAIN waiting[ch] :
          waiting' = [waiting EXCEPT ![ch] =
              [j \in 1 .. Len(@) - 1 |-> IF j < i THEN @[j] ELSE @[j + 1]]]
    /\ UNCHANGED <<sending, more>>

Reset == \E w \in {Nothing} \cup Accepting(Nothing, {}) : Rest(w)

Begin == sending = None /\ Serve(waiting)

Advance == sending # None /\ more /\ more' \in BOOLEAN /\ UNCHANGED <<waiting, sending>>

\* The packet has been sent, and the next one follows.
Finish == sending # None /\ ~more /\ \E w \in CalledBack(waiting) : Serve(w)

\* The packet could not be sent, or not all of it.
Fail == sending # None /\ \E w \in CalledBack(waiting) : Rest(w)

Next == Accept \/ Cancel \/ Reset \/ Begin \/ Advance \/ Finish \/ Fail

Spec == Init /\ [][Next]_vars
=============================================================================
