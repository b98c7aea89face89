----------------------------- MODULE ByteChannel -----------------------------
(***************************************************************************)
(* What the receive side of a USART promises to its guest, whatever its    *)
(* registers and buffers: bytes are delivered in the order in which they   *)
(* arrived, each at most once.  A byte goes missing only in a step taken   *)
(* while the receiver is off (one byte at most per step), or as the oldest *)
(* one in a step that changes the configuration.  Bytes are numbered by    *)
(* their arrival.                                                          *)
(***************************************************************************)
EXTENDS Naturals

VARIABLES
  arrived,   \* number of bytes that arrived
  waiting,   \* the bytes that are still to be delivered
  last,      \* the byte delivered last, 0 if there was none
  on         \* the receiver is on

channelVars == <<arrived, waiting, last, on>>

Oldest(S) == {b \in S : \A c \in S : b <= c}

\* Of the bytes `after', all stay; one may be lost while the receiver is off.
Keeps(after) ==
  \/ waiting' = after
  \/ ~on /\ \E b \in after : waiting' = after \ {b}

ChannelInit == arrived = 0 /\ waiting = {} /\ last = 0 /\ on = FALSE

Arrive ==
  /\ arrived' \in Nat /\ arrived' > arrived
  /\ Keeps(waiting \cup (arrived + 1 .. arrived'))
  /\ UNCHANGED <<last, on>>

Deliver ==
  /\ Oldest(waiting) = {last'}
  /\ Keeps(waiting \ {last'})
  /\ UNCHANGED <<arrived, on>>

\* The guest reconfigures, clears the flag of the oldest byte, or resets.
Control ==
  /\ on' \in BOOLEAN
  /\ waiting' \in {waiting, waiting \ Oldest(waiting)}
  /\ UNCHANGED <<arrived, last>>

ChannelNext == Arrive \/ Deliver \/ Control

ChannelSpec == ChannelInit /\ [][ChannelNext]_channelVars

\* Deliveries are in the order of arrival and without repetition: every byte
\* still waiting is newer than the one delivered last.
ChannelInOrder ==
  /\ arrived \in Nat /\ last \in 0 .. arrived
  /\ waiting \subseteq last + 1 .. arrived
=============================================================================
