------------------------------ MODULE Network -------------------------------
(***************************************************************************)
(* UDP as both programs use it: a channel is the sequence of the packets   *)
(* under way in one direction.                                             *)
(***************************************************************************)
EXTENDS Packets, SequencesExt

CONSTANTS
  ChanCap,      \* packets each direction of the network holds; more are lost
  Reorder,      \* TRUE: packets may overtake each other
  Duplicate     \* TRUE: a packet that is delivered may be delivered again

ASSUME NetworkAssumption ==
  ChanCap \in Nat /\ Reorder \in BOOLEAN /\ Duplicate \in BOOLEAN

Transmit(channel, pkts) ==
  LET all == channel \o pkts IN SubSeq(all, 1, Least(Len(all), ChanCap))

\* Which packet of a channel arrives next.
Arriving(channel) == IF Reorder THEN 1 .. Len(channel)
                     ELSE 1 .. Least(1, Len(channel))

\* What is left in a channel after its i-th packet was delivered.
Remaining(channel, i) ==
  { RemoveAt(channel, i) } \cup (IF Duplicate THEN { channel } ELSE {})

\* What is left after some packet was lost.
Losing(channel) == { RemoveAt(channel, i) : i \in 1 .. Len(channel) }
=============================================================================
