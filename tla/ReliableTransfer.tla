-------------------------- MODULE ReliableTransfer --------------------------
(***************************************************************************)
(* What a transfer promises, whoever sends and whatever the network does:  *)
(* the receiver stores the file block by block and nothing else, the       *)
(* sender takes a block for delivered only after the receiver stored it    *)
(* and never takes that back, and either side reports success only when    *)
(* the receiver has the whole file.  Either side may give up.              *)
(***************************************************************************)
EXTENDS Integers, Sequences

CONSTANT BlockSize

VARIABLES
  file,         \* what is to be transferred
  stored,       \* what the receiver has stored
  received,     \* blocks the receiver has accepted
  confirmed,    \* blocks the sender takes for delivered
  sender, receiver   \* "running", "ok" or "failed"

transferVars == <<file, stored, received, confirmed, sender, receiver>>

Blocks == Len(file) \div BlockSize + 1

\* The first k blocks of the file.
UpTo(k) == SubSeq(file, 1, IF k * BlockSize <= Len(file) THEN k * BlockSize ELSE Len(file))

Init ==
  /\ stored = <<>> /\ received = 0 /\ confirmed = 0
  /\ sender = "running" /\ receiver = "running"

\* The next block arrives; after the last one the receiver is done.
Receive ==
  /\ receiver = "running" /\ received < Blocks
  /\ received' = received + 1
  /\ stored' = UpTo(received')
  /\ receiver' \in IF received' = Blocks THEN {"ok", "failed"} ELSE {"running"}
  /\ UNCHANGED <<file, confirmed, sender>>

\* A receiver that gives up may have stored part of a block.
ReceiverFails ==
  /\ receiver = "running"
  /\ receiver' = "failed"
  /\ \E n \in Len(stored) .. Len(UpTo(received + 1)) : stored' = SubSeq(file, 1, n)
  /\ UNCHANGED <<file, received, confirmed, sender>>

Confirm ==
  /\ sender = "running"
  /\ confirmed' \in confirmed .. received
  /\ sender' \in {"running"} \cup (IF confirmed' = Blocks THEN {"ok"} ELSE {})
  /\ UNCHANGED <<file, stored, received, receiver>>

SenderFails ==
  /\ sender = "running"
  /\ sender' = "failed"
  /\ UNCHANGED <<file, stored, received, confirmed, receiver>>

Next == Receive \/ ReceiverFails \/ Confirm \/ SenderFails

Spec == Init /\ [][Next]_transferVars
=============================================================================
