------------------------------ MODULE Packets -------------------------------
(***************************************************************************)
(* The packets of a transfer and the file it moves.  A byte of the file is *)
(* represented by its position 1 .. FileLen, so that a packet shows which  *)
(* bytes it carries.  Of the OACK, RRQ and ERROR packets only the kind     *)
(* matters.                                                                *)
(***************************************************************************)
EXTENDS BlockNumbers, Sequences

CONSTANTS
  BlockSize,   \* bytes of data in a full block
  FileLen      \* length of the file that is transferred

ASSUME PacketAssumption == BlockSize \in Nat \ {0} /\ FileLen \in Nat

Packet(op, n, bytes) == [op |-> op, block |-> n, data |-> bytes]
Oack == Packet("OACK", 0, <<>>)
Error == Packet("ERROR", 0, <<>>)
Ack(n) == Packet("ACK", n, <<>>)

Least(a, b) == IF a <= b THEN a ELSE b

\* The first n bytes of the file.
FilePrefix(n) == [i \in 1 .. n |-> i]

\* The data of the k-th block of the file, k = 1, 2, ...
FileBlock(k) == [i \in 1 .. Least(BlockSize, FileLen - (k - 1) * BlockSize)
                   |-> (k - 1) * BlockSize + i]
LastBlock == FileLen \div BlockSize + 1
=============================================================================
