-------------------------- MODULE PutTransferProofs -------------------------
(***************************************************************************)
(* A put is safe, for every file, number of block numbers, retry limit and *)
(* network: whatever the network loses, delivers twice or, while the       *)
(* numbers do not wrap, reorders, the server's file is a prefix of the     *)
(* client's, and a client that reports success has stored all of it.  The  *)
(* exchange implements ReliableTransfer.                                   *)
(*                                                                         *)
(* What either side knows of itself holds for every network (SidesInv).    *)
(* What it may conclude about the other rests on what may be under way:    *)
(* blocks not older than the last one stored, and ACKs not older than the  *)
(* last one taken (PutInv).                                                *)
(***************************************************************************)
EXTENDS PutTransfer, SessionTransferProofs

-----------------------------------------------------------------------------
(* The assumptions, and the invariants. *)

\* Packets stay in order, or the file ends before the block numbers wrap.
InSequence == ~Reorder \/ \A len \in PutLens : len \div BlockSize + 1 < BlockMod

\* No last block has the greatest block number: see LastNumberIsMaximal.
LastNumbersFit ==
  \A len \in PutLens : (len \div BlockSize + 1) % BlockMod # BlockMod - 1

\* Packets of the two directions.
BlockPacket == [op : {"DATA"}, block : Block, data : Seq(Nat)]
Replies == {Oack, Error}
ReplyPacket == Replies \cup { Ack(n) : n \in Block }

PutTypes ==
  /\ p_options \in PutOptions /\ p_use \in BOOLEAN /\ p_len \in PutLens
  /\ p_status \in {"requesting", "sending", "success", "failed", "crashed", "hung"}
  /\ p_begin \in Block /\ p_eof \in BOOLEAN
  /\ p_packet \in [1 .. BlockSize -> Nat]
  /\ p_blocks \in 0 .. PutBlocks
  /\ p_retransmissions \in 0 .. PutRetries + 1
  /\ p_unsupported \in BOOLEAN

\* What has been read is p_blocks blocks, the last of which is in the buffer; the file is
\* at its end after the last.
PutReads ==
  /\ p_next = (p_blocks + 1) % BlockMod
  /\ p_eof <=> p_blocks = PutBlocks
  /\ p_last_size = IF p_blocks = 0 THEN 0 ELSE Len(PutBlock(p_blocks))
  /\ p_blocks > 0 => SubSeq(p_packet, 1, p_last_size) = PutBlock(p_blocks)

\* A client that sends waits for the ACK of one block, which it can resend; after the
\* last one there is no other.
PutWaits ==
  /\ p_status = "requesting" => p_blocks = 0 /\ p_begin = 1
  /\ ~LastNumberIsMaximal =>
       /\ p_status # "hung"
       /\ p_status = "sending" => p_blocks > 0 /\ p_begin = p_blocks % BlockMod
       /\ p_status = "success" => p_blocks = PutBlocks /\ p_begin = p_next
       /\ p_status \in {"failed", "crashed"} =>
            \/ p_blocks = 0 /\ p_begin = p_next
            \/ p_blocks > 0 /\ p_begin = p_blocks % BlockMod

PutClientInv == PutTypes /\ PutReads /\ PutWaits

NetworkTypes ==
  /\ s2c \in Seq(ReplyPacket) /\ Len(s2c) <= ChanCap
  /\ c2s \in Seq(BlockPacket) /\ Len(c2s) <= ChanCap
  /\ wrqs \in 0 .. Reopens

SidesInv ==
  /\ request.type = "write" /\ request.mode # "invalid"
  /\ SessionInv /\ PutClientInv /\ NetworkTypes

\* Packet number n of either direction.
AckNumber == [n \in Nat |-> Ack(n % BlockMod)]
DataNumber == [n \in Nat |-> Packet("DATA", n % BlockMod, PutBlock(n))]

\* What is under way is numbered from lo to hi, and in order if the network keeps it;
\* numbers below lo occur only if it does not.
Oldest(lo) == IF Reorder THEN 0 ELSE lo
InOrderFrom(channel, packet, lo, hi) ==
  \A i, j \in 1 .. Len(channel), m, n \in lo .. hi :
    i < j /\ channel[i] = packet[m] /\ channel[j] = packet[n] => m <= n
NumberedPackets(packet, others, lo, hi) == others \cup { packet[n] : n \in Oldest(lo) .. hi }
UnderWay(channel, packet, others, lo, hi) ==
  /\ channel \in Seq(NumberedPackets(packet, others, lo, hi))
  /\ ~Reorder => InOrderFrom(channel, packet, lo, hi)

\* The client waits for the session's ACK and never the other way round.
OneBlockAhead == AckedByClient <= blocks /\ blocks <= p_blocks

\* What the session has stored are the blocks it accepted.
StoredBytes == Least(blocks * BlockSize, p_len)
PutStores ==
  /\ written = FilePrefix(StoredBytes)
  /\ expected_sequence_number = (blocks + 1) % BlockMod
  /\ OptionsPending => blocks = 0
  /\ blocks > 0 => fd = "file"
  /\ fd = "zero" /\ status = "idle" => should_close
  /\ status = "new" => blocks = 0 /\ ~error_occurred
  /\ status = "idle" /\ error_occurred /\ ~should_close => fd = "none"
  /\ status = "idle" /\ blocks = PutBlocks => should_close

DiskInv == ~clobbered => disk = written

PutInv ==
  /\ OneBlockAhead /\ PutStores /\ DiskInv
  /\ UnderWay(s2c, AckNumber, Replies, AckedByClient, blocks)
  /\ UnderWay(c2s, DataNumber, {}, blocks, p_blocks)

-----------------------------------------------------------------------------
(* The file, in blocks. *)

\* The blocks before the last one are full and the last is not.
LEMMA LastIsShort ==
  ASSUME NEW len \in Nat, NEW a \in 0 .. len \div BlockSize
  PROVE  /\ a * BlockSize \in 0 .. len
         /\ (a + 1) * BlockSize = a * BlockSize + BlockSize
         /\ len - a * BlockSize < BlockSize <=> a = len \div BlockSize
  <1>1. PICK q \in Nat, r \in 0 .. BlockSize - 1 :
          q = len \div BlockSize /\ len = BlockSize * q + r
    BY PacketAssumption, DivMod
  <1> DEFINE c == a * BlockSize
             d == q * BlockSize
  <1>2. c \in Nat /\ d \in Nat /\ len = d + r /\ BlockSize \in Nat \ {0}
    BY <1>1, PacketAssumption
  <1>3. (a + 1) * BlockSize = c + BlockSize
    BY PacketAssumption
  <1>4. a <= q - 1 => c + BlockSize <= d
    BY <1>1, PacketAssumption
  <1>5. a = q => c = d
    OBVIOUS
  <1> HIDE DEF c, d
  <1>6. a \in Nat /\ a <= q /\ q \in Nat /\ r \in 0 .. BlockSize - 1
    BY <1>1
  <1>7. c \in 0 .. len
    BY <1>2, <1>4, <1>5, <1>6
  <1>8. len - c < BlockSize <=> a = q
    BY <1>2, <1>4, <1>5, <1>6
  <1> QED BY <1>1, <1>3, <1>7, <1>8 DEF c

\* There is a last block.
LEMMA PutBlocksTyped ==
  ASSUME p_len \in Nat
  PROVE  p_len \div BlockSize \in Nat /\ PutBlocks \in Nat \ {0}
         /\ PutBlocks = p_len \div BlockSize + 1
  <1>1. p_len \div BlockSize \in Nat
    BY PacketAssumption, DivMod
  <1> QED BY <1>1 DEF PutBlocks

\* The bytes of a block.
LEMMA PutBlockBytes ==
  ASSUME p_len \in Nat, NEW k \in 1 .. PutBlocks
  PROVE  /\ k \in Nat /\ (k - 1) * BlockSize \in 0 .. p_len
         /\ k * BlockSize = (k - 1) * BlockSize + BlockSize
         /\ PutBlock(k) \in Seq(Nat) /\ Len(PutBlock(k)) \in 0 .. BlockSize
         /\ Len(PutBlock(k)) = Least(BlockSize, p_len - (k - 1) * BlockSize)
         /\ \A i \in 1 .. Len(PutBlock(k)) : PutBlock(k)[i] = (k - 1) * BlockSize + i
         /\ Len(PutBlock(k)) < BlockSize <=> k = PutBlocks
  <1>1. k \in Nat /\ k - 1 \in 0 .. p_len \div BlockSize /\ (k - 1) + 1 = k
    BY PutBlocksTyped
  <1> DEFINE a == k - 1
             b == a * BlockSize
             len == Least(BlockSize, p_len - b)
  <1>2. /\ b \in 0 .. p_len /\ k * BlockSize = b + BlockSize
        /\ p_len - b < BlockSize <=> a = p_len \div BlockSize
    BY <1>1, LastIsShort
  <1>3. a = p_len \div BlockSize <=> k = PutBlocks
    BY <1>1, PutBlocksTyped
  <1> HIDE DEF a
  <1> HIDE DEF b
  <1>4. len \in 0 .. BlockSize /\ (len < BlockSize <=> k = PutBlocks)
    BY <1>2, <1>3, PacketAssumption DEF Least
  <1>5. PutBlock(k) = [i \in 1 .. len |-> b + i]
    BY DEF PutBlock, a, b
  <1> HIDE DEF len
  <1>6. PutBlock(k) \in Seq(Nat) /\ Len(PutBlock(k)) = len
        /\ \A i \in 1 .. len : PutBlock(k)[i] = b + i
    BY <1>2, <1>4, <1>5
  <1> QED BY <1>1, <1>2, <1>4, <1>6 DEF a, b, len

\* The part of the buffer that a block was read into is the block.
LEMMA BufferHolds ==
  ASSUME NEW d \in Seq(Nat), Len(d) \in 0 .. BlockSize, NEW old \in [1 .. BlockSize -> Nat],
         NEW new, new = [i \in 1 .. BlockSize |-> IF i <= Len(d) THEN d[i] ELSE old[i]]
  PROVE  new \in [1 .. BlockSize -> Nat] /\ SubSeq(new, 1, Len(d)) = d
  <1>1. BlockSize \in Nat
    BY PacketAssumption
  <1>2. new \in [1 .. BlockSize -> Nat]
    BY <1>1
  <1>3. new \in Seq(Nat) /\ Len(new) = BlockSize
    BY <1>1, <1>2
  <1> DEFINE s == SubSeq(new, 1, Len(d))
  <1>4. s \in Seq(Nat) /\ Len(s) = Len(d) /\ \A i \in 1 .. Len(d) : s[i] = new[i]
    BY <1>1, <1>3
  <1> HIDE DEF s
  <1>5. ASSUME NEW i \in 1 .. Len(d) PROVE s[i] = d[i]
    <2>1. i \in 1 .. BlockSize /\ i <= Len(d)
      BY <1>1
    <2>2. new[i] = d[i]
      BY <2>1
    <2> QED BY <1>4, <2>2
  <1>6. s = d
    BY <1>4, <1>5, SeqEqual
  <1> QED BY <1>2, <1>6 DEF s

\* A part of the buffer is data.
LEMMA BufferPart ==
  ASSUME NEW buffer \in [1 .. BlockSize -> Nat], NEW n \in 0 .. BlockSize
  PROVE  SubSeq(buffer, 1, n) \in Seq(Nat)
  <1>1. BlockSize \in Nat
    BY PacketAssumption
  <1>2. buffer \in Seq(Nat) /\ Len(buffer) = BlockSize
    BY <1>1
  <1> QED BY <1>1, <1>2

-----------------------------------------------------------------------------
(* The client. *)

\* The number of block k and its neighbours.
LEMMA PutNumbers ==
  ASSUME NEW k \in Nat
  PROVE  /\ k % BlockMod \in Block /\ (k + 1) % BlockMod \in Block
         /\ Succ(k % BlockMod) = (k + 1) % BlockMod
         /\ Pred((k + 1) % BlockMod) = k % BlockMod
         /\ Dist(k % BlockMod, (k + 1) % BlockMod) = 1
         /\ k % BlockMod # BlockMod - 1 => (k + 1) % BlockMod = (k % BlockMod) + 1
  <1>1. k % BlockMod \in Block /\ Succ(k % BlockMod) = (k + 1) % BlockMod
    BY NextNumber
  <1> DEFINE x == k % BlockMod
             y == (k + 1) % BlockMod
  <1>2. x \in Block /\ y = Succ(x)
    BY <1>1
  <1> HIDE DEF x, y
  <1>3. /\ y \in Block /\ Pred(y) = x /\ Dist(x, y) = 1
        /\ x # BlockMod - 1 => y = x + 1
    BY <1>2, BlockModAssumption DEF Block, Succ, Pred, Plus, Minus, Dist
  <1> QED BY <1>1, <1>3 DEF x, y

\* The first block number is one.
LEMMA FirstNumbers == 0 % BlockMod = 0 /\ (0 + 1) % BlockMod = 1
  BY BlockModAssumption

\* What the client may know of its own numbers.
LEMMA PutTyped ==
  ASSUME PutClientInv
  PROVE  /\ p_len \in Nat /\ p_blocks \in Nat /\ p_blocks <= PutBlocks
         /\ PutBlocks \in Nat \ {0}
         /\ p_next = (p_blocks + 1) % BlockMod /\ p_next \in Block
         /\ p_last_size \in 0 .. BlockSize
  <1>1. p_len \in Nat
    BY PutAssumption DEF PutClientInv, PutTypes
  <1>2. PutBlocks \in Nat \ {0}
    BY <1>1, PutBlocksTyped
  <1>3. p_blocks \in 0 .. PutBlocks
    BY DEF PutClientInv, PutTypes
  <1>4. p_blocks \in Nat /\ p_blocks <= PutBlocks
    BY <1>2, <1>3
  <1>5. p_next = (p_blocks + 1) % BlockMod /\ p_next \in Block
    BY <1>4, PutNumbers DEF PutClientInv, PutReads
  <1>6. p_last_size \in 0 .. BlockSize
    <2>1. CASE p_blocks = 0
      BY <2>1, PacketAssumption DEF PutClientInv, PutReads
    <2>2. CASE p_blocks # 0
      <3>1. p_blocks \in 1 .. PutBlocks
        BY <1>2, <1>4, <2>2
      <3>2. p_last_size = Len(PutBlock(p_blocks))
        BY <2>2 DEF PutClientInv, PutReads
      <3> QED BY <1>1, <3>1, <3>2, PutBlockBytes
    <2> QED BY <2>1, <2>2
  <1> QED BY <1>1, <1>2, <1>4, <1>5, <1>6

\* The client reads the next block and sends it, or nothing.
ReadsNext ==
  /\ p_blocks < PutBlocks /\ p_blocks' = p_blocks + 1
  /\ p_sent' = <<Packet("DATA", p_blocks' % BlockMod, PutBlock(p_blocks'))>>
ReadsNothing ==
  UNCHANGED <<p_packet, p_eof, p_last_size, p_next, p_blocks>> /\ p_sent' = <<>>

\* The sending phase of the loop.
LEMMA FillsWindow ==
  ASSUME PutClientInv, NEW begin, FillWindow(begin), p_len' = p_len
  PROVE  /\ p_eof' \in BOOLEAN /\ p_packet' \in [1 .. BlockSize -> Nat]
         /\ p_blocks' \in 0 .. PutBlocks /\ PutReads'
         /\ ReadsNext \/ ReadsNothing
         /\ begin = p_next => (ReadsNext <=> ~p_eof)
  <1>1. PutBlocks' = PutBlocks /\ \A k : PutBlock(k)' = PutBlock(k)
    BY DEF PutBlocks, PutBlock
  <1>2. /\ p_len \in Nat /\ p_blocks \in Nat /\ p_blocks <= PutBlocks
        /\ PutBlocks \in Nat \ {0}
        /\ p_next = (p_blocks + 1) % BlockMod /\ p_next \in Block
    BY PutTyped
  <1>3. /\ p_eof \in BOOLEAN /\ (p_eof <=> p_blocks = PutBlocks)
        /\ p_packet \in [1 .. BlockSize -> Nat]
    BY DEF PutClientInv, PutTypes, PutReads
  <1> DEFINE room == ~p_eof /\ is_in_range(p_next, begin, begin)
             k == p_blocks + 1
             d == PutBlock(k)
  <1>4. CASE room
    <2>1. /\ p_packet' = [i \in 1 .. BlockSize |-> IF i <= Len(d) THEN d[i] ELSE p_packet[i]]
          /\ p_eof' = (Len(d) < BlockSize) /\ p_last_size' = Len(d)
          /\ p_next' = Succ(p_next) /\ p_blocks' = k
          /\ p_sent' = <<Packet("DATA", p_next, d)>>
      BY <1>4 DEF FillWindow
    <2>2. k \in 1 .. PutBlocks /\ k \in Nat /\ p_blocks < PutBlocks
      BY <1>2, <1>3, <1>4
    <2>3. d \in Seq(Nat) /\ Len(d) \in 0 .. BlockSize /\ (Len(d) < BlockSize <=> k = PutBlocks)
      BY <1>2, <2>2, PutBlockBytes
    <2>4. Succ(p_next) = (k + 1) % BlockMod
      BY <1>2, <2>2, PutNumbers
    <2>5. PutBlock(p_blocks') = d
      BY <2>1
    <2>6. PutBlock(p_blocks)' = d
      BY <1>1, <2>1 DEF PutBlock
    <2> HIDE DEF d
    <2>7. p_packet' \in [1 .. BlockSize -> Nat] /\ SubSeq(p_packet', 1, Len(d)) = d
      BY <1>3, <2>1, <2>3, BufferHolds
    <2>8. ReadsNext
      BY <1>2, <2>1, <2>2, <2>5 DEF ReadsNext
    <2>9. PutReads'
      <3>1. p_next' = (p_blocks' + 1) % BlockMod /\ p_blocks' # 0
        BY <1>2, <2>1, <2>4
      <3>2. p_eof' <=> p_blocks' = PutBlocks'
        BY <1>1, <2>1, <2>3
      <3> QED BY <2>1, <2>6, <2>7, <3>1, <3>2 DEF PutReads
    <2>10. p_eof' \in BOOLEAN /\ p_blocks' \in 0 .. PutBlocks
      BY <2>1, <2>2
    <2>11. ~p_eof
      BY <1>4
    <2> QED BY <2>7, <2>8, <2>9, <2>10, <2>11
  <1>5. CASE ~room
    <2>1. ReadsNothing
      BY <1>5 DEF FillWindow, ReadsNothing
    <2>2. PutReads'
      <3>1. PutReads /\ UNCHANGED <<p_packet, p_eof, p_last_size, p_next, p_blocks>>
        BY <2>1 DEF ReadsNothing, PutClientInv
      <3>2. PutBlock(p_blocks)' = PutBlock(p_blocks)
        BY <3>1 DEF PutBlock
      <3> QED BY <1>1, <3>1, <3>2 DEF PutReads
    <2>3. begin = p_next => p_eof
      <3>1. is_in_range(p_next, p_next, p_next)
        BY <1>2 DEF is_in_range, Block
      <3> QED BY <1>5, <3>1
    <2>4. ~ReadsNext
      BY <1>2, <2>1 DEF ReadsNext, ReadsNothing
    <2> QED BY <1>2, <1>3, <2>1, <2>2, <2>3, <2>4, Zenon DEF ReadsNothing, PutClientInv, PutTypes
  <1> QED BY <1>4, <1>5

\* A step that sends nothing new: the request or the block is sent again, or nothing.
NumberedBlock(k) == Packet("DATA", k % BlockMod, PutBlock(k))
PutStays ==
  /\ UNCHANGED <<p_begin, p_next, p_blocks>>
  /\ \/ p_sent' \in {<<>>, <<Wrq>>}
     \/ p_blocks > 0 /\ p_sent' = <<NumberedBlock(p_blocks)>>
  /\ \/ p_status' = p_status
     \/ p_status \in {"requesting", "sending"} /\ p_status' \in {"failed", "crashed"}

\* The first block is sent.
PutStarts ==
  /\ p_status = "requesting" /\ p_status' = "sending"
  /\ p_begin' = p_begin /\ ReadsNext

\* The ACK of the block that was sent: the next one is sent, or there is none.
PutAdvances(p) ==
  /\ p_status = "sending" /\ p = Ack(p_blocks % BlockMod) /\ p_begin' = p_next
  /\ \/ ReadsNext /\ p_status' = "sending"
     \/ ReadsNothing /\ p_blocks = PutBlocks /\ p_status' = "success"

PutTurn(p) == PutStays \/ PutStarts \/ PutAdvances(p)

\* The file, and so its last block, does not change.
PutFrame == UNCHANGED <<p_options, p_len>>

LEMMA PutConstant ==
  ASSUME PutFrame
  PROVE  /\ PutBlocks' = PutBlocks /\ LastNumberIsMaximal' = LastNumberIsMaximal
         /\ \A k : PutBlock(k)' = PutBlock(k)
  BY DEF PutFrame, PutBlocks, PutBlock, LastNumberIsMaximal

\* A step that keeps the window and the buffer keeps what the client knows of them.
LEMMA PutWindowKept ==
  ASSUME PutClientInv, PutFrame, UNCHANGED windowVarsOfPut,
         p_use' \in BOOLEAN, p_unsupported' \in BOOLEAN,
         p_retransmissions' \in 0 .. PutRetries + 1,
         \/ p_status' = p_status
         \/ p_status \in {"requesting", "sending"} /\ p_status' \in {"failed", "crashed"}
         \/ p_status' = "hung" /\ LastNumberIsMaximal
  PROVE  PutClientInv'
  <1>1. /\ PutBlocks' = PutBlocks /\ LastNumberIsMaximal' = LastNumberIsMaximal
        /\ UNCHANGED <<p_begin, p_next, p_eof, p_last_size, p_packet, p_blocks>>
    BY PutConstant DEF windowVarsOfPut
  <1>2. p_status' \in {"requesting", "sending", "success", "failed", "crashed", "hung"}
    BY DEF PutClientInv, PutTypes
  <1>3. PutTypes'
    BY <1>1, <1>2, Zenon DEF PutClientInv, PutTypes, PutFrame
  <1>4. PutReads'
    <2>1. PutBlock(p_blocks)' = PutBlock(p_blocks)
      BY <1>1 DEF PutBlock, PutFrame
    <2> QED BY <1>1, <2>1 DEF PutClientInv, PutReads
  <1>5. PutWaits'
    <2>1. PutWaits
      BY DEF PutClientInv
    <2>2. p_blocks = 0 /\ p_begin = 1 => p_begin = p_next
      BY FirstNumbers DEF PutClientInv, PutReads
    <2>3. p_blocks \in Nat
      BY PutTyped
    <2> QED BY <1>1, <2>1, <2>2, <2>3 DEF PutWaits
  <1> QED BY <1>3, <1>4, <1>5 DEF PutClientInv

\* The put ends without success.
LEMMA PutStopsStep ==
  ASSUME PutClientInv, NEW s \in {"failed", "crashed"}, NEW u \in BOOLEAN, PutStops(s, u),
         p_status \in {"requesting", "sending"}
  PROVE  PutFrame /\ PutClientInv' /\ p_sent' = <<>> /\ PutStays
  <1>1. /\ PutFrame /\ UNCHANGED windowVarsOfPut /\ p_sent' = <<>> /\ p_status' = s
        /\ p_use' = p_use /\ p_unsupported' = u /\ p_retransmissions' = p_retransmissions
    BY DEF PutStops, PutFrame
  <1>2. PutClientInv'
    <2>1. p_use \in BOOLEAN /\ p_retransmissions \in 0 .. PutRetries + 1
      BY DEF PutClientInv, PutTypes
    <2>2. /\ p_use' \in BOOLEAN /\ p_unsupported' \in BOOLEAN
          /\ p_retransmissions' \in 0 .. PutRetries + 1
          /\ p_status \in {"requesting", "sending"} /\ p_status' \in {"failed", "crashed"}
      BY <1>1, <2>1
    <2> QED BY <1>1, <2>2, PutWindowKept, Zenon
  <1> QED BY <1>1, <1>2 DEF PutStays, windowVarsOfPut

\* send_file begins.
LEMMA PutBegins ==
  ASSUME PutClientInv, NEW use \in BOOLEAN, StartSending(use), p_status = "requesting"
  PROVE  PutFrame /\ PutClientInv' /\ PutStarts
  <1>1. /\ PutFrame /\ p_len' = p_len /\ p_status' = "sending" /\ p_use' = use
        /\ p_retransmissions' = 0
        /\ FillWindow(p_begin) /\ p_begin' = p_begin /\ p_unsupported' = p_unsupported
    BY DEF StartSending, PutFrame
  <1>2. p_blocks = 0 /\ p_begin = 1
    BY DEF PutClientInv, PutWaits
  <1>3. p_next = 1 /\ PutBlocks \in Nat \ {0} /\ 1 \in Block
    BY <1>2, PutTyped, FirstNumbers
  <1>4. ~p_eof
    BY <1>2, <1>3 DEF PutClientInv, PutReads
  <1>5. /\ p_eof' \in BOOLEAN /\ p_packet' \in [1 .. BlockSize -> Nat]
        /\ p_blocks' \in 0 .. PutBlocks /\ PutReads' /\ ReadsNext
    BY <1>1, <1>2, <1>3, <1>4, FillsWindow
  <1>6. p_blocks' = 1
    BY <1>2, <1>5 DEF ReadsNext
  <1>7. PutBlocks' = PutBlocks
    BY <1>1, PutConstant
  <1>8. PutTypes'
    <2>1. 0 \in 0 .. PutRetries + 1
      BY PutAssumption
    <2> QED BY <1>1, <1>5, <1>7, <2>1 DEF PutClientInv, PutTypes, PutFrame
  <1>9. PutWaits'
    <2>1. 1 % BlockMod = 1
      BY FirstNumbers
    <2> QED BY <1>1, <1>2, <1>6, <2>1 DEF PutWaits
  <1> QED BY <1>1, <1>5, <1>8, <1>9 DEF PutClientInv, PutStarts

\* The ACK of a block in the window.
LEMMA PutSlides ==
  ASSUME PutClientInv, NEW n \in Block, SendAcked(Ack(n)), p_status = "sending"
  PROVE  /\ PutFrame /\ PutClientInv' /\ (ReadsNext \/ ReadsNothing)
         /\ ~LastNumberIsMaximal => PutAdvances(Ack(n))
  <1>1. /\ PutFrame /\ p_len' = p_len /\ p_begin' = Succ(n) /\ p_retransmissions' = 0
        /\ p_status' = (IF Completed(n) THEN "success" ELSE "sending")
        /\ FillWindow(p_begin') /\ p_use' = p_use /\ p_unsupported' = p_unsupported
        /\ AckInWindow(n)
    BY DEF SendAcked, PutFrame, Ack, Packet
  <1>2. /\ p_blocks \in Nat /\ p_blocks <= PutBlocks /\ PutBlocks \in Nat \ {0}
        /\ p_next = (p_blocks + 1) % BlockMod /\ p_next \in Block
    BY PutTyped
  <1>3. /\ p_eof' \in BOOLEAN /\ p_packet' \in [1 .. BlockSize -> Nat]
        /\ p_blocks' \in 0 .. PutBlocks /\ PutReads' /\ (ReadsNext \/ ReadsNothing)
        /\ p_begin' = p_next => (ReadsNext <=> ~p_eof)
    <2> DEFINE begin == Succ(n)
    <2>1. FillWindow(begin)
      BY <1>1
    <2> HIDE DEF begin
    <2>2. /\ p_eof' \in BOOLEAN /\ p_packet' \in [1 .. BlockSize -> Nat]
          /\ p_blocks' \in 0 .. PutBlocks /\ PutReads' /\ (ReadsNext \/ ReadsNothing)
          /\ begin = p_next => (ReadsNext <=> ~p_eof)
      BY <1>1, <2>1, FillsWindow
    <2> QED BY <1>1, <2>2 DEF begin
  <1>4. PutBlocks' = PutBlocks /\ LastNumberIsMaximal' = LastNumberIsMaximal
    BY <1>1, PutConstant
  <1>5. PutTypes'
    <2>1. Succ(n) \in Block /\ 0 \in 0 .. PutRetries + 1
      BY PutAssumption, BlockModAssumption DEF Block, Succ, Plus
    <2> QED BY <1>1, <1>3, <1>4, <2>1 DEF PutClientInv, PutTypes, PutFrame
  <1>6. p_eof <=> p_blocks = PutBlocks
    BY DEF PutClientInv, PutReads
  <1>7. CASE LastNumberIsMaximal
    <2>1. PutWaits'
      BY <1>1, <1>4, <1>7 DEF PutWaits
    <2> QED BY <1>1, <1>3, <1>5, <1>7, <2>1 DEF PutClientInv
  <1>8. CASE ~LastNumberIsMaximal
    <2>1. p_blocks > 0 /\ p_begin = p_blocks % BlockMod
      BY <1>8 DEF PutClientInv, PutWaits
    <2> DEFINE x == p_blocks % BlockMod
    <2>2. /\ x \in Block /\ Succ(x) = p_next /\ Pred(p_next) = x
          /\ x # BlockMod - 1 => p_next = x + 1
      BY <1>2, PutNumbers
    <2>3. n = x
      <3> HIDE DEF x
      <3>1. is_in_range(n, x, x)
        BY <1>1, <2>1, <2>2 DEF AckInWindow, x
      <3> QED BY <2>2, <3>1 DEF is_in_range, Block
    <2>4. p_begin' = p_next
      BY <1>1, <2>2, <2>3
    <2>5. p_eof => Completed(n)
      <3> SUFFICES ASSUME p_eof PROVE Completed(n)
        OBVIOUS
      <3>1. x # BlockMod - 1
        BY <1>6, <1>8 DEF LastNumberIsMaximal
      <3> HIDE DEF x
      <3> QED BY <2>2, <2>3, <3>1 DEF Completed, Block
    <2>6. CASE p_eof
      <3>1. ReadsNothing /\ p_status' = "success" /\ p_blocks = PutBlocks
        BY <1>1, <1>3, <1>6, <2>4, <2>5, <2>6
      <3>2. p_begin' = p_next'
        BY <2>4, <3>1 DEF ReadsNothing
      <3>3. PutAdvances(Ack(n))
        BY <2>3, <2>4, <3>1 DEF PutAdvances
      <3>4. PutWaits'
        BY <1>1, <1>4, <3>1, <3>2 DEF PutWaits, ReadsNothing
      <3> QED BY <1>1, <1>3, <1>5, <3>3, <3>4 DEF PutClientInv
    <2>7. CASE ~p_eof
      <3>1. ReadsNext /\ p_status' = "sending"
        BY <1>1, <1>3, <2>4, <2>7 DEF Completed
      <3>2. p_blocks' = p_blocks + 1
        BY <3>1 DEF ReadsNext
      <3>3. p_begin' = p_blocks' % BlockMod /\ p_blocks' > 0
        BY <1>2, <2>4, <3>2
      <3>4. PutAdvances(Ack(n))
        BY <2>3, <2>4, <3>1 DEF PutAdvances
      <3>5. PutWaits'
        BY <3>1, <3>3 DEF PutWaits
      <3> QED BY <1>1, <1>3, <1>5, <3>4, <3>5 DEF PutClientInv
    <2> QED BY <2>6, <2>7, <1>6
  <1> QED BY <1>7, <1>8

\* A block of the file is a packet of its own.
LEMMA BlockIsPacket ==
  ASSUME p_len \in Nat, NEW k \in 1 .. PutBlocks
  PROVE  NumberedBlock(k) \in BlockPacket /\ <<NumberedBlock(k)>> \in Seq(BlockPacket)
  <1>1. k \in Nat /\ PutBlock(k) \in Seq(Nat)
    BY PutBlockBytes
  <1>2. k % BlockMod \in Block
    BY <1>1, PutNumbers
  <1>3. NumberedBlock(k) \in BlockPacket
    BY <1>1, <1>2 DEF NumberedBlock, Packet, BlockPacket
  <1> QED BY <1>3

\* What the sending phase sends are blocks.
LEMMA FilledIsPacket ==
  ASSUME PutClientInv, ReadsNext \/ ReadsNothing
  PROVE  p_sent' \in Seq(BlockPacket)
  <1>1. CASE ReadsNext
    <2>1. /\ p_blocks' = p_blocks + 1 /\ p_blocks < PutBlocks
          /\ p_sent' = <<Packet("DATA", p_blocks' % BlockMod, PutBlock(p_blocks'))>>
      BY <1>1 DEF ReadsNext
    <2>2. PICK k \in Nat : k = p_blocks + 1
      BY PutTyped
    <2>3. k \in 1 .. PutBlocks /\ p_len \in Nat
      BY <2>1, <2>2, PutTyped
    <2>4. p_sent' = <<NumberedBlock(k)>>
      BY <2>1, <2>2 DEF NumberedBlock
    <2> QED BY <2>3, <2>4, BlockIsPacket
  <1>2. CASE ReadsNothing
    BY <1>2 DEF ReadsNothing
  <1> QED BY <1>1, <1>2

\* The packets of the window that are resent are blocks, if not always the right ones.
LEMMA ResentArePackets ==
  ASSUME PutClientInv
  PROVE  PutWindow \in Seq(BlockPacket)
  <1>1. /\ p_next \in Block /\ p_begin \in Block /\ p_last_size \in 0 .. BlockSize
        /\ p_packet \in [1 .. BlockSize -> Nat]
    BY PutTyped DEF PutClientInv, PutTypes
  <1>2. Dist(p_begin, p_next) \in Nat /\ Pred(p_next) \in Block
    BY <1>1, BlockModAssumption DEF Dist, Minus, Pred, Block
  <1>3. \A n : ResentSize(n) \in 0 .. BlockSize
    BY <1>1, PacketAssumption DEF ResentSize
  <1>4. \A n : Packet("DATA", Pred(p_next), SubSeq(p_packet, 1, ResentSize(n))) \in BlockPacket
    BY <1>1, <1>2, <1>3, BufferPart DEF Packet, BlockPacket
  <1> QED BY <1>2, <1>4 DEF PutWindow

\* While the client waits for the ACK of a block the window is that block.
LEMMA ResentIsBlock ==
  ASSUME PutClientInv, p_status = "sending", ~LastNumberIsMaximal
  PROVE  PutWindow = <<NumberedBlock(p_blocks)>> /\ p_begin # p_next
  <1> DEFINE k == p_blocks
             x == k % BlockMod
             y == (k + 1) % BlockMod
  <1>1. /\ k \in 1 .. PutBlocks /\ k \in Nat /\ p_begin = x /\ p_next = y /\ p_len \in Nat
        /\ SubSeq(p_packet, 1, p_last_size) = PutBlock(k) /\ p_last_size = Len(PutBlock(k))
    <2>1. k > 0 /\ p_begin = x
      BY DEF PutClientInv, PutWaits
    <2>2. /\ k \in Nat /\ k <= PutBlocks /\ PutBlocks \in Nat /\ p_len \in Nat /\ p_next = y
      BY PutTyped
    <2>3. /\ SubSeq(p_packet, 1, p_last_size) = PutBlock(k)
          /\ p_last_size = Len(PutBlock(k))
      <3>1. p_blocks > 0 /\ p_blocks # 0
        BY <2>1, <2>2
      <3>2. PutReads
        BY DEF PutClientInv
      <3> HIDE DEF x, y
      <3> QED BY <3>1, <3>2, Zenon DEF PutReads
    <2>4. k \in 1 .. PutBlocks
      <3> HIDE DEF x, y
      <3> QED BY <2>1, <2>2
    <2> QED BY <2>1, <2>2, <2>3, <2>4
  <1>2. /\ x \in Block /\ y \in Block /\ Pred(y) = x /\ Dist(x, y) = 1
        /\ x # BlockMod - 1 => y = x + 1
    BY <1>1, PutNumbers
  <1>3. Plus(x, 0) = x
    <2> HIDE DEF x
    <2> QED BY <1>2, BlockModAssumption DEF Plus, Block
  <1>4. ResentSize(x) = p_last_size
    <2>1. CASE x # BlockMod - 1
      <3> HIDE DEF x, y
      <3> QED BY <1>1, <1>2, <2>1, BlockModAssumption DEF ResentSize, Block
    <2>2. CASE x = BlockMod - 1
      <3>1. k # PutBlocks
        BY <2>2 DEF LastNumberIsMaximal
      <3>2. Len(PutBlock(k)) \in 0 .. BlockSize /\ ~(Len(PutBlock(k)) < BlockSize)
        BY <1>1, <3>1, PutBlockBytes
      <3>3. p_last_size = BlockSize
        <4> DEFINE n == Len(PutBlock(k))
        <4>1. p_last_size = n
          BY <1>1
        <4>2. n \in 0 .. BlockSize /\ ~(n < BlockSize)
          BY <3>2
        <4> HIDE DEF n
        <4> QED BY <4>1, <4>2, PacketAssumption
      <3> QED BY <3>3 DEF ResentSize
    <2> QED BY <2>1, <2>2
  <1>5. \A i \in 1 .. 1 : Plus(x, i - 1) = x
    BY <1>3
  <1>6. PutWindow = [i \in 1 .. 1 |-> NumberedBlock(k)]
    <2> HIDE DEF x, y, k
    <2>1. PutWindow = [i \in 1 .. 1 |->
             Packet("DATA", x, SubSeq(p_packet, 1, ResentSize(Plus(x, i - 1))))]
      BY <1>1, <1>2 DEF PutWindow
    <2>2. \A i \in 1 .. 1 : SubSeq(p_packet, 1, ResentSize(Plus(x, i - 1))) = PutBlock(k)
      BY <1>1, <1>4, <1>5
    <2> QED BY <2>1, <2>2 DEF NumberedBlock, x
  <1>7. x # y
    <2> HIDE DEF x, y
    <2> QED BY <1>2, BlockModAssumption DEF Dist, Minus, Block
  <1> QED BY <1>1, <1>6, <1>7

\* What a step of the client shows.
ClientTurn(p) ==
  /\ PutFrame /\ PutClientInv'
  /\ p_sent' = <<Wrq>> \/ p_sent' \in Seq(BlockPacket)
  /\ ~LastNumberIsMaximal => PutTurn(p)

\* A timeout of send_file.
LEMMA SendTimesOut ==
  ASSUME PutClientInv, SendTimeout, NEW p
  PROVE  ClientTurn(p)
  <1>1. p_status = "sending" /\ p_unsupported \in BOOLEAN /\ p_use \in BOOLEAN
    BY DEF SendTimeout, PutClientInv, PutTypes
  <1>2. CASE PutFails
    <2>1. PutStops("failed", p_unsupported)
      BY <1>2 DEF PutFails
    <2>2. PutFrame /\ PutClientInv' /\ p_sent' = <<>> /\ PutStays
      BY <1>1, <2>1, PutStopsStep
    <2> QED BY <2>2 DEF ClientTurn, PutTurn
  <1>3. CASE ~PutGivesUp /\ p_sent' = PutWindow
    <2>1. /\ p_retransmissions' = (p_retransmissions + 1) % RetryMod
          /\ p_status' = (IF p_begin = p_next THEN "hung" ELSE "sending")
          /\ UNCHANGED <<p_options, p_use, p_len, p_unsupported, windowVarsOfPut>>
      BY <1>3, Zenon DEF SendTimeout, PutFails, PutGivesUp
    <2>2. p_retransmissions' \in 0 .. PutRetries + 1
      <3>1. p_retransmissions \in Nat /\ p_retransmissions <= PutRetries
        BY <1>3, PutAssumption DEF PutGivesUp, PutClientInv, PutTypes
      <3>2. PICK r \in Nat : r = p_retransmissions + 1
        BY <3>1
      <3>3. r <= RetryMod /\ RetryMod \in Nat \ {0} /\ r <= PutRetries + 1
        BY <3>1, <3>2, PutAssumption
      <3>4. r % RetryMod \in 0 .. r
        <4>1. CASE r < RetryMod
          <5>1. r % RetryMod = r
            BY <3>3, <4>1
          <5> QED BY <5>1
        <4>2. CASE r = RetryMod
          <5>1. r % RetryMod = 0
            BY <3>3, <4>2
          <5> QED BY <5>1
        <4> QED BY <3>3, <4>1, <4>2
      <3> QED BY <2>1, <3>2, <3>3, <3>4, PutAssumption
    <2>3. ~LastNumberIsMaximal => p_begin # p_next /\ PutWindow = <<NumberedBlock(p_blocks)>>
                                  /\ p_blocks > 0
      BY <1>1, ResentIsBlock DEF PutClientInv, PutWaits
    <2>4. p_status' = p_status \/ (p_status' = "hung" /\ LastNumberIsMaximal)
      BY <1>1, <2>1, <2>3
    <2>5. PutFrame /\ UNCHANGED <<p_begin, p_next, p_blocks>>
      BY <2>1 DEF PutFrame, windowVarsOfPut
    <2>6. PutClientInv'
      BY <1>1, <2>1, <2>2, <2>4, <2>5, PutWindowKept
    <2>7. p_sent' \in Seq(BlockPacket)
      BY <1>3, ResentArePackets
    <2>8. ~LastNumberIsMaximal => PutStays
      BY <1>3, <2>3, <2>4, <2>5, Zenon DEF PutStays
    <2> QED BY <2>5, <2>6, <2>7, <2>8 DEF ClientTurn, PutTurn
  <1> QED BY <1>2, <1>3 DEF SendTimeout

\* Any timeout, or a call that fails.
LEMMA PutTimesOut ==
  ASSUME PutClientInv, PutTimeout \/ PutFault, NEW p
  PROVE  ClientTurn(p)
  <1>1. p_unsupported \in BOOLEAN /\ p_use \in BOOLEAN
    BY DEF PutClientInv, PutTypes
  <1>2. CASE SendTimeout
    BY <1>2, SendTimesOut
  <1>3. ASSUME NEW u \in BOOLEAN, PutStops("failed", u), p_status \in {"requesting", "sending"}
        PROVE  ClientTurn(p)
    <2>1. PutFrame /\ PutClientInv' /\ p_sent' = <<>> /\ PutStays
      BY <1>3, PutStopsStep
    <2> QED BY <2>1 DEF ClientTurn, PutTurn
  <1>4. CASE RequestTimeout
    <2>1. p_status = "requesting"
      BY <1>4 DEF RequestTimeout
    <2>2. CASE PutRefused
      BY <1>1, <1>3, <2>1, <2>2 DEF PutRefused
    <2>3. CASE ~PutRefused
      <3>1. /\ p_retransmissions < PutRetries
            /\ p_retransmissions' = p_retransmissions + 1
            /\ p_sent' = <<Wrq>>
            /\ UNCHANGED <<p_options, p_use, p_len, p_status, p_unsupported,
                           windowVarsOfPut>>
        BY <1>4, <2>3 DEF RequestTimeout
      <3>2. p_retransmissions' \in 0 .. PutRetries + 1
        BY <3>1, PutAssumption DEF PutClientInv, PutTypes
      <3>3. PutFrame /\ UNCHANGED <<p_begin, p_next, p_blocks>>
        BY <3>1 DEF PutFrame, windowVarsOfPut
      <3>4. PutClientInv'
        BY <1>1, <3>1, <3>2, <3>3, PutWindowKept
      <3>5. PutStays
        BY <3>1, <3>3 DEF PutStays
      <3> QED BY <3>1, <3>3, <3>4, <3>5 DEF ClientTurn, PutTurn
    <2> QED BY <2>2, <2>3
  <1>5. CASE PutFault
    BY <1>1, <1>3, <1>5 DEF PutFault, PutFails
  <1> QED BY <1>2, <1>4, <1>5 DEF PutTimeout

\* A packet of the session, or of a stranger.
LEMMA PutReceivesStep ==
  ASSUME PutClientInv, NEW p, p \in ReplyPacket \/ p.op = "STRANGER", PutReceives(p)
  PROVE  ClientTurn(p)
  <1>1. p_unsupported \in BOOLEAN /\ p_use \in BOOLEAN
    BY DEF PutClientInv, PutTypes
  <1>2. p_status \in {"requesting", "sending"}
    BY DEF PutReceives, PutAnswered
  <1>3. ASSUME NEW s \in {"failed", "crashed"}, NEW u \in BOOLEAN, PutStops(s, u)
        PROVE  ClientTurn(p)
    <2>1. PutFrame /\ PutClientInv' /\ p_sent' = <<>> /\ PutStays
      BY <1>2, <1>3, PutStopsStep
    <2> QED BY <2>1 DEF ClientTurn, PutTurn
  <1>4. ASSUME NEW use \in BOOLEAN, StartSending(use), p_status = "requesting"
        PROVE  ClientTurn(p)
    <2>1. PutFrame /\ PutClientInv' /\ PutStarts
      BY <1>4, PutBegins
    <2>2. p_sent' \in Seq(BlockPacket)
      BY <2>1, FilledIsPacket DEF PutStarts
    <2> QED BY <2>1, <2>2 DEF ClientTurn, PutTurn
  <1>5. CASE PutAnswered(p)
    <2>1. p_status = "requesting"
      BY <1>5 DEF PutAnswered
    <2>2. CASE PutFails \/ PutRefused
      BY <1>1, <1>3, <2>2 DEF PutFails, PutRefused
    <2>3. CASE PutStops("crashed", FALSE)
      BY <1>3, <2>3
    <2>4. CASE StartSending(TRUE) \/ StartSending(FALSE)
      BY <1>4, <2>1, <2>4
    <2> QED BY <1>5, <2>2, <2>3, <2>4 DEF PutAnswered
  <1>6. CASE p_status = "sending" /\ SendAcked(p)
    <2>1. p.op = "ACK"
      BY <1>6 DEF SendAcked
    <2>2. PICK n \in Block : p = Ack(n)
      BY <2>1 DEF ReplyPacket, Replies, Oack, Error, Packet
    <2>3. /\ PutFrame /\ PutClientInv' /\ (ReadsNext \/ ReadsNothing)
          /\ ~LastNumberIsMaximal => PutAdvances(p)
      BY <1>6, <2>2, PutSlides
    <2>4. p_sent' \in Seq(BlockPacket)
      BY <2>3, FilledIsPacket
    <2> QED BY <2>3, <2>4 DEF ClientTurn, PutTurn
  <1>7. CASE SendIgnores(p)
    <2>1. /\ p_sent' = <<>> /\ PutFrame /\ UNCHANGED <<p_begin, p_next, p_blocks, p_status>>
          /\ UNCHANGED <<windowVarsOfPut, p_use, p_retransmissions, p_unsupported>>
      BY <1>7 DEF SendIgnores, PutFrame, windowVarsOfPut
    <2>2. p_retransmissions \in 0 .. PutRetries + 1
      BY DEF PutClientInv, PutTypes
    <2>3. PutClientInv'
      BY <1>1, <2>1, <2>2, PutWindowKept
    <2>4. PutStays
      BY <2>1 DEF PutStays
    <2> QED BY <2>1, <2>3, <2>4 DEF ClientTurn, PutTurn
  <1>8. CASE SendAborted(p)
    BY <1>1, <1>3, <1>8 DEF SendAborted, PutFails
  <1> QED BY <1>5, <1>6, <1>7, <1>8 DEF PutReceives
-----------------------------------------------------------------------------
(* Channels. *)

\* A sequence over one set whose elements are in another.
LEMMA SeqOver ==
  ASSUME NEW S, NEW T, NEW s \in Seq(S), \A i \in 1 .. Len(s) : s[i] \in T
  PROVE  s \in Seq(T)
  OBVIOUS

\* What is transmitted ends up behind what is under way, or is lost.
LEMMA ChannelGrows ==
  ASSUME NEW S, NEW channel \in Seq(S), NEW pkts \in Seq(S)
  PROVE  LET c == Transmit(channel, pkts)
             len == Len(channel)
         IN  /\ c \in Seq(S) /\ Len(c) <= ChanCap
             /\ \A i \in 1 .. Len(c) :
                  \/ i \in 1 .. len /\ c[i] = channel[i]
                  \/ i > len /\ i - len \in 1 .. Len(pkts) /\ c[i] = pkts[i - len]
  <1> DEFINE all == channel \o pkts
             len == Len(channel)
             n == Least(Len(all), ChanCap)
             c == SubSeq(all, 1, n)
  <1>1. /\ all \in Seq(S) /\ Len(all) = len + Len(pkts) /\ len \in Nat /\ Len(pkts) \in Nat
        /\ \A i \in 1 .. len + Len(pkts) :
             all[i] = IF i <= len THEN channel[i] ELSE pkts[i - len]
    BY ConcatProperties
  <1> HIDE DEF all
  <1>2. n \in 0 .. Len(all) /\ n <= ChanCap
    BY <1>1, NetworkAssumption DEF Least
  <1> HIDE DEF n
  <1>3. c \in Seq(S) /\ Len(c) = n /\ \A i \in 1 .. n : c[i] = all[i]
    BY <1>1, <1>2
  <1>4. c = Transmit(channel, pkts)
    BY DEF Transmit, all, n
  <1> HIDE DEF c, len
  <1>5. ASSUME NEW i \in 1 .. Len(c)
        PROVE  \/ i \in 1 .. len /\ c[i] = channel[i]
               \/ i > len /\ i - len \in 1 .. Len(pkts) /\ c[i] = pkts[i - len]
    BY <1>1, <1>2, <1>3
  <1> QED BY <1>2, <1>3, <1>4, <1>5 DEF len

\* A packet taken out leaves the others in order.
LEMMA ChannelShrinks ==
  ASSUME NEW S, NEW channel \in Seq(S), NEW i \in 1 .. Len(channel)
  PROVE  LET c == RemoveAt(channel, i)
         IN  /\ c \in Seq(S) /\ Len(c) = Len(channel) - 1
             /\ \A j \in 1 .. Len(c) : c[j] = IF j < i THEN channel[j] ELSE channel[j + 1]
  <1> DEFINE a == SubSeq(channel, 1, i - 1)
             b == SubSeq(channel, i + 1, Len(channel))
             c == a \o b
             n == Len(channel)
  <1>1. n \in Nat
    OBVIOUS
  <1>2. a \in Seq(S) /\ Len(a) = i - 1 /\ \A j \in 1 .. i - 1 : a[j] = channel[j]
    OBVIOUS
  <1>3. b \in Seq(S) /\ Len(b) = n - i /\ \A j \in 1 .. n - i : b[j] = channel[i + j]
    OBVIOUS
  <1> HIDE DEF a, b
  <1>4. /\ c \in Seq(S) /\ Len(c) = Len(a) + Len(b)
        /\ \A j \in 1 .. Len(a) + Len(b) : c[j] = IF j <= Len(a) THEN a[j] ELSE b[j - Len(a)]
    BY <1>2, <1>3, ConcatProperties
  <1>5. c = RemoveAt(channel, i)
    BY DEF RemoveAt, a, b
  <1> HIDE DEF c, n
  <1>6. Len(c) = n - 1
    BY <1>1, <1>2, <1>3, <1>4
  <1>7. ASSUME NEW j \in 1 .. Len(c)
        PROVE  c[j] = IF j < i THEN channel[j] ELSE channel[j + 1]
    <2>1. CASE j < i
      BY <1>1, <1>2, <1>3, <1>4, <1>6, <2>1
    <2>2. CASE j >= i
      <3>1. j - (i - 1) \in 1 .. n - i /\ i + (j - (i - 1)) = j + 1
        BY <1>1, <1>6, <2>2
      <3>2. c[j] = b[j - (i - 1)]
        BY <1>1, <1>2, <1>3, <1>4, <1>6, <2>2
      <3> QED BY <1>3, <2>2, <3>1, <3>2
    <2> QED BY <1>1, <2>1, <2>2
  <1> QED BY <1>4, <1>5, <1>6, <1>7 DEF n

-----------------------------------------------------------------------------
(* The session of a put. *)

\* A completion other than that of a packet, and a packet that is dropped.
RingOfPut ==
  /\ status = "idle" /\ status' # "new"
  /\ UNCHANGED <<request, fd, written, expected_sequence_number, blocks,
                 options_acknowledged>>
  /\ should_close => should_close'
  /\ error_occurred => error_occurred'
  /\ error_occurred' => error_occurred \/ should_close'
  /\ sent' \in {<<>>, <<Oack>>, <<Error>>, <<Ack(Pred(expected_sequence_number))>>}

\* The tail of the handler does not undo the start.
LEMMA EpilogueStatus ==
  ASSUME NEW jobs, NEW f, Epilogue(jobs, f)
  PROVE  status' \in {"idle", "closed", "error"}
  BY Zenon DEF Epilogue, FetchFails, NoFetch

\* A session that writes goes on until it is to close.
LEMMA WriterGoesOn ==
  ASSUME NEW jobs, NEW f, Epilogue(jobs, f), request.type = "write", ~should_close'
  PROVE  status' = "idle"
  <1>1. ~ShouldFetch(f)
    BY DEF ShouldFetch
  <1>2. NoFetch(jobs, f)
    BY <1>1, Zenon DEF Epilogue, FetchFails
  <1> QED BY <1>2, Zenon DEF NoFetch

\* A session that writes reads nothing.
LEMMA WriterReadsNothing ==
  ASSUME SessionInv, request.type = "write", status = "idle"
  PROVE  reads = 0
  <1>1. ~is_fetching_data
    BY WindowFacts
  <1> QED BY <1>1 DEF SessionInv, RingShape, Running, b2n

LEMMA OnlyEpilogueOfPut ==
  ASSUME SessionInv, OnlyEpilogue, status = "idle"
  PROVE  RingOfPut
  <1>1. status' \in {"idle", "closed", "error"}
    BY EpilogueStatus DEF OnlyEpilogue
  <1> QED BY <1>1, Zenon DEF OnlyEpilogue, RingOfPut, windowVars, writeVars

LEMMA RingStepOfPut ==
  ASSUME SessionInv, request.type = "write", RingEvent \/ PacketDropped
  PROVE  RingOfPut
  <1>1. CASE TimeoutHandled
    <2>1. status = "idle" /\ ~should_close
          /\ UNCHANGED <<request, fd, written, expected_sequence_number, blocks,
                         options_acknowledged>>
      BY <1>1 DEF TimeoutHandled, windowVars, writeVars
    <2>2. status' # "new"
      <3>1. CASE EmptyRetransmission
        BY <1>1, <3>1 DEF TimeoutHandled
      <3>2. CASE ~EmptyRetransmission
        <4>1. Epilogue(JobsPlus(0), FetchState)
          BY <1>1, <3>2 DEF TimeoutHandled
        <4> QED BY <4>1, EpilogueStatus
      <3> QED BY <3>1, <3>2
    <2>3. CASE GiveUp
      BY <2>1, <2>2, <2>3, Zenon DEF GiveUp, RingOfPut
    <2>4. CASE Retransmit
      <3>1. sent' \in {<<Oack>>, <<Ack(Pred(expected_sequence_number))>>}
        <4>1. sent' = CASE OptionsPending -> <<Oack>>
                        [] ~OptionsPending /\ request.type = "write" ->
                             <<Ack(Pred(expected_sequence_number))>>
                        [] OTHER -> Window
          BY <2>4 DEF Retransmit
        <4> QED BY <4>1, Zenon
      <3>2. UNCHANGED <<should_close, error_occurred>>
        BY <2>4 DEF Retransmit
      <3> QED BY <2>1, <2>2, <3>1, <3>2, Zenon DEF RingOfPut
    <2> QED BY <1>1, <2>3, <2>4 DEF TimeoutHandled
  <1>2. CASE TimeoutIgnored \/ TimeoutCanceled \/ TimeoutRemoved \/ RecvRemoved
    BY <1>2, OnlyEpilogueOfPut, Zenon
       DEF TimeoutIgnored, TimeoutCanceled, TimeoutRemoved, RecvRemoved
  <1>3. CASE RecvCanceled \/ PacketDropped
    BY <1>3, OnlyEpilogueOfPut, Zenon DEF RecvCanceled, PacketDropped, RecvDropped
  <1>4. CASE DataAvailable
    <2>1. reads > 0 /\ status = "idle"
      BY <1>4 DEF DataAvailable
    <2> QED BY <2>1, WriterReadsNothing
  <1> QED BY <1>1, <1>2, <1>3, <1>4 DEF RingEvent

\* The start.
StartOfPut ==
  /\ status = "new" /\ status' # "new"
  /\ UNCHANGED <<request, written, expected_sequence_number, blocks, options_acknowledged>>
  /\ fd' = "zero" => should_close'
  /\ error_occurred' => fd' = "none"
  /\ sent' \in {<<>>, <<Oack>>, <<Ack(0)>>}

LEMMA StartStepOfPut ==
  ASSUME request.mode # "invalid", Start
  PROVE  StartOfPut
  <1>1. /\ status = "new" /\ start
        /\ UNCHANGED <<request, written, expected_sequence_number, blocks,
                       options_acknowledged>>
        /\ sent' = CASE SendsOack -> <<Oack>>
                     [] is_request_valid /\ ~SendsOack /\ request.type = "write" -> <<Ack(0)>>
                     [] OTHER -> <<>>
    BY DEF Start, windowVars, writeVars
  <1>2. status' # "new"
    BY EpilogueStatus DEF Start
  <1>3. sent' \in {<<>>, <<Oack>>, <<Ack(0)>>}
    BY <1>1, Zenon
  <1>4. /\ should_close' = ~is_request_valid
        /\ fd' = CASE FileOpens -> "file"
                   [] is_request_valid /\ request.mode # "invalid" /\ ~request.file -> "none"
                   [] OTHER -> "zero"
        /\ error_occurred' = (is_request_valid /\ ~FileOpens)
    BY <1>1 DEF start
  <1>5. fd' = "zero" => should_close'
    BY <1>4 DEF FileOpens
  <1>6. error_occurred' => fd' = "none"
    BY <1>4 DEF FileOpens
  <1> QED BY <1>1, <1>2, <1>3, <1>5, <1>6 DEF StartOfPut

\* A packet with a block: it is ignored, written and acknowledged, or the write fails.
PutIgnored ==
  /\ sent' = <<>> /\ status' # "new"
  /\ UNCHANGED <<written, expected_sequence_number, blocks, options_acknowledged,
                 should_close, error_occurred>>
PutRefusedToWrite ==
  /\ fd = "none" /\ status' = "error" /\ sent' = <<>> /\ error_occurred'
  /\ UNCHANGED <<written, expected_sequence_number, blocks, options_acknowledged,
                 should_close>>
PutStored(p) ==
  /\ DataExpected(p.block) /\ fd # "none" /\ status' # "new"
  /\ written' = IF fd = "file" THEN written \o p.data ELSE written
  /\ sent' = <<Ack(p.block)>>
  /\ options_acknowledged' = (options_acknowledged \/ (OptionsPending /\ p.block = 1))
  /\ expected_sequence_number' = Succ(expected_sequence_number)
  /\ blocks' = blocks + 1
  /\ should_close' = (Len(p.data) < BlockSize)
  /\ error_occurred' = error_occurred
  /\ ~should_close' => status' = "idle"
DataOfPut(p) ==
  /\ status = "idle" /\ ~should_close
  /\ UNCHANGED <<request, fd>>
  /\ PutIgnored \/ PutRefusedToWrite \/ PutStored(p)

LEMMA DataStepOfPut ==
  ASSUME NEW p, p.op = "DATA", request.type = "write", PacketReceived(p)
  PROVE  DataOfPut(p)
  <1>1. status = "idle" /\ ~should_close /\ UNCHANGED <<request, fd>>
    BY DEF PacketReceived
  <1>2. CASE Ignore
    <2>1. status' # "new"
      BY <1>2, EpilogueStatus DEF Ignore
    <2> QED BY <1>1, <1>2, <2>1, Zenon DEF Ignore, DataOfPut, PutIgnored, windowVars,
            writeVars
  <1>3. CASE UnexpectedPeer(p) \/ Abort(p) \/ AckReceived(p)
    BY <1>3 DEF UnexpectedPeer, Abort, AckReceived, report_client_error, IllegalOperation
  <1>4. CASE DataReceived(p)
    <2>1. status' # "new" /\ (~should_close' => status' = "idle")
      BY <1>4, EpilogueStatus, WriterGoesOn DEF DataReceived
    <2> QED BY <1>1, <1>4, <2>1, Zenon DEF DataReceived, DataOfPut, PutStored
  <1>5. CASE WriteFails(p)
    BY <1>1, <1>5, Zenon DEF WriteFails, DataOfPut, PutRefusedToWrite, windowVars, writeVars
  <1> QED BY <1>2, <1>3, <1>4, <1>5 DEF PacketReceived, on_packet_received

\* Every packet keeps what is known of a session that writes.
LEMMA WritePacketStep ==
  ASSUME SessionInv, request.type = "write", NEW p, PacketReceived(p)
  PROVE  SessionInv'
  <1>1. Receiving
    BY DEF PacketReceived, Receiving
  <1>2. error_occurred \in BOOLEAN
    BY Zenon DEF SessionInv, TypeOK
  <1>3. CASE Ignore
    BY <1>1, <1>2, <1>3, NeutralPacket DEF Ignore
  <1>4. CASE UnexpectedPeer(p)
    BY <1>1, <1>4, NeutralPacket DEF UnexpectedPeer
  <1>5. CASE Abort(p)
    BY <1>1, <1>5, AbortStep
  <1>6. CASE AckReceived(p)
    BY <1>6 DEF AckReceived
  <1>7. CASE DataReceived(p)
    BY <1>1, <1>7, DataStep
  <1>8. CASE WriteFails(p)
    <2>1. TypeOK'
      BY <1>1, <1>8, Zenon DEF Receiving, WriteFails, SessionInv, TypeOK, windowVars,
         fetchVars, writeVars, timerVars
    <2> QED BY <1>8, <2>1, ErrorPreserves DEF WriteFails
  <1> QED BY <1>3, <1>4, <1>5, <1>6, <1>7, <1>8 DEF PacketReceived, on_packet_received

-----------------------------------------------------------------------------
(* What each side knows of itself, whatever the network does. *)

\* The first packet of a channel, or any if packets are reordered, is one of its packets.
LEMMA ArrivingIsThere ==
  ASSUME NEW S, NEW channel \in Seq(S), NEW i \in Arriving(channel)
  PROVE  i \in 1 .. Len(channel) /\ channel[i] \in S /\ (~Reorder => i = 1)
  <1>1. Len(channel) \in Nat
    OBVIOUS
  <1>2. i \in 1 .. Len(channel) /\ (~Reorder => i = 1)
    <2>1. CASE Reorder
      BY <2>1 DEF Arriving
    <2>2. CASE ~Reorder
      BY <1>1, <2>2 DEF Arriving, Least
    <2> QED BY <2>1, <2>2
  <1> QED BY <1>1, <1>2

\* What remains of it has the same packets.
LEMMA RemainsTyped ==
  ASSUME NEW S, NEW channel \in Seq(S), Len(channel) <= ChanCap,
         NEW i \in 1 .. Len(channel), NEW rest \in Remaining(channel, i) \cup Losing(channel)
  PROVE  rest \in Seq(S) /\ Len(rest) <= ChanCap
  <1>1. ASSUME NEW j \in 1 .. Len(channel), rest = RemoveAt(channel, j)
        PROVE  rest \in Seq(S) /\ Len(rest) <= ChanCap
    <2>1. RemoveAt(channel, j) \in Seq(S) /\ Len(RemoveAt(channel, j)) = Len(channel) - 1
      BY ChannelShrinks
    <2> QED BY <1>1, <2>1, NetworkAssumption
  <1>2. rest = channel \/ \E j \in 1 .. Len(channel) : rest = RemoveAt(channel, j)
    BY DEF Remaining, Losing
  <1> QED BY <1>1, <1>2

\* What the session sends is a reply.
LEMMA AckIsReply ==
  ASSUME NEW n \in Block
  PROVE  <<Ack(n)>> \in Seq(ReplyPacket)
  <1>1. Ack(n) \in ReplyPacket
    BY DEF ReplyPacket
  <1> QED BY <1>1

LEMMA RepliesSent ==
  ASSUME SessionInv, NEW p \in BlockPacket, RingOfPut \/ StartOfPut \/ DataOfPut(p)
  PROVE  sent' \in Seq(ReplyPacket)
  <1>1. <<>> \in Seq(ReplyPacket) /\ <<Oack>> \in Seq(ReplyPacket)
        /\ <<Error>> \in Seq(ReplyPacket)
    <2>1. Oack \in ReplyPacket /\ Error \in ReplyPacket
      BY DEF ReplyPacket, Replies
    <2> QED BY <2>1
  <1>2. CASE RingOfPut
    <2>1. expected_sequence_number \in Block
      BY Zenon DEF SessionInv, TypeOK
    <2>2. Pred(expected_sequence_number) \in Block
      BY <2>1, BlockModAssumption DEF Pred, Minus, Block
    <2>3. <<Ack(Pred(expected_sequence_number))>> \in Seq(ReplyPacket)
      BY <2>2, AckIsReply
    <2> QED BY <1>1, <1>2, <2>3 DEF RingOfPut
  <1>3. CASE StartOfPut
    <2>1. <<Ack(0)>> \in Seq(ReplyPacket)
      <3>1. 0 \in Block
        BY BlockModAssumption DEF Block
      <3> QED BY <3>1, AckIsReply
    <2> QED BY <1>1, <1>3, <2>1 DEF StartOfPut
  <1>4. CASE DataOfPut(p)
    <2>1. p.block \in Block
      BY DEF BlockPacket
    <2>2. <<Ack(p.block)>> \in Seq(ReplyPacket)
      BY <2>1, AckIsReply
    <2> QED BY <1>1, <1>4, <2>2 DEF DataOfPut, PutIgnored, PutRefusedToWrite, PutStored
  <1> QED BY <1>2, <1>3, <1>4

\* A step in which the session does nothing that the client could notice.
SessionRests ==
  /\ UNCHANGED <<request, fd, written, expected_sequence_number, blocks,
                 options_acknowledged, should_close, error_occurred>>
  /\ status' \in {status, "error"}

LEMMA TimerOrFailureRests ==
  ASSUME TimerFires \/ SyscallFailure \/ UNCHANGED sessionVars
  PROVE  SessionRests
  <1>1. CASE TimerFires
    BY <1>1, Zenon DEF TimerFires, SessionRests, controlVars, windowVars, writeVars
  <1>2. CASE SyscallFailure
    BY <1>2, Zenon DEF SyscallFailure, SessionRests, windowVars, writeVars
  <1>3. CASE UNCHANGED sessionVars
    BY <1>3, Zenon DEF sessionVars, SessionRests, controlVars, windowVars, writeVars
  <1> QED BY <1>1, <1>2, <1>3

\* The client does nothing.
LEMMA ClientRests ==
  ASSUME PutClientInv, UNCHANGED putVars
  PROVE  PutClientInv'
  <1>1. UNCHANGED <<p_options, p_use, p_len, p_status, p_retransmissions, p_unsupported>>
        /\ UNCHANGED windowVarsOfPut
    BY DEF putVars, windowVarsOfPut
  <1>2. p_use \in BOOLEAN /\ p_unsupported \in BOOLEAN
        /\ p_retransmissions \in 0 .. PutRetries + 1
    BY DEF PutClientInv, PutTypes
  <1> QED BY <1>1, <1>2, PutWindowKept DEF PutFrame

\* What the server does alone.
LEMMA ServerSideStep ==
  ASSUME SidesInv, Start \/ RingEvent \/ PacketDropped \/ TimerFires \/ SyscallFailure
                   \/ UNCHANGED sessionVars
  PROVE  /\ SessionInv' /\ request' = request
         /\ StartOfPut \/ RingOfPut \/ SessionRests
  <1>1. SessionInv'
    BY NextInv DEF SidesInv, SessionNext
  <1>2. StartOfPut \/ RingOfPut \/ SessionRests
    BY StartStepOfPut, RingStepOfPut, TimerOrFailureRests DEF SidesInv
  <1> QED BY <1>1, <1>2 DEF StartOfPut, RingOfPut, SessionRests

\* What the client sends are blocks, and requests to the listening socket.
LEMMA ClientChannel ==
  ASSUME NetworkTypes, ClientSends, p_sent' = <<Wrq>> \/ p_sent' \in Seq(BlockPacket)
  PROVE  /\ c2s' \in Seq(BlockPacket) /\ Len(c2s') <= ChanCap
         /\ wrqs' \in 0 .. Reopens
  <1> DEFINE pkts == IF p_sent' = <<Wrq>> THEN <<>> ELSE p_sent'
  <1>1. pkts \in Seq(BlockPacket)
    OBVIOUS
  <1>2. c2s' = Transmit(c2s, pkts)
    BY DEF ClientSends
  <1> HIDE DEF pkts
  <1>3. c2s' \in Seq(BlockPacket) /\ Len(c2s') <= ChanCap
    BY <1>1, <1>2, ChannelGrows DEF NetworkTypes
  <1>4. wrqs' \in 0 .. Reopens
    <2>1. wrqs' = (IF p_sent' = <<Wrq>> /\ wrqs < Reopens THEN wrqs + 1 ELSE wrqs)
      BY DEF ClientSends
    <2>2. wrqs \in 0 .. Reopens /\ Reopens \in Nat
      BY PutNetworkAssumption DEF NetworkTypes
    <2> QED BY <2>1, <2>2
  <1> QED BY <1>3, <1>4

\* What the session sends are replies.
LEMMA ServerChannel ==
  ASSUME NetworkTypes, ServerSends, sent' \in Seq(ReplyPacket)
  PROVE  s2c' \in Seq(ReplyPacket) /\ Len(s2c') <= ChanCap
  <1>1. s2c' = Transmit(s2c, sent')
    BY DEF ServerSends
  <1> QED BY <1>1, ChannelGrows DEF NetworkTypes

\* The steps of the composition, as what they do to the two sides and the network.
LEMMA ServerRunsSides ==
  ASSUME SidesInv, ServerRuns
  PROVE  SidesInv' /\ (StartOfPut \/ RingOfPut)
  <1>1. /\ Start \/ RingEvent
        /\ ServerSends /\ UNCHANGED putVars /\ UNCHANGED <<c2s, wrqs>>
    BY DEF ServerRuns
  <1>2. SessionInv' /\ request' = request
    BY <1>1, ServerSideStep
  <1>3. StartOfPut \/ RingOfPut
    BY <1>1, StartStepOfPut, RingStepOfPut DEF SidesInv
  <1>4. sent' \in Seq(ReplyPacket)
    <2>1. Packet("DATA", 0, <<>>) \in BlockPacket
      BY BlockModAssumption DEF BlockPacket, Packet, Block
    <2> QED BY <1>3, <2>1, RepliesSent DEF SidesInv
  <1>5. s2c' \in Seq(ReplyPacket) /\ Len(s2c') <= ChanCap
    BY <1>1, <1>4, ServerChannel DEF SidesInv
  <1>6. NetworkTypes'
    BY <1>1, <1>5 DEF SidesInv, NetworkTypes
  <1>7. PutClientInv'
    BY <1>1, ClientRests DEF SidesInv
  <1> QED BY <1>2, <1>3, <1>6, <1>7 DEF SidesInv

LEMMA ServerReceivesSides ==
  ASSUME SidesInv, NEW i \in Arriving(c2s), PacketReceived(c2s[i]) \/ PacketDropped,
         NEW rest \in Remaining(c2s, i), c2s' = rest, ServerSends,
         UNCHANGED <<putVars, wrqs>>
  PROVE  SidesInv' /\ (DataOfPut(c2s[i]) \/ RingOfPut)
  <1>1. i \in 1 .. Len(c2s) /\ c2s[i] \in BlockPacket
    BY ArrivingIsThere DEF SidesInv, NetworkTypes
  <1>2. c2s[i].op = "DATA"
    BY <1>1 DEF BlockPacket
  <1>3. SessionInv' /\ request' = request /\ (DataOfPut(c2s[i]) \/ RingOfPut)
    <2>1. CASE PacketReceived(c2s[i])
      BY <1>2, <2>1, WritePacketStep, DataStepOfPut DEF SidesInv, DataOfPut
    <2>2. CASE PacketDropped
      BY <2>2, ServerSideStep, RingStepOfPut DEF SidesInv
    <2> QED BY <2>1, <2>2
  <1>4. sent' \in Seq(ReplyPacket)
    BY <1>1, <1>3, RepliesSent DEF SidesInv
  <1>5. s2c' \in Seq(ReplyPacket) /\ Len(s2c') <= ChanCap
    BY <1>4, ServerChannel DEF SidesInv
  <1>6. c2s' \in Seq(BlockPacket) /\ Len(c2s') <= ChanCap
    BY <1>1, RemainsTyped DEF SidesInv, NetworkTypes
  <1>7. NetworkTypes'
    BY <1>5, <1>6 DEF SidesInv, NetworkTypes
  <1>8. PutClientInv'
    BY ClientRests DEF SidesInv
  <1> QED BY <1>3, <1>7, <1>8 DEF SidesInv

\* A step in which only the client moves, on packet p or none.
LEMMA ClientSides ==
  ASSUME SidesInv, NEW p, ClientTurn(p), ClientSends, UNCHANGED sessionVars,
         s2c' \in Seq(ReplyPacket), Len(s2c') <= ChanCap
  PROVE  SidesInv'
  <1>1. SessionInv' /\ request' = request
    BY ServerSideStep
  <1>2. /\ c2s' \in Seq(BlockPacket) /\ Len(c2s') <= ChanCap
        /\ wrqs' \in 0 .. Reopens
    BY ClientChannel DEF SidesInv, ClientTurn
  <1>3. NetworkTypes'
    BY <1>2 DEF NetworkTypes
  <1> QED BY <1>1, <1>3 DEF SidesInv, ClientTurn

\* The client's steps.
LEMMA ClientRunsSides ==
  ASSUME SidesInv, NEW i \in Arriving(s2c), PutReceives(s2c[i]),
         NEW rest \in Remaining(s2c, i), s2c' = rest, ClientSends, UNCHANGED sessionVars
  PROVE  SidesInv' /\ ClientTurn(s2c[i])
  <1>1. i \in 1 .. Len(s2c) /\ s2c[i] \in ReplyPacket
    BY ArrivingIsThere DEF SidesInv, NetworkTypes
  <1>2. ClientTurn(s2c[i])
    BY <1>1, PutReceivesStep DEF SidesInv
  <1>3. s2c' \in Seq(ReplyPacket) /\ Len(s2c') <= ChanCap
    BY <1>1, RemainsTyped DEF SidesInv, NetworkTypes
  <1> QED BY <1>2, <1>3, ClientSides

Stranger == Packet("STRANGER", 0, <<>>)
LEMMA ClientAloneSides ==
  ASSUME SidesInv, ClientTimesOut \/ ClientCrashes \/ StrangerReachesClient
  PROVE  SidesInv' /\ ClientTurn(Stranger)
  <1>1. ClientTurn(Stranger)
    <2>1. CASE ClientTimesOut \/ ClientCrashes
      BY <2>1, PutTimesOut DEF ClientTimesOut, ClientCrashes, SidesInv
    <2>2. CASE StrangerReachesClient
      <3>1. Stranger.op = "STRANGER" /\ PutReceives(Stranger)
        BY <2>2 DEF StrangerReachesClient, Stranger, Packet
      <3> QED BY <3>1, PutReceivesStep DEF SidesInv
    <2> QED BY <2>1, <2>2
  <1>2. ClientSends /\ UNCHANGED sessionVars /\ s2c' = s2c
    BY DEF ClientTimesOut, ClientCrashes, StrangerReachesClient
  <1> QED BY <1>1, <1>2, ClientSides DEF SidesInv, NetworkTypes

\* A step in which neither side moves.
LEMMA QuietSides ==
  ASSUME SidesInv, UNCHANGED putVars, NetworkTypes',
         TimerFires \/ SyscallFailure \/ UNCHANGED sessionVars
  PROVE  SidesInv' /\ SessionRests
  <1>1. SessionInv' /\ request' = request
    BY ServerSideStep
  <1>2. PutClientInv'
    BY ClientRests DEF SidesInv
  <1> QED BY <1>1, <1>2, TimerOrFailureRests DEF SidesInv

LEMMA NetworkQuiet ==
  ASSUME NetworkTypes,
         \/ ServerFails \/ KernelTimer \/ PutOver \/ UNCHANGED vars
         \/ AnotherSession \/ Lose
  PROVE  NetworkTypes'
  <1>1. wrqs \in 0 .. Reopens /\ Reopens \in Nat
    BY PutNetworkAssumption DEF NetworkTypes
  <1>2. CASE ServerFails \/ KernelTimer \/ PutOver \/ UNCHANGED vars
    BY <1>2 DEF NetworkTypes, ServerFails, KernelTimer, PutOver, vars, transferVars
  <1>3. CASE AnotherSession
    <2>1. wrqs > 0 /\ wrqs' = wrqs - 1 /\ UNCHANGED <<s2c, c2s>>
      BY <1>3 DEF AnotherSession
    <2> QED BY <1>1, <2>1 DEF NetworkTypes
  <1>4. CASE Lose
    <2>1. \/ s2c' \in Losing(s2c) /\ UNCHANGED <<c2s, wrqs>>
          \/ c2s' \in Losing(c2s) /\ UNCHANGED <<s2c, wrqs>>
          \/ wrqs > 0 /\ wrqs' = wrqs - 1 /\ UNCHANGED <<s2c, c2s>>
      BY <1>4 DEF Lose
    <2>2. CASE s2c' \in Losing(s2c) /\ UNCHANGED <<c2s, wrqs>>
      <3>1. PICK i \in 1 .. Len(s2c) : s2c' = RemoveAt(s2c, i)
        BY <2>2 DEF Losing
      <3>2. s2c' \in Seq(ReplyPacket) /\ Len(s2c') <= ChanCap
        BY <2>2, <3>1, RemainsTyped DEF NetworkTypes
      <3> QED BY <2>2, <3>2 DEF NetworkTypes
    <2>3. CASE c2s' \in Losing(c2s) /\ UNCHANGED <<s2c, wrqs>>
      <3>1. PICK i \in 1 .. Len(c2s) : c2s' = RemoveAt(c2s, i)
        BY <2>3 DEF Losing
      <3>2. c2s' \in Seq(BlockPacket) /\ Len(c2s') <= ChanCap
        BY <2>3, <3>1, RemainsTyped DEF NetworkTypes
      <3> QED BY <2>3, <3>2 DEF NetworkTypes
    <2>4. CASE wrqs > 0 /\ wrqs' = wrqs - 1 /\ UNCHANGED <<s2c, c2s>>
      BY <1>1, <2>4 DEF NetworkTypes
    <2> QED BY <2>1, <2>2, <2>3, <2>4
  <1> QED BY <1>2, <1>3, <1>4

\* The steps in which neither side sends.
Silent ==
  \/ ServerFails \/ KernelTimer \/ PutOver \/ UNCHANGED vars
  \/ AnotherSession \/ Lose

LEMMA SilentSides ==
  ASSUME SidesInv, Silent
  PROVE  SidesInv' /\ SessionRests /\ UNCHANGED putVars
  <1>1. UNCHANGED putVars
    BY DEF Silent, ServerFails, KernelTimer, PutOver, vars, AnotherSession, Lose
  <1>2. TimerFires \/ SyscallFailure \/ UNCHANGED sessionVars
    BY DEF Silent, ServerFails, KernelTimer, PutOver, vars, AnotherSession, Lose
  <1>3. NetworkTypes'
    BY NetworkQuiet DEF Silent, SidesInv
  <1> QED BY <1>1, <1>2, <1>3, QuietSides

\* Every step keeps what the two sides know of themselves.
LEMMA SidesStep ==
  ASSUME SidesInv, [PutNext]_vars
  PROVE  SidesInv'
  <1>1. CASE ServerRuns
    BY <1>1, ServerRunsSides
  <1>2. CASE ServerReceives
    <2>1. PICK i \in Arriving(c2s) :
            /\ PacketReceived(c2s[i]) \/ PacketDropped
            /\ \E rest \in Remaining(c2s, i) : c2s' = rest
            /\ ServerSends
            /\ UNCHANGED <<putVars, wrqs, clobbered, losses>>
      BY <1>2 DEF ServerReceives
    <2>2. PICK rest \in Remaining(c2s, i) : c2s' = rest
      BY <2>1
    <2> QED BY <2>1, <2>2, ServerReceivesSides
  <1>3. CASE ClientRuns
    <2>1. PICK i \in Arriving(s2c) :
            /\ PutReceives(s2c[i])
            /\ \E rest \in Remaining(s2c, i) : s2c' = rest
            /\ ClientSends
            /\ UNCHANGED <<sessionVars, disk, clobbered, losses>>
      BY <1>3 DEF ClientRuns
    <2>2. PICK rest \in Remaining(s2c, i) : s2c' = rest
      BY <2>1
    <2>3. UNCHANGED sessionVars
      BY <2>1
    <2> QED BY <2>1, <2>2, <2>3, ClientRunsSides
  <1>4. CASE ClientTimesOut \/ ClientCrashes \/ StrangerReachesClient
    BY <1>4, ClientAloneSides
  <1>5. CASE Silent
    BY <1>5, SilentSides
  <1> QED BY <1>1, <1>2, <1>3, <1>4, <1>5 DEF PutNext, Silent

LEMMA SidesInit ==
  ASSUME PutTransferInit
  PROVE  SidesInv
  <1>1. SessionInv
    BY InitInv DEF PutTransferInit
  <1>2. /\ p_options \in PutOptions /\ p_use = (p_options = "some") /\ p_len \in PutLens
        /\ p_status = "requesting" /\ p_begin = 1 /\ p_next = 1 /\ p_eof = FALSE
        /\ p_last_size = 0 /\ p_packet = [i \in 1 .. BlockSize |-> 0] /\ p_blocks = 0
        /\ p_retransmissions = 0 /\ p_unsupported = FALSE
    BY DEF PutTransferInit, PutInit
  <1>3. PutBlocks \in Nat \ {0}
    BY <1>2, PutAssumption, PutBlocksTyped
  <1>4. PutTypes
    <2>1. 1 \in Block /\ 0 \in 0 .. PutRetries + 1
      BY PutAssumption, BlockModAssumption DEF Block
    <2>2. p_packet \in [1 .. BlockSize -> Nat]
      BY <1>2
    <2>3. p_blocks \in 0 .. PutBlocks
      BY <1>2, <1>3
    <2> QED BY <1>2, <2>1, <2>2, <2>3 DEF PutTypes
  <1>5. PutReads
    BY <1>2, <1>3, FirstNumbers DEF PutReads
  <1>6. PutWaits
    BY <1>2 DEF PutWaits
  <1>7. NetworkTypes
    <2>1. s2c = <<>> /\ c2s = <<>> /\ wrqs = 0
      BY DEF PutTransferInit
    <2>2. s2c \in Seq(ReplyPacket) /\ Len(s2c) = 0 /\ c2s \in Seq(BlockPacket) /\ Len(c2s) = 0
      BY <2>1
    <2> QED BY <2>1, <2>2, NetworkAssumption, PutNetworkAssumption DEF NetworkTypes
  <1> QED BY <1>1, <1>4, <1>5, <1>6, <1>7 DEF SidesInv, PutClientInv, PutTransferInit

LEMMA SidesInvariant == PutSpec => []SidesInv
  <1>1. PutTransferInit => SidesInv
    BY SidesInit
  <1>2. SidesInv /\ [PutNext]_vars => SidesInv'
    BY SidesStep
  <1> QED BY <1>1, <1>2, PTL DEF PutSpec

\* Both sides keep the types of their fields, the counters their limits and the network
\* its bounds, for every file, modulus, retry limit and network: the retransmissions that
\* handle_put_request and send_file count exceed the limit at most by one.
THEOREM PutTypesHold == PutSpec => []PutTypeOK
  <1>1. SidesInv => PutTypeOK
    <2> SUFFICES ASSUME SidesInv PROVE PutTypeOK
      OBVIOUS
    <2>1. p_next \in Block /\ p_last_size \in 0 .. BlockSize
      BY PutTyped DEF SidesInv
    <2> QED BY <2>1 DEF SidesInv, SessionInv, PutClientInv, PutTypes, NetworkTypes, PutTypeOK
  <1> QED BY <1>1, SidesInvariant, PTL

\* The loop of send_file that resends the window has something to resend, and ends, in
\* every put of a file whose last block has not the greatest block number.
THEOREM ResendingEnds == PutSpec => []PutNeverHangs
  <1>1. SidesInv => PutNeverHangs
    <2> SUFFICES ASSUME SidesInv, ~LastNumberIsMaximal
                 PROVE  p_status # "hung" /\ ~(p_status = "sending" /\ p_begin = p_next)
      BY DEF PutNeverHangs
    <2>1. p_status # "hung"
      BY DEF SidesInv, PutClientInv, PutWaits
    <2>2. p_status = "sending" => p_begin # p_next
      BY ResentIsBlock DEF SidesInv
    <2> QED BY <2>1, <2>2
  <1> QED BY <1>1, SidesInvariant, PTL

-----------------------------------------------------------------------------
(* Numbered packets under way. *)

\* The packets of a range have different numbers, and no other packet is one of them.
Apart(packet, others, a, b) ==
  /\ \A m, n \in a .. b : packet[m] = packet[n] => m = n
  /\ \A m \in a .. b : packet[m] \notin others

LEMMA OldestTyped ==
  ASSUME NEW lo \in Nat
  PROVE  Oldest(lo) \in Nat /\ Oldest(lo) <= lo /\ (~Reorder => Oldest(lo) = lo)
  BY DEF Oldest

\* Numbers less than BlockMod apart are told apart.
LEMMA SameNumber ==
  ASSUME NEW a \in Nat, NEW b \in Nat, a <= b => b - a < BlockMod, b <= a => a - b < BlockMod,
         a % BlockMod = b % BlockMod
  PROVE  a = b
  <1>1. BlockMod \in Nat \ {0}
    BY BlockModAssumption
  <1>2. CASE a < b
    <2>1. b - a < BlockMod
      BY <1>2
    <2> QED BY <1>1, <1>2, <2>1, ModApart
  <1>3. CASE b < a
    <2>1. a - b < BlockMod
      BY <1>3
    <2> QED BY <1>1, <1>3, <2>1, ModApart
  <1> QED BY <1>2, <1>3

LEMMA AcksApart ==
  ASSUME NEW a \in Nat, NEW b \in Nat, b - a < BlockMod
  PROVE  Apart(AckNumber, Replies, a, b)
  <1>1. \A n \in Nat : AckNumber[n] = Ack(n % BlockMod)
    BY DEF AckNumber
  <1>2. BlockMod \in Nat
    BY BlockModAssumption
  <1>3. ASSUME NEW m \in a .. b, NEW n \in a .. b, AckNumber[m] = AckNumber[n]
        PROVE  m = n
    <2>1. m \in Nat /\ n \in Nat /\ Ack(m % BlockMod) = Ack(n % BlockMod)
      BY <1>1, <1>3
    <2>2. m % BlockMod = n % BlockMod
      BY <2>1 DEF Ack, Packet
    <2>3. (m <= n => n - m < BlockMod) /\ (n <= m => m - n < BlockMod)
      BY <1>2, <2>1
    <2> QED BY <2>1, <2>2, <2>3, SameNumber
  <1>4. ASSUME NEW m \in a .. b
        PROVE  AckNumber[m] \notin Replies
    <2>1. m \in Nat /\ AckNumber[m] = Ack(m % BlockMod)
      BY <1>1
    <2> QED BY <2>1 DEF Ack, Packet, Replies, Oack, Error
  <1> QED BY <1>3, <1>4, Zenon DEF Apart

LEMMA BlocksApart ==
  ASSUME NEW a \in Nat, NEW b \in Nat, b - a < BlockMod
  PROVE  Apart(DataNumber, {}, a, b)
  <1>1. \A n \in Nat : DataNumber[n] = Packet("DATA", n % BlockMod, PutBlock(n))
    BY DEF DataNumber
  <1>2. BlockMod \in Nat
    BY BlockModAssumption
  <1>3. ASSUME NEW m \in a .. b, NEW n \in a .. b, DataNumber[m] = DataNumber[n]
        PROVE  m = n
    <2>1. m \in Nat /\ n \in Nat /\ Packet("DATA", m % BlockMod, PutBlock(m))
                                    = Packet("DATA", n % BlockMod, PutBlock(n))
      BY <1>1, <1>3
    <2>2. m % BlockMod = n % BlockMod
      BY <2>1 DEF Packet
    <2>3. (m <= n => n - m < BlockMod) /\ (n <= m => m - n < BlockMod)
      BY <1>2, <2>1
    <2> QED BY <2>1, <2>2, <2>3, SameNumber
  <1> QED BY <1>3, Zenon DEF Apart

\* Sending the newest packet, or others, keeps them in order.
LEMMA SentUnderWay ==
  ASSUME NEW channel, NEW packet, NEW others, NEW lo \in Nat, NEW hi \in Nat, NEW hi2 \in Nat,
         lo <= hi, hi <= hi2, UnderWay(channel, packet, others, lo, hi),
         Apart(packet, others, Oldest(lo), hi2), NEW pkts \in Seq(others \cup {packet[hi2]})
  PROVE  UnderWay(Transmit(channel, pkts), packet, others, lo, hi2)
  <1> DEFINE old == others \cup { packet[n] : n \in Oldest(lo) .. hi }
             new == others \cup { packet[n] : n \in Oldest(lo) .. hi2 }
             c == Transmit(channel, pkts)
             len == Len(channel)
  <1>1. Oldest(lo) \in Nat /\ Oldest(lo) <= lo /\ (~Reorder => Oldest(lo) = lo)
    BY OldestTyped
  <1>2. old \subseteq new /\ packet[hi2] \in new /\ others \subseteq new
    <2>1. hi2 \in Oldest(lo) .. hi2 /\ \A n \in Oldest(lo) .. hi : n \in Oldest(lo) .. hi2
      BY <1>1
    <2> QED BY <2>1
  <1>3. channel \in Seq(old)
    BY DEF UnderWay, NumberedPackets
  <1> HIDE DEF old, new
  <1>4. channel \in Seq(new) /\ pkts \in Seq(new)
    <2>1. \A i \in 1 .. Len(channel) : channel[i] \in new
      BY <1>2, <1>3
    <2>2. \A i \in 1 .. Len(pkts) : pkts[i] \in new
      BY <1>2
    <2> QED BY <1>3, <2>1, <2>2, SeqOver
  <1>5. /\ c \in Seq(new)
        /\ \A i \in 1 .. Len(c) :
             \/ i \in 1 .. len /\ c[i] = channel[i]
             \/ i > len /\ i - len \in 1 .. Len(pkts) /\ c[i] = pkts[i - len]
    BY <1>4, ChannelGrows
  <1>6. len \in Nat /\ Len(c) \in Nat
    BY <1>4, <1>5
  <1> HIDE DEF c, len
  <1>7. ASSUME ~Reorder PROVE InOrderFrom(c, packet, lo, hi2)
    <2>1. Oldest(lo) = lo
      BY <1>1, <1>7
    <2>2. /\ \A m, n \in lo .. hi2 : packet[m] = packet[n] => m = n
          /\ \A m \in lo .. hi2 : packet[m] \notin others
      BY <2>1 DEF Apart
    <2>3. InOrderFrom(channel, packet, lo, hi)
      BY <1>7 DEF UnderWay, NumberedPackets
    <2> SUFFICES ASSUME NEW i \in 1 .. Len(c), NEW j \in 1 .. Len(c),
                        NEW m \in lo .. hi2, NEW n \in lo .. hi2,
                        i < j, c[i] = packet[m], c[j] = packet[n]
                 PROVE  m <= n
      BY DEF InOrderFrom
    <2>4. CASE j \in 1 .. len /\ c[j] = channel[j]
      <3>1. i \in 1 .. len /\ c[i] = channel[i]
        BY <1>5, <1>6, <2>4
      <3>2. ASSUME NEW x \in 1 .. len, NEW k \in lo .. hi2, channel[x] = packet[k]
            PROVE  k \in lo .. hi
        <4>1. channel[x] \in old
          BY <1>3 DEF len
        <4>2. PICK l \in lo .. hi : channel[x] = packet[l]
          BY <2>1, <2>2, <3>2, <4>1 DEF old
        <4>3. l \in lo .. hi2
          OBVIOUS
        <4>4. k = l
          BY <2>2, <3>2, <4>2, <4>3
        <4> QED BY <4>4
      <3>3. m \in lo .. hi /\ n \in lo .. hi
        BY <2>4, <3>1, <3>2
      <3> QED BY <2>3, <2>4, <3>1, <3>3, Zenon DEF InOrderFrom, len
    <2>5. CASE j - len \in 1 .. Len(pkts) /\ c[j] = pkts[j - len]
      <3>1. c[j] \in others \cup {packet[hi2]}
        BY <2>5
      <3>2. packet[n] = packet[hi2] /\ hi2 \in lo .. hi2
        BY <2>2, <3>1
      <3>3. n = hi2
        BY <2>2, <3>2
      <3> QED BY <3>3
    <2> QED BY <1>5, <2>4, <2>5
  <1> QED BY <1>5, <1>7 DEF UnderWay, NumberedPackets, c, new

\* Losing packets does.
LEMMA ThinnedUnderWay ==
  ASSUME NEW channel, NEW packet, NEW others, NEW lo \in Nat, NEW hi \in Nat,
         UnderWay(channel, packet, others, lo, hi), NEW x \in 1 .. Len(channel)
  PROVE  UnderWay(RemoveAt(channel, x), packet, others, lo, hi)
  <1> DEFINE S == others \cup { packet[n] : n \in Oldest(lo) .. hi }
             c == RemoveAt(channel, x)
             len == Len(channel)
  <1>1. channel \in Seq(S)
    BY DEF UnderWay, NumberedPackets
  <1> HIDE DEF S
  <1>2. /\ c \in Seq(S) /\ Len(c) = len - 1 /\ len \in Nat
        /\ \A j \in 1 .. Len(c) : c[j] = IF j < x THEN channel[j] ELSE channel[j + 1]
    BY <1>1, ChannelShrinks
  <1> HIDE DEF c
  <1>3. ASSUME ~Reorder PROVE InOrderFrom(c, packet, lo, hi)
    <2>1. InOrderFrom(channel, packet, lo, hi)
      BY <1>3 DEF UnderWay, NumberedPackets
    <2> SUFFICES ASSUME NEW i \in 1 .. Len(c), NEW j \in 1 .. Len(c),
                        NEW m \in lo .. hi, NEW n \in lo .. hi,
                        i < j, c[i] = packet[m], c[j] = packet[n]
                 PROVE  m <= n
      BY DEF InOrderFrom
    <2> DEFINE u == IF i < x THEN i ELSE i + 1
               v == IF j < x THEN j ELSE j + 1
    <2>2. u \in 1 .. len /\ v \in 1 .. len /\ u < v
      BY <1>2
    <2>3. c[i] = channel[u] /\ c[j] = channel[v]
      BY <1>2
    <2> HIDE DEF u, v
    <2> QED BY <2>1, <2>2, <2>3, Zenon DEF InOrderFrom, len
  <1> QED BY <1>2, <1>3 DEF UnderWay, NumberedPackets, c, S

LEMMA RemainsUnderWay ==
  ASSUME NEW channel, NEW packet, NEW others, NEW lo \in Nat, NEW hi \in Nat,
         UnderWay(channel, packet, others, lo, hi), NEW i \in 1 .. Len(channel),
         NEW rest \in Remaining(channel, i) \cup Losing(channel)
  PROVE  UnderWay(rest, packet, others, lo, hi)
  <1>1. rest = channel \/ \E j \in 1 .. Len(channel) : rest = RemoveAt(channel, j)
    BY DEF Remaining, Losing
  <1> QED BY <1>1, ThinnedUnderWay

\* Nothing older than a packet that arrived is behind it.
LEMMA TakenUnderWay ==
  ASSUME NEW channel, NEW packet, NEW others, NEW lo \in Nat, NEW hi \in Nat,
         UnderWay(channel, packet, others, lo, hi), Apart(packet, others, Oldest(lo), hi),
         NEW i \in Arriving(channel), NEW lo2 \in lo .. hi, channel[i] = packet[lo2]
  PROVE  UnderWay(channel, packet, others, lo2, hi)
  <1> DEFINE S == others \cup { packet[n] : n \in Oldest(lo) .. hi }
             T == others \cup { packet[n] : n \in Oldest(lo2) .. hi }
             len == Len(channel)
  <1>1. channel \in Seq(S)
    BY DEF UnderWay, NumberedPackets
  <1>2. i \in 1 .. len /\ (~Reorder => i = 1)
    BY <1>1, ArrivingIsThere
  <1>3. lo2 \in Nat /\ len \in Nat
    BY <1>1
  <1>4. CASE Reorder
    <2>1. Oldest(lo) = Oldest(lo2)
      BY <1>4 DEF Oldest
    <2> QED BY <1>4, <2>1 DEF UnderWay, NumberedPackets
  <1>5. CASE ~Reorder
    <2>1. Oldest(lo) = lo /\ Oldest(lo2) = lo2 /\ i = 1
      BY <1>2, <1>3, <1>5, OldestTyped
    <2>2. InOrderFrom(channel, packet, lo, hi)
      BY <1>5 DEF UnderWay, NumberedPackets
    <2>3. ASSUME NEW j \in 1 .. len PROVE channel[j] \in T
      <3>1. channel[j] \in S
        BY <1>1
      <3>2. CASE channel[j] \in others
        BY <3>2
      <3>3. CASE channel[j] \notin others
        <4>1. PICK n \in lo .. hi : channel[j] = packet[n]
          BY <2>1, <3>1, <3>3
        <4>2. lo2 <= n
          <5>1. CASE j = 1
            <6>1. packet[n] = packet[lo2]
              BY <2>1, <4>1, <5>1
            <6>2. n = lo2
              BY <2>1, <6>1 DEF Apart
            <6> QED BY <1>3, <6>2
          <5>2. CASE j # 1
            <6>1. 1 < j /\ 1 \in 1 .. len
              BY <1>3, <5>2
            <6> QED BY <2>1, <2>2, <4>1, <6>1, Zenon DEF InOrderFrom
          <5> QED BY <5>1, <5>2
        <4>3. n \in lo2 .. hi
          BY <1>3, <4>2
        <4> QED BY <2>1, <4>1, <4>3
      <3> QED BY <3>2, <3>3
    <2>4. channel \in Seq(T)
      <3> HIDE DEF S, T
      <3> QED BY <1>1, <2>3, SeqOver
    <2>5. InOrderFrom(channel, packet, lo2, hi)
      <3>1. \A n \in lo2 .. hi : n \in lo .. hi
        OBVIOUS
      <3> QED BY <2>2, <3>1, Zenon DEF InOrderFrom
    <2> QED BY <2>4, <2>5 DEF UnderWay, NumberedPackets
  <1> QED BY <1>4, <1>5

\* A packet that arrives and has the number of one in the range is that one.
LEMMA ArrivedIs ==
  ASSUME NEW channel, NEW packet, NEW others, NEW lo \in Nat, NEW hi \in Nat,
         UnderWay(channel, packet, others, lo, hi), NEW i \in Arriving(channel)
  PROVE  channel[i] \in NumberedPackets(packet, others, lo, hi)
  BY ArrivingIsThere DEF UnderWay

-----------------------------------------------------------------------------
(* The client's part of the exchange. *)

\* How far the client is: it waits for one block or has all acknowledged.
AckedFacts ==
  /\ AckedByClient \in Nat /\ AckedByClient <= p_blocks /\ p_blocks <= AckedByClient + 1
  /\ p_status = "sending" => p_blocks = AckedByClient + 1
  /\ p_begin = p_next => AckedByClient = p_blocks
  /\ p_status = "requesting" => p_begin = p_next /\ p_blocks = 0

LEMMA AckedKnown == SidesInv /\ ~LastNumberIsMaximal => AckedFacts
  <1> SUFFICES ASSUME SidesInv, ~LastNumberIsMaximal
               PROVE  AckedFacts
    OBVIOUS
  <1>1. /\ p_blocks \in Nat /\ p_next = (p_blocks + 1) % BlockMod /\ p_next \in Block
    BY PutTyped DEF SidesInv
  <1>2. PICK k \in Nat : k = p_blocks
    BY <1>1
  <1> DEFINE x == k % BlockMod
  <1>3. x \in Block /\ Dist(x, p_next) = 1 /\ Dist(p_next, p_next) = 0
    <2>1. x \in Block /\ Dist(x, p_next) = 1
      BY <1>1, <1>2, PutNumbers
    <2>2. Dist(p_next, p_next) = 0
      BY <1>1 DEF Dist, Minus, Block
    <2> QED BY <2>1, <2>2
  <1> HIDE DEF x
  <1>4. p_begin = p_next => AckedByClient = k
    BY <1>2, <1>3 DEF AckedByClient
  <1>5. p_begin = x => AckedByClient = k - 1
    BY <1>2, <1>3 DEF AckedByClient
  <1>6. PutWaits
    BY DEF SidesInv, PutClientInv
  <1>7. p_status = "requesting" => p_begin = p_next /\ k = 0
    <2>1. p_status = "requesting" => k = 0 /\ p_begin = 1
      BY <1>2, <1>6 DEF PutWaits
    <2>2. k = 0 => p_next = 1
      BY <1>1, <1>2, FirstNumbers
    <2> QED BY <2>1, <2>2
  <1>8. p_status = "sending" => k > 0 /\ p_begin = x
    BY <1>2, <1>6 DEF PutWaits, x
  <1>9. p_begin = p_next \/ (k > 0 /\ p_begin = x)
    <2>1. p_status \in {"requesting", "sending", "success", "failed", "crashed", "hung"}
      BY DEF SidesInv, PutClientInv, PutTypes
    <2>2. p_status # "hung" /\ (p_status = "success" => p_begin = p_next)
      BY <1>6 DEF PutWaits
    <2>3. p_status \in {"failed", "crashed"} => p_begin = p_next \/ (k > 0 /\ p_begin = x)
      BY <1>2, <1>6 DEF PutWaits, x
    <2> QED BY <1>7, <1>8, <2>1, <2>2, <2>3
  <1>10. AckedByClient \in Nat /\ AckedByClient <= k /\ k <= AckedByClient + 1
    BY <1>4, <1>5, <1>9
  <1>11. p_status = "sending" => k = AckedByClient + 1
    BY <1>5, <1>8
  <1> QED BY <1>2, <1>4, <1>7, <1>10, <1>11 DEF AckedFacts

\* Only while packets stay in order may the numbers of a put wrap.
LEMMA RangeFits ==
  ASSUME InSequence, p_len \in PutLens, NEW lo \in Nat, NEW hi \in Nat, hi <= PutBlocks,
         hi <= lo + 1
  PROVE  hi - Oldest(lo) < BlockMod /\ (Reorder => PutBlocks < BlockMod)
  <1>1. Reorder => PutBlocks < BlockMod
    BY DEF InSequence, PutBlocks
  <1>2. CASE Reorder
    <2>1. Oldest(lo) = 0
      BY <1>2 DEF Oldest
    <2>2. PutBlocks \in Nat /\ BlockMod \in Nat
      BY PutAssumption, PutBlocksTyped, BlockModAssumption
    <2> QED BY <1>1, <1>2, <2>1, <2>2
  <1>3. CASE ~Reorder
    BY <1>1, <1>3, BlockModAssumption DEF Oldest
  <1> QED BY <1>2, <1>3

\* The part of the state that a step of the client does not touch, and its numbers.
LEMMA PutState ==
  ASSUME SidesInv, PutInv, ~LastNumberIsMaximal
  PROVE  /\ p_len \in PutLens /\ p_len \in Nat /\ blocks \in Nat /\ p_blocks \in Nat
         /\ PutBlocks \in Nat \ {0} /\ p_blocks <= PutBlocks
         /\ AckedByClient \in Nat /\ AckedByClient <= blocks /\ blocks <= p_blocks
         /\ p_blocks <= AckedByClient + 1
  <1>1. p_len \in Nat /\ p_blocks \in Nat /\ p_blocks <= PutBlocks /\ PutBlocks \in Nat \ {0}
    BY PutTyped DEF SidesInv
  <1>2. p_len \in PutLens /\ blocks \in Nat
    BY Zenon DEF SidesInv, PutClientInv, PutTypes, SessionInv, TypeOK
  <1> QED BY <1>1, <1>2, AckedKnown DEF AckedFacts, PutInv, OneBlockAhead

\* What is under way to the session keeps its numbers.
LEMMA DataFixed ==
  ASSUME PutFrame
  PROVE  DataNumber' = DataNumber
  BY DEF PutFrame, DataNumber, PutBlock

\* The blocks the client has read and those it knows to be stored.
ClientProgress ==
  \/ p_blocks' = p_blocks /\ AckedByClient' = AckedByClient
     /\ (p_status' = p_status
         \/ (p_status \in {"requesting", "sending"} /\ p_status' \in {"failed", "crashed"}))
  \/ /\ p_status = "requesting" /\ p_status' = "sending"
     /\ p_blocks = 0 /\ p_blocks' = 1 /\ AckedByClient' = 0 /\ AckedByClient = 0
  \/ /\ p_status = "sending" /\ blocks = p_blocks /\ AckedByClient' = p_blocks
     /\ AckedByClient + 1 = p_blocks
     /\ \/ p_status' = "sending" /\ p_blocks' = p_blocks + 1
        \/ p_status' = "success" /\ p_blocks' = p_blocks /\ p_blocks = PutBlocks

\* An ACK of the block that was sent last acknowledges that block.
LEMMA AckIsOfBlock ==
  ASSUME InSequence, SidesInv, PutInv, ~LastNumberIsMaximal, NEW i \in Arriving(s2c),
         s2c[i] = Ack(p_blocks % BlockMod), p_status = "sending"
  PROVE  blocks = p_blocks /\ s2c[i] = AckNumber[p_blocks] /\ AckedByClient + 1 = p_blocks
         /\ Apart(AckNumber, Replies, Oldest(AckedByClient), blocks)
  <1>1. /\ p_len \in PutLens /\ blocks \in Nat /\ p_blocks \in Nat /\ p_blocks <= PutBlocks
        /\ AckedByClient \in Nat /\ AckedByClient <= blocks /\ blocks <= p_blocks
        /\ p_blocks = AckedByClient + 1 /\ PutBlocks \in Nat
    BY PutState, AckedKnown DEF AckedFacts
  <1>2. PICK lo \in Nat, hi \in Nat, k \in Nat :
          lo = AckedByClient /\ hi = blocks /\ k = p_blocks
    BY <1>1
  <1>3. lo <= hi /\ hi <= k /\ k = lo + 1 /\ k <= PutBlocks
    BY <1>1, <1>2
  <1>4. UnderWay(s2c, AckNumber, Replies, lo, hi)
    BY <1>2 DEF PutInv
  <1>5. s2c[i] \notin Replies
    BY DEF Ack, Packet, Replies, Oack, Error
  <1>6. PICK n \in Oldest(lo) .. hi : s2c[i] = AckNumber[n]
    <2>1. s2c[i] \in NumberedPackets(AckNumber, Replies, lo, hi)
      BY <1>4, ArrivedIs
    <2> QED BY <1>5, <2>1 DEF NumberedPackets
  <1>7. n \in Nat /\ n <= hi /\ Oldest(lo) <= n /\ Oldest(lo) \in Nat
    BY <1>6, OldestTyped
  <1>8. n % BlockMod = k % BlockMod
    <2>1. Ack(n % BlockMod) = Ack(k % BlockMod)
      BY <1>2, <1>6, <1>7 DEF AckNumber
    <2> QED BY <2>1 DEF Ack, Packet
  <1>9. k - Oldest(lo) < BlockMod /\ hi - Oldest(lo) < BlockMod
    <2>1. hi <= PutBlocks /\ hi <= lo + 1
      BY <1>1, <1>3
    <2> QED BY <1>1, <1>3, <2>1, RangeFits
  <1>10. n = k
    <2>1. BlockMod \in Nat \ {0}
      BY BlockModAssumption
    <2>2. n <= k => k - n < BlockMod
      BY <1>7, <1>9, <2>1
    <2>3. k <= n => n - k < BlockMod
      BY <1>3, <1>7, <2>1
    <2> QED BY <1>7, <1>8, <2>2, <2>3, SameNumber
  <1>11. Apart(AckNumber, Replies, Oldest(lo), hi)
    BY <1>7, <1>9, AcksApart
  <1> QED BY <1>2, <1>3, <1>6, <1>7, <1>10, <1>11

\* What a turn of the client's loop does.
LEMMA TurnProgresses ==
  ASSUME InSequence, SidesInv, PutInv, ~LastNumberIsMaximal, SidesInv', NEW p, ClientTurn(p),
         PutAdvances(p) => \E i \in Arriving(s2c) : p = s2c[i]
  PROVE  ClientProgress
  <1>1. /\ ~LastNumberIsMaximal' /\ PutBlocks' = PutBlocks /\ PutTurn(p)
    BY PutConstant DEF ClientTurn
  <1>2. p_blocks \in Nat
    BY PutState
  <1>3. /\ p_begin' = p_next' => AckedByClient' = p_blocks'
        /\ p_status' = "sending" => p_blocks' = AckedByClient' + 1
        /\ AckedByClient' \in Nat
    <2>1. AckedFacts'
      BY <1>1, AckedKnown, PTL
    <2> QED BY <2>1 DEF AckedFacts
  <1>4. /\ p_status = "requesting" => p_blocks = 0 /\ AckedByClient = 0
        /\ p_status = "sending" => p_blocks = AckedByClient + 1
    BY AckedKnown DEF AckedFacts
  <1>5. CASE PutStays
    BY <1>5, Zenon DEF PutStays, ClientProgress, AckedByClient
  <1>6. CASE PutStarts
    <2>1. p_status = "requesting" /\ p_status' = "sending" /\ p_blocks' = p_blocks + 1
      BY <1>6 DEF PutStarts, ReadsNext
    <2>2. p_blocks = 0 /\ AckedByClient = 0 /\ p_blocks' = 1
      BY <1>4, <2>1
    <2>3. AckedByClient' = 0
      <3>1. PICK a \in Nat : a = AckedByClient'
        BY <1>3
      <3>2. 1 = a + 1
        BY <1>3, <2>1, <2>2, <3>1
      <3>3. a = 0
        BY <3>2
      <3> QED BY <3>1, <3>3, Zenon
    <2> QED BY <2>1, <2>2, <2>3 DEF ClientProgress
  <1>7. CASE PutAdvances(p)
    <2>1. p_status = "sending" /\ p = Ack(p_blocks % BlockMod) /\ p_begin' = p_next
      BY <1>7 DEF PutAdvances
    <2>2. PICK i \in Arriving(s2c) : p = s2c[i]
      BY <1>7
    <2>3. blocks = p_blocks /\ AckedByClient + 1 = p_blocks
      BY <2>1, <2>2, AckIsOfBlock
    <2>4. CASE ReadsNext /\ p_status' = "sending"
      <3>1. p_blocks' = p_blocks + 1
        BY <2>4 DEF ReadsNext
      <3>2. AckedByClient' = p_blocks
        <4>1. PICK a \in Nat : a = AckedByClient'
          BY <1>3
        <4>2. p_blocks + 1 = a + 1
          BY <1>3, <2>4, <3>1, <4>1
        <4>3. a = p_blocks
          BY <1>2, <4>2
        <4> QED BY <4>1, <4>3
      <3> QED BY <2>1, <2>3, <2>4, <3>1, <3>2 DEF ClientProgress
    <2>5. CASE ReadsNothing /\ p_blocks = PutBlocks /\ p_status' = "success"
      <3>1. p_blocks' = p_blocks /\ p_next' = p_next
        BY <2>5 DEF ReadsNothing
      <3>2. AckedByClient' = p_blocks
        BY <1>3, <2>1, <3>1
      <3> QED BY <2>1, <2>3, <2>5, <3>1, <3>2 DEF ClientProgress
    <2> QED BY <1>7, <2>4, <2>5 DEF PutAdvances
  <1> QED BY <1>1, <1>5, <1>6, <1>7 DEF PutTurn

\* A sequence of at most one packet.
LEMMA Single ==
  ASSUME NEW x, NEW S, x \in S
  PROVE  <<>> \in Seq(S) /\ <<x>> \in Seq(S)
  OBVIOUS

\* What the client sends is the block it read last.
LEMMA TurnSends ==
  ASSUME SidesInv, NEW p, PutTurn(p), PutFrame
  PROVE  /\ p_blocks' \in Nat /\ p_blocks <= p_blocks'
         /\ (IF p_sent' = <<Wrq>> THEN <<>> ELSE p_sent')
              \in Seq({} \cup {DataNumber[p_blocks']})
  <1>1. p_blocks \in Nat
    BY PutTyped DEF SidesInv
  <1>2. \A n \in Nat : DataNumber[n] = NumberedBlock(n)
    BY DEF DataNumber, NumberedBlock
  <1>3. ASSUME ReadsNext
        PROVE  /\ p_blocks' \in Nat /\ p_blocks <= p_blocks'
               /\ p_sent' = <<DataNumber[p_blocks']>>
    <2>1. PICK k \in Nat : k = p_blocks + 1
      BY <1>1
    <2>2. p_blocks' = k /\ p_sent' = <<NumberedBlock(k)>>
      BY <1>3, <2>1 DEF ReadsNext, NumberedBlock
    <2> QED BY <1>1, <1>2, <2>1, <2>2
  <1>4. ASSUME ReadsNothing
        PROVE  p_blocks' = p_blocks /\ p_sent' = <<>>
    BY <1>4 DEF ReadsNothing
  <1>5. CASE PutStays
    <2>1. p_blocks' = p_blocks
          /\ p_sent' \in {<<>>, <<Wrq>>, <<NumberedBlock(p_blocks)>>}
      BY <1>5 DEF PutStays
    <2>2. NumberedBlock(p_blocks) = DataNumber[p_blocks']
      BY <1>1, <1>2, <2>1
    <2>3. ASSUME NEW x, x = DataNumber[p_blocks'], NEW q,
                 q = IF p_sent' = <<Wrq>> THEN <<>> ELSE p_sent'
          PROVE  q \in Seq({} \cup {x})
      <3>1. <<>> \in Seq({} \cup {x}) /\ <<x>> \in Seq({} \cup {x})
        BY Single
      <3>2. q = <<>> \/ q = <<x>>
        BY <2>1, <2>2, <2>3
      <3> QED BY <3>1, <3>2
    <2> QED BY <1>1, <2>1, <2>3
  <1>6. CASE ReadsNext
    BY <1>3, <1>6, Single
  <1>7. CASE ReadsNothing
    BY <1>1, <1>4, <1>7, Single
  <1> QED BY <1>5, <1>6, <1>7 DEF PutTurn, PutStarts, PutAdvances

\* What is under way to the session after a turn of the client.
LEMMA TurnDataUnderWay ==
  ASSUME InSequence, SidesInv, PutInv, ~LastNumberIsMaximal, SidesInv', NEW p, ClientTurn(p),
         ClientProgress, ClientSends, blocks' = blocks
  PROVE  UnderWay(c2s, DataNumber, {}, blocks, p_blocks)'
  <1>1. /\ p_len \in PutLens /\ blocks \in Nat /\ p_blocks \in Nat
        /\ PutBlocks \in Nat \ {0} /\ p_blocks <= PutBlocks
        /\ AckedByClient \in Nat /\ AckedByClient <= blocks /\ blocks <= p_blocks
        /\ p_blocks <= AckedByClient + 1
    BY PutState
  <1>2. PutFrame /\ PutTurn(p) /\ PutBlocks' = PutBlocks /\ p_blocks' \in 0 .. PutBlocks'
    BY PutConstant DEF ClientTurn, PutClientInv, PutTypes
  <1> DEFINE pkts == IF p_sent' = <<Wrq>> THEN <<>> ELSE p_sent'
  <1>3. /\ p_blocks' \in Nat /\ p_blocks <= p_blocks'
        /\ pkts \in Seq({} \cup {DataNumber[p_blocks']})
    BY <1>2, TurnSends
  <1>4. c2s' = Transmit(c2s, pkts)
    BY DEF ClientSends
  <1>5a. PICK lo \in Nat, hi \in Nat, hi2 \in Nat :
           lo = blocks /\ hi = p_blocks /\ hi2 = p_blocks'
    BY <1>1, <1>3
  <1>5b. PICK D, q, ch : D = DataNumber /\ q = pkts /\ ch = c2s
    OBVIOUS
  <1>5. lo = blocks /\ hi = p_blocks /\ hi2 = p_blocks'
        /\ D = DataNumber /\ q = pkts /\ ch = c2s
    BY <1>5a, <1>5b
  <1> HIDE DEF pkts
  <1>6. lo <= hi /\ hi <= hi2 /\ hi2 <= PutBlocks
    BY <1>1, <1>2, <1>3, <1>5
  <1>7. hi2 <= lo + 1
    BY <1>1, <1>5 DEF ClientProgress
  <1>8. hi2 - Oldest(lo) < BlockMod /\ Oldest(lo) \in Nat
    BY <1>1, <1>6, <1>7, RangeFits, OldestTyped
  <1>9. Apart(D, {}, Oldest(lo), hi2)
    BY <1>5, <1>8, BlocksApart
  <1>10. UnderWay(ch, D, {}, lo, hi)
    BY <1>5 DEF PutInv
  <1>11. q \in Seq({} \cup {D[hi2]})
    BY <1>3, <1>5
  <1>12. UnderWay(Transmit(ch, q), D, {}, lo, hi2)
    BY <1>6, <1>9, <1>10, <1>11, SentUnderWay
  <1>13. c2s' = Transmit(ch, q) /\ DataNumber' = D /\ blocks' = lo /\ p_blocks' = hi2
    BY <1>2, <1>4, <1>5, DataFixed
  <1>14. UnderWay(c2s', DataNumber', {}, blocks', p_blocks')
    BY <1>12, <1>13
  <1> QED BY <1>14

\* And to the client, which took a packet or not.
TakesReply(p) ==
  \/ s2c' = s2c /\ p = Stranger
  \/ \E i \in Arriving(s2c) : p = s2c[i] /\ s2c' \in Remaining(s2c, i)

LEMMA TurnAcksUnderWay ==
  ASSUME InSequence, SidesInv, PutInv, ~LastNumberIsMaximal, NEW p, PutTurn(p), TakesReply(p),
         ClientProgress, blocks' = blocks
  PROVE  UnderWay(s2c, AckNumber, Replies, AckedByClient, blocks)'
  <1>1. /\ blocks \in Nat /\ p_blocks \in Nat
        /\ AckedByClient \in Nat /\ AckedByClient <= blocks
    BY PutState
  <1>2a. PICK lo \in Nat, hi \in Nat : lo = AckedByClient /\ hi = blocks
    BY <1>1
  <1>2b. PICK A, ch, r : A = AckNumber /\ ch = s2c /\ r = s2c'
    OBVIOUS
  <1>2. lo = AckedByClient /\ hi = blocks /\ A = AckNumber /\ ch = s2c /\ r = s2c'
    BY <1>2a, <1>2b
  <1>3. UnderWay(ch, A, Replies, lo, hi)
    BY <1>2 DEF PutInv
  <1>4. ASSUME NEW lo2 \in Nat, UnderWay(ch, A, Replies, lo2, hi)
        PROVE  UnderWay(r, A, Replies, lo2, hi)
    <2>1. CASE r = ch
      BY <1>4, <2>1
    <2>2. CASE \E i \in Arriving(ch) : r \in Remaining(ch, i)
      <3>1. PICK i \in Arriving(ch) : r \in Remaining(ch, i)
        BY <2>2
      <3>2. ch \in Seq(NumberedPackets(A, Replies, lo2, hi))
        BY <1>4 DEF UnderWay
      <3>3. i \in 1 .. Len(ch)
        BY <3>2, ArrivingIsThere
      <3> QED BY <1>4, <3>1, <3>3, RemainsUnderWay
    <2> QED BY <1>2, <2>1, <2>2 DEF TakesReply
  <1>5. \E lo2 \in Nat : AckedByClient' = lo2 /\ UnderWay(ch, A, Replies, lo2, hi)
    <2>1. CASE AckedByClient' = AckedByClient
      BY <1>2, <1>3, <2>1
    <2>2. CASE AckedByClient' # AckedByClient
      <3>1. PutAdvances(p) /\ AckedByClient' = p_blocks
        <4>1. ~PutStays
          BY <2>2 DEF PutStays, AckedByClient
        <4>2. p_status = "sending" /\ AckedByClient' = p_blocks
          BY <2>2 DEF ClientProgress
        <4> QED BY <4>1, <4>2 DEF PutTurn, PutStarts
      <3>2. p = Ack(p_blocks % BlockMod) /\ p_status = "sending"
        BY <3>1 DEF PutAdvances
      <3>3. PICK i \in Arriving(s2c) : p = s2c[i]
        BY <3>2 DEF TakesReply, Stranger, Ack, Packet
      <3>4. /\ blocks = p_blocks /\ s2c[i] = AckNumber[p_blocks]
            /\ Apart(AckNumber, Replies, Oldest(AckedByClient), blocks)
        BY <3>2, <3>3, AckIsOfBlock
      <3>5. /\ i \in Arriving(ch) /\ ch[i] = A[hi] /\ hi \in lo .. hi
            /\ Apart(A, Replies, Oldest(lo), hi)
        BY <1>1, <1>2, <3>4
      <3>6. UnderWay(ch, A, Replies, hi, hi)
        BY <1>3, <3>5, TakenUnderWay
      <3> QED BY <1>2, <3>1, <3>4, <3>6
    <2> QED BY <2>1, <2>2
  <1>6. PICK lo2 \in Nat : AckedByClient' = lo2 /\ UnderWay(ch, A, Replies, lo2, hi)
    BY <1>5
  <1>7. UnderWay(r, A, Replies, lo2, hi)
    BY <1>4, <1>6
  <1>8. AckNumber' = A
    BY <1>2 DEF AckNumber
  <1>9. UnderWay(s2c', AckNumber', Replies', AckedByClient', blocks')
    BY <1>2, <1>6, <1>7, <1>8
  <1> QED BY <1>9

\* What the session stored does not change when it does not move.
LEMMA StoresStay ==
  ASSUME PutFrame, UNCHANGED sessionVars, PutStores
  PROVE  PutStores'
  <1>1. UNCHANGED <<request, fd, status, written, expected_sequence_number, blocks,
                    options_acknowledged, should_close, error_occurred>>
    BY DEF sessionVars, controlVars, windowVars, writeVars
  <1>2. /\ StoredBytes' = StoredBytes /\ PutBlocks' = PutBlocks
        /\ OptionsPending' = OptionsPending
    BY <1>1, PutConstant DEF StoredBytes, OptionsPending, valid_options_required, PutFrame
  <1>3. FilePrefix(StoredBytes)' = FilePrefix(StoredBytes)
    BY <1>2 DEF FilePrefix
  <1> QED BY <1>1, <1>2, <1>3, Zenon DEF PutStores

\* A step of the client.
LEMMA ClientStep ==
  ASSUME InSequence, SidesInv, PutInv, ~LastNumberIsMaximal, SidesInv', NEW p, ClientTurn(p),
         TakesReply(p), ClientSends, UNCHANGED sessionVars, UNCHANGED <<disk, clobbered>>
  PROVE  PutInv' /\ ClientProgress
  <1>1. PutFrame /\ PutTurn(p) /\ blocks' = blocks /\ written' = written
    BY DEF ClientTurn, sessionVars, windowVars, writeVars
  <1>2. PutAdvances(p) => \E i \in Arriving(s2c) : p = s2c[i]
    BY DEF TakesReply, PutAdvances, Stranger, Ack, Packet
  <1>3. ClientProgress
    BY <1>2, TurnProgresses
  <1>4. /\ UnderWay(c2s, DataNumber, {}, blocks, p_blocks)'
        /\ UnderWay(s2c, AckNumber, Replies, AckedByClient, blocks)'
    BY <1>1, <1>3, TurnDataUnderWay, TurnAcksUnderWay
  <1>5. PutStores' /\ DiskInv'
    BY <1>1, StoresStay DEF PutInv, DiskInv
  <1>6. OneBlockAhead'
    <2>1. /\ blocks \in Nat /\ p_blocks \in Nat /\ AckedByClient \in Nat
          /\ AckedByClient <= blocks /\ blocks <= p_blocks
      BY PutState
    <2>2. AckedByClient' <= blocks /\ blocks <= p_blocks'
      BY <1>3, <2>1 DEF ClientProgress
    <2> QED BY <1>1, <2>2 DEF OneBlockAhead
  <1> QED BY <1>3, <1>4, <1>5, <1>6 DEF PutInv

-----------------------------------------------------------------------------
(* The session's part of the exchange. *)

\* Writing at the end of a file appends.
LEMMA WriteAtEnd ==
  ASSUME NEW f \in Seq(Nat), NEW d \in Seq(Nat)
  PROVE  WriteAt(f, Len(f), d) = f \o d
  <1> DEFINE n == Len(f)
             m == Len(d)
             u == f \o d
             w == WriteAt(f, n, d)
  <1>1. n \in Nat /\ m \in Nat
    OBVIOUS
  <1>2. /\ u \in Seq(Nat) /\ Len(u) = n + m
        /\ \A i \in 1 .. n + m : u[i] = IF i <= n THEN f[i] ELSE d[i - n]
    BY ConcatProperties
  <1>3. w = [i \in 1 .. n + m |-> CASE i > n -> d[i - n]
                                     [] i <= n /\ i <= n -> f[i]
                                     [] OTHER -> 0]
    BY DEF WriteAt
  <1> HIDE DEF u, w
  <1>4. ASSUME NEW i \in 1 .. n + m PROVE w[i] = u[i]
    <2>1. i \in Nat
      BY <1>1
    <2>2. CASE i <= n
      <3>1. w[i] = f[i]
        BY <1>1, <1>3, <2>1, <2>2
      <3> QED BY <1>2, <2>2, <3>1
    <2>3. CASE i > n
      <3>1. w[i] = d[i - n]
        BY <1>1, <1>3, <2>3
      <3> QED BY <1>1, <1>2, <2>1, <2>3, <3>1
    <2> QED BY <1>1, <2>1, <2>2, <2>3
  <1>5. DOMAIN w = 1 .. n + m /\ w = [i \in 1 .. n + m |-> w[i]]
    BY <1>3
  <1>6. DOMAIN u = 1 .. n + m /\ u = [i \in 1 .. n + m |-> u[i]]
    <2>1. n + m \in Nat
      BY <1>1
    <2> HIDE DEF n, m
    <2> QED BY <1>2, <2>1
  <1>7. w = u
    BY <1>4, <1>5, <1>6
  <1> QED BY <1>7 DEF w, u

\* What was appended is what is behind the old end.
LEMMA AppendedPart ==
  ASSUME NEW f \in Seq(Nat), NEW d \in Seq(Nat)
  PROVE  SubSeq(f \o d, Len(f) + 1, Len(f \o d)) = d /\ Len(f \o d) = Len(f) + Len(d)
  <1> DEFINE n == Len(f)
             m == Len(d)
             u == f \o d
             s == SubSeq(u, n + 1, n + m)
  <1>1. n \in Nat /\ m \in Nat
    OBVIOUS
  <1>2. /\ u \in Seq(Nat) /\ Len(u) = n + m
        /\ \A i \in 1 .. n + m : u[i] = IF i <= n THEN f[i] ELSE d[i - n]
    BY ConcatProperties
  <1> HIDE DEF u
  <1>3. s \in Seq(Nat) /\ Len(s) = m /\ \A i \in 1 .. m : s[i] = u[n + i]
    BY <1>1, <1>2
  <1> HIDE DEF s
  <1>4. ASSUME NEW i \in 1 .. m PROVE s[i] = d[i]
    <2>1. n + i \in 1 .. n + m /\ ~(n + i <= n) /\ (n + i) - n = i
      BY <1>1
    <2> QED BY <1>2, <1>3, <2>1
  <1>5. s = d
    BY <1>3, <1>4, SeqEqual
  <1> QED BY <1>2, <1>5 DEF s, u

\* The session stores nothing when it does not receive a block.
LEMMA StoresKept ==
  ASSUME SidesInv, PutStores, UNCHANGED putVars, RingOfPut \/ SessionRests
  PROVE  PutStores' /\ UNCHANGED <<fd, blocks, written, expected_sequence_number>>
  <1>1. UNCHANGED <<request, fd, written, expected_sequence_number, blocks,
                    options_acknowledged>>
    BY DEF RingOfPut, SessionRests
  <1>2. p_len' = p_len
    BY DEF putVars
  <1>3. /\ StoredBytes' = StoredBytes /\ PutBlocks' = PutBlocks
        /\ OptionsPending' = OptionsPending
    BY <1>1, <1>2 DEF StoredBytes, PutBlocks, OptionsPending, valid_options_required
  <1>4. FilePrefix(StoredBytes)' = FilePrefix(StoredBytes)
    BY <1>3 DEF FilePrefix
  <1>5. CASE RingOfPut
    BY <1>1, <1>3, <1>4, <1>5, Zenon DEF PutStores, RingOfPut
  <1>6. CASE SessionRests
    <2>1. UNCHANGED <<should_close, error_occurred>> /\ status' \in {status, "error"}
      BY <1>6 DEF SessionRests
    <2> QED BY <1>1, <1>3, <1>4, <2>1 DEF PutStores
  <1> QED BY <1>1, <1>5, <1>6

LEMMA StoresAtStart ==
  ASSUME SidesInv, PutStores, UNCHANGED putVars, StartOfPut
  PROVE  /\ PutStores' /\ UNCHANGED <<blocks, written>>
         /\ blocks = 0 /\ written = <<>>
  <1>1. /\ status = "new" /\ status' # "new"
        /\ UNCHANGED <<request, written, expected_sequence_number, blocks,
                       options_acknowledged>>
        /\ fd' = "zero" => should_close'
        /\ error_occurred' => fd' = "none"
    BY DEF StartOfPut
  <1>2. p_len' = p_len
    BY DEF putVars
  <1>3. blocks = 0 /\ p_len \in Nat /\ PutBlocks \in Nat \ {0}
    BY <1>1, PutTyped DEF PutStores, SidesInv
  <1>4. StoredBytes = 0 /\ StoredBytes' = 0 /\ PutBlocks' = PutBlocks
    <2>1. 0 * BlockSize = 0
      BY PacketAssumption
    <2> QED BY <1>1, <1>2, <1>3, <2>1 DEF StoredBytes, Least, PutBlocks
  <1>5. written = <<>>
    BY <1>4, EmptyPrefix DEF PutStores
  <1>6. written' = FilePrefix(StoredBytes')
    BY <1>1, <1>4, <1>5, EmptyPrefix
  <1>7. expected_sequence_number' = (blocks' + 1) % BlockMod
    BY <1>1 DEF PutStores
  <1>8. PutStores'
    BY <1>1, <1>3, <1>4, <1>6, <1>7 DEF PutStores
  <1> QED BY <1>1, <1>3, <1>5, <1>8

\* The block that is stored is the next.
LEMMA StoredIsNext ==
  ASSUME InSequence, SidesInv, PutInv, ~LastNumberIsMaximal, NEW i \in Arriving(c2s),
         DataOfPut(c2s[i]), PutStored(c2s[i])
  PROVE  /\ c2s[i] = DataNumber[blocks + 1] /\ c2s[i] = NumberedBlock(blocks + 1)
         /\ blocks + 1 <= p_blocks /\ blocks + 1 \in 1 .. PutBlocks /\ fd = "file"
         /\ Apart(DataNumber, {}, Oldest(blocks), p_blocks)
  <1>1. /\ p_len \in PutLens /\ p_len \in Nat /\ blocks \in Nat /\ p_blocks \in Nat
        /\ PutBlocks \in Nat \ {0} /\ p_blocks <= PutBlocks
        /\ AckedByClient \in Nat /\ AckedByClient <= blocks /\ blocks <= p_blocks
        /\ p_blocks <= AckedByClient + 1
    BY PutState
  <1>2. PICK b \in Nat, pb \in Nat, last \in Nat :
           b = blocks /\ pb = p_blocks /\ last = PutBlocks
    BY <1>1
  <1>3. b <= pb /\ pb <= b + 1 /\ pb <= last
    BY <1>1, <1>2
  <1>4. status = "idle" /\ ~should_close /\ fd # "none" /\ DataExpected(c2s[i].block)
    BY DEF DataOfPut, PutStored
  <1>5. b # last /\ fd # "zero"
    BY <1>2, <1>4 DEF PutInv, PutStores
  <1>6. fd = "file"
    BY <1>4, <1>5 DEF SidesInv, SessionInv, TypeOK
  <1>7. c2s[i].block = (b + 1) % BlockMod
    <2>1. expected_sequence_number = (b + 1) % BlockMod /\ (OptionsPending => b = 0)
      BY <1>2 DEF PutInv, PutStores
    <2> QED BY <1>4, <2>1, FirstNumbers DEF DataExpected
  <1>8. UnderWay(c2s, DataNumber, {}, b, pb)
    BY <1>2 DEF PutInv
  <1>9. PICK n \in Oldest(b) .. pb : c2s[i] = DataNumber[n]
    <2>1. c2s[i] \in NumberedPackets(DataNumber, {}, b, pb)
      BY <1>8, ArrivedIs
    <2> QED BY <2>1 DEF NumberedPackets
  <1>10. n \in Nat /\ n <= pb /\ Oldest(b) <= n /\ Oldest(b) \in Nat
    BY <1>9, OldestTyped
  <1>11. n % BlockMod = (b + 1) % BlockMod
    <2>1. c2s[i] = Packet("DATA", n % BlockMod, PutBlock(n))
      BY <1>9, <1>10 DEF DataNumber
    <2> QED BY <1>7, <2>1 DEF Packet
  <1>12. b + 1 <= last /\ b + 1 \in Nat
    BY <1>3, <1>5
  <1>13. pb - Oldest(b) < BlockMod /\ (b + 1) - Oldest(b) < BlockMod
    BY <1>1, <1>2, <1>3, <1>12, RangeFits
  <1>14. n = b + 1
    <2>1. BlockMod \in Nat \ {0}
      BY BlockModAssumption
    <2>2. n <= b + 1 => (b + 1) - n < BlockMod
      BY <1>10, <1>13, <2>1
    <2>3. b + 1 <= n => n - (b + 1) < BlockMod
      BY <1>3, <1>10, <2>1
    <2> QED BY <1>10, <1>11, <1>12, <2>2, <2>3, SameNumber
  <1>15. Apart(DataNumber, {}, Oldest(b), pb)
    BY <1>10, <1>13, BlocksApart
  <1>16. c2s[i] = DataNumber[b + 1] /\ b + 1 <= pb
    BY <1>9, <1>10, <1>14
  <1>17. DataNumber[b + 1] = NumberedBlock(b + 1)
    BY <1>12 DEF DataNumber, NumberedBlock
  <1> QED BY <1>2, <1>6, <1>12, <1>15, <1>16, <1>17

\* Storing the next block.
LEMMA StoresNext ==
  ASSUME SidesInv, PutInv, UNCHANGED putVars, NEW p, DataOfPut(p), PutStored(p),
         p = NumberedBlock(blocks + 1), blocks + 1 \in 1 .. PutBlocks, fd = "file"
  PROVE  /\ PutStores' /\ fd' = fd /\ blocks' = blocks + 1 /\ blocks \in Nat
         /\ written \in Seq(Nat) /\ p.data \in Seq(Nat) /\ written' = written \o p.data
  <1>1. /\ UNCHANGED <<request, fd>> /\ status = "idle" /\ ~should_close /\ status' # "new"
        /\ options_acknowledged' = (options_acknowledged \/ (OptionsPending /\ p.block = 1))
        /\ expected_sequence_number' = Succ(expected_sequence_number)
        /\ blocks' = blocks + 1 /\ should_close' = (Len(p.data) < BlockSize)
        /\ error_occurred' = error_occurred /\ written' = written \o p.data
    BY DEF DataOfPut, PutStored
  <1>2. p_len \in Nat /\ PutBlocks \in Nat \ {0} /\ p_len' = p_len
    BY PutTyped DEF SidesInv, putVars
  <1>3. blocks \in Nat /\ status \in {"new", "idle", "closed", "error", "hung"}
    BY Zenon DEF SidesInv, SessionInv, TypeOK
  <1>4. PutStores
    BY DEF PutInv
  <1>5. PICK b \in Nat : b = blocks
    BY <1>3
  <1> DEFINE k == b + 1
             c == b * BlockSize
             d == PutBlock(k)
  <1>6. k \in 1 .. PutBlocks /\ k \in Nat /\ k - 1 = b
    BY <1>5
  <1>7. /\ (k - 1) * BlockSize \in 0 .. p_len
        /\ k * BlockSize = (k - 1) * BlockSize + BlockSize
        /\ d \in Seq(Nat) /\ Len(d) = Least(BlockSize, p_len - (k - 1) * BlockSize)
        /\ \A i \in 1 .. Len(d) : d[i] = (k - 1) * BlockSize + i
        /\ Len(d) < BlockSize <=> k = PutBlocks
    BY <1>2, <1>6, PutBlockBytes
  <1>8. /\ c \in 0 .. p_len /\ k * BlockSize = c + BlockSize
        /\ Len(d) = Least(BlockSize, p_len - c) /\ \A i \in 1 .. Len(d) : d[i] = c + i
    BY <1>6, <1>7
  <1>9. p.data = d /\ p.block = k % BlockMod
    BY <1>5 DEF NumberedBlock, Packet
  <1>10. StoredBytes = Least(c, p_len) /\ StoredBytes' = Least(k * BlockSize, p_len)
    BY <1>1, <1>2, <1>5 DEF StoredBytes
  <1> HIDE DEF c
  <1> HIDE DEF d
  <1>11. StoredBytes = c /\ StoredBytes' = c + Len(d) /\ c \in Nat
    <2>1. BlockSize \in Nat
      BY PacketAssumption
    <2>2. Least(c, p_len) = c /\ Least(c + BlockSize, p_len) = c + Least(BlockSize, p_len - c)
      BY <1>2, <1>8, <2>1 DEF Least
    <2> QED BY <1>2, <1>8, <1>10, <2>2
  <1>12. written = FilePrefix(c)
    BY <1>4, <1>11 DEF PutStores
  <1>13. written \o d = FilePrefix(c + Len(d))
    BY <1>7, <1>8, <1>11, <1>12, PrefixGrows
  <1>14. written' = FilePrefix(StoredBytes')
    BY <1>1, <1>9, <1>11, <1>13
  <1>15. expected_sequence_number' = (blocks' + 1) % BlockMod
    <2>1. expected_sequence_number = k % BlockMod
      BY <1>4, <1>5 DEF PutStores
    <2>2. blocks' = k /\ Succ(k % BlockMod) = (k + 1) % BlockMod
      BY <1>1, <1>5, <1>6, NextNumber
    <2> QED BY <1>1, <2>1, <2>2
  <1>16. ~OptionsPending'
    <2>1. CASE OptionsPending
      <3>1. b = 0
        BY <1>4, <1>5, <2>1 DEF PutStores
      <3>2. p.block = 1
        BY <1>9, <3>1, FirstNumbers
      <3> QED BY <1>1, <2>1, <3>2 DEF OptionsPending
    <2>2. CASE ~OptionsPending
      <3>1. valid_options_required' = valid_options_required
        BY <1>1 DEF valid_options_required
      <3>2. ~valid_options_required \/ options_acknowledged
        BY <2>2 DEF OptionsPending
      <3> QED BY <1>1, <3>1, <3>2, Zenon DEF OptionsPending
    <2> QED BY <2>1, <2>2
  <1>17. blocks' = PutBlocks' => should_close'
    <2>1. PutBlocks' = PutBlocks /\ blocks' = k
      BY <1>1, <1>2, <1>5 DEF PutBlocks
    <2> QED BY <1>1, <1>7, <1>9, <2>1
  <1>18. ~error_occurred
    BY <1>1, <1>4 DEF PutStores
  <1>19. PutStores'
    BY <1>1, <1>14, <1>15, <1>16, <1>17, <1>18 DEF PutStores
  <1>20. written \in Seq(Nat)
    BY <1>11, <1>12, PrefixIsSequence
  <1> QED BY <1>1, <1>3, <1>7, <1>9, <1>19, <1>20

\* A sequence of at most one answer.
LEMMA OneAnswer ==
  ASSUME NEW x, NEW s, s \in {<<>>, <<Oack>>, <<Error>>, <<x>>}
  PROVE  s \in Seq(Replies \cup {x})
  <1>1. Oack \in Replies \cup {x} /\ Error \in Replies \cup {x} /\ x \in Replies \cup {x}
    BY DEF Replies
  <1>2. /\ <<>> \in Seq(Replies \cup {x}) /\ <<Oack>> \in Seq(Replies \cup {x})
        /\ <<Error>> \in Seq(Replies \cup {x}) /\ <<x>> \in Seq(Replies \cup {x})
    BY <1>1, Single
  <1> QED BY <1>2

\* What the session acknowledges is the block it stored last.
LEMMA AnswersUnderWay ==
  ASSUME InSequence, SidesInv, PutInv, ~LastNumberIsMaximal, UNCHANGED putVars, ServerSends,
         blocks' \in Nat, blocks <= blocks', blocks' <= p_blocks,
         sent' \in {<<>>, <<Oack>>, <<Error>>, <<Ack(blocks' % BlockMod)>>}
  PROVE  UnderWay(s2c, AckNumber, Replies, AckedByClient, blocks)'
  <1>1. /\ p_len \in PutLens /\ blocks \in Nat /\ p_blocks \in Nat
        /\ PutBlocks \in Nat /\ p_blocks <= PutBlocks
        /\ AckedByClient \in Nat /\ AckedByClient <= blocks /\ p_blocks <= AckedByClient + 1
    BY PutState
  <1>2a. PICK lo \in Nat, hi \in Nat, hi2 \in Nat :
           lo = AckedByClient /\ hi = blocks /\ hi2 = blocks'
    BY <1>1
  <1>2b. PICK A, q, ch : A = AckNumber /\ q = sent' /\ ch = s2c
    OBVIOUS
  <1>2. lo = AckedByClient /\ hi = blocks /\ hi2 = blocks'
        /\ A = AckNumber /\ q = sent' /\ ch = s2c
    BY <1>2a, <1>2b
  <1>3. lo <= hi /\ hi <= hi2 /\ hi2 <= PutBlocks /\ hi2 <= lo + 1
    BY <1>1, <1>2
  <1>4. hi2 - Oldest(lo) < BlockMod /\ Oldest(lo) \in Nat
    BY <1>1, <1>3, RangeFits, OldestTyped
  <1>5. Apart(A, Replies, Oldest(lo), hi2)
    BY <1>2, <1>4, AcksApart
  <1>6. UnderWay(ch, A, Replies, lo, hi)
    BY <1>2 DEF PutInv
  <1>7. q \in Seq(Replies \cup {A[hi2]})
    <2>1. A[hi2] = Ack(hi2 % BlockMod)
      BY <1>2 DEF AckNumber
    <2>2. q \in {<<>>, <<Oack>>, <<Error>>, <<A[hi2]>>}
      BY <1>2, <2>1
    <2> QED BY <2>2, OneAnswer
  <1>8. UnderWay(Transmit(ch, q), A, Replies, lo, hi2)
    BY <1>3, <1>5, <1>6, <1>7, SentUnderWay
  <1>9. s2c' = Transmit(ch, q) /\ AckNumber' = A /\ AckedByClient' = lo /\ Replies' = Replies
    BY <1>2 DEF ServerSends, AckNumber, AckedByClient, putVars, Replies
  <1>10. UnderWay(s2c', AckNumber', Replies', AckedByClient', blocks')
    BY <1>2, <1>8, <1>9
  <1> QED BY <1>10

\* What is under way to the session while the client does nothing, with or without the
\* packet that arrived.
LEMMA DataStaysUnderWay ==
  ASSUME SidesInv, PutInv, ~LastNumberIsMaximal, UNCHANGED putVars, NEW lo \in Nat,
         lo = blocks', UnderWay(c2s, DataNumber, {}, lo, p_blocks),
         \/ c2s' = c2s
         \/ \E i \in 1 .. Len(c2s) : c2s' \in Remaining(c2s, i) \cup Losing(c2s)
  PROVE  UnderWay(c2s, DataNumber, {}, blocks, p_blocks)'
  <1>1. p_blocks \in Nat
    BY PutState
  <1>2a. PICK hi \in Nat : hi = p_blocks
    BY <1>1
  <1>2b. PICK D, ch, r : D = DataNumber /\ ch = c2s /\ r = c2s'
    OBVIOUS
  <1>2. hi = p_blocks /\ D = DataNumber /\ ch = c2s /\ r = c2s'
    BY <1>2a, <1>2b
  <1>3. UnderWay(ch, D, {}, lo, hi)
    BY <1>2
  <1>4. UnderWay(r, D, {}, lo, hi)
    <2>1. CASE r = ch
      BY <1>3, <2>1
    <2>2. CASE \E i \in 1 .. Len(ch) : r \in Remaining(ch, i) \cup Losing(ch)
      BY <1>3, <2>2, RemainsUnderWay
    <2> QED BY <1>2, <2>1, <2>2
  <1>5. DataNumber' = D /\ p_blocks' = hi
    BY <1>2 DEF DataNumber, PutBlock, putVars
  <1>6. UnderWay(c2s', DataNumber', {}, blocks', p_blocks')
    BY <1>2, <1>4, <1>5
  <1> QED BY <1>6

\* The file of a session that stores nothing.
LEMMA DiskKept ==
  ASSUME SidesInv, PutInv, ~LastNumberIsMaximal, SessionStores, UNCHANGED clobbered,
         written' = written, fd' = fd \/ written = <<>>
  PROVE  DiskInv'
  <1>1. Len(written) \in Nat
    <2>1. p_len \in Nat /\ blocks \in Nat /\ BlockSize \in Nat
      BY PutState, PacketAssumption
    <2> DEFINE c == blocks * BlockSize
    <2>2. c \in Nat
      BY <2>1
    <2>3. StoredBytes = Least(c, p_len)
      BY DEF StoredBytes
    <2> HIDE DEF c
    <2>4. StoredBytes \in Nat
      BY <2>1, <2>2, <2>3 DEF Least
    <2> QED BY <2>4, PrefixIsSequence DEF PutInv, PutStores
  <1>2. ~(Len(written') > Len(written))
    BY <1>1
  <1>3. disk' = disk \/ (disk' = <<>> /\ written = <<>>)
    <2>1. CASE fd = "zero" /\ fd' = "file"
      BY <2>1 DEF SessionStores
    <2>2. CASE ~(fd = "zero" /\ fd' = "file")
      BY <1>2, <2>2, Zenon DEF SessionStores
    <2> QED BY <2>1, <2>2
  <1> QED BY <1>3 DEF PutInv, DiskInv

\* What the session has stored, and whether it has given up.
ReceiverFailed == error_occurred \/ Terminal
ServerProgress ==
  \/ UNCHANGED <<blocks, written>> /\ (ReceiverFailed => ReceiverFailed')
  \/ /\ blocks' = blocks + 1 /\ blocks < PutBlocks
     /\ ~ReceiverFailed /\ (blocks' # PutBlocks => ~ReceiverFailed')

\* A step of the session that stores nothing.
LEMMA NoBlockStored ==
  ASSUME InSequence, SidesInv, PutInv, ~LastNumberIsMaximal, UNCHANGED putVars, PutStores',
         UNCHANGED <<blocks, written>>, fd' = fd \/ written = <<>>, ServerSends,
         UNCHANGED clobbered,
         sent' \in {<<>>, <<Oack>>, <<Error>>, <<Ack(blocks % BlockMod)>>},
         c2s' = c2s \/ \E i \in 1 .. Len(c2s) : c2s' \in Remaining(c2s, i)
  PROVE  PutInv'
  <1>1. blocks \in Nat /\ blocks <= p_blocks /\ blocks <= blocks
    BY PutState
  <1>2. UnderWay(s2c, AckNumber, Replies, AckedByClient, blocks)'
    BY <1>1, AnswersUnderWay
  <1>3. UnderWay(c2s, DataNumber, {}, blocks, p_blocks)'
    BY <1>1, DataStaysUnderWay DEF PutInv
  <1>4. DiskInv'
    BY DiskKept DEF ServerSends
  <1>5. OneBlockAhead'
    BY DEF PutInv, OneBlockAhead, AckedByClient, putVars
  <1> QED BY <1>2, <1>3, <1>4, <1>5 DEF PutInv

\* The ACK the session resends is that of the block it stored last.
LEMMA ResentIsAck ==
  ASSUME SidesInv, PutInv, ~LastNumberIsMaximal, RingOfPut
  PROVE  sent' \in {<<>>, <<Oack>>, <<Error>>, <<Ack(blocks % BlockMod)>>}
  <1>1. blocks \in Nat /\ expected_sequence_number = (blocks + 1) % BlockMod
    BY PutState DEF PutInv, PutStores
  <1>2. Pred(expected_sequence_number) = blocks % BlockMod
    BY <1>1, PutNumbers
  <1> QED BY <1>2 DEF RingOfPut

LEMMA RingKeepsFailure ==
  ASSUME RingOfPut \/ SessionRests
  PROVE  ReceiverFailed => ReceiverFailed'
  <1>1. CASE RingOfPut
    BY <1>1 DEF RingOfPut, ReceiverFailed, Terminal
  <1>2. CASE SessionRests
    BY <1>2 DEF SessionRests, ReceiverFailed, Terminal
  <1> QED BY <1>1, <1>2

\* The session starts, or handles a completion that brings no packet.
LEMMA ServerRunsStep ==
  ASSUME InSequence, SidesInv, PutInv, ~LastNumberIsMaximal, ServerRuns
  PROVE  PutInv' /\ ServerProgress
  <1>1. StartOfPut \/ RingOfPut
    BY ServerRunsSides
  <1>2. UNCHANGED putVars /\ UNCHANGED <<c2s, clobbered>> /\ ServerSends /\ PutStores
    BY DEF ServerRuns, PutInv
  <1>3. CASE RingOfPut
    <2>1. PutStores' /\ UNCHANGED <<fd, blocks, written>>
      BY <1>2, <1>3, StoresKept
    <2> QED BY <1>2, <1>3, <2>1, NoBlockStored, ResentIsAck, RingKeepsFailure
            DEF ServerProgress
  <1>4. CASE StartOfPut
    <2>1. PutStores' /\ UNCHANGED <<blocks, written>> /\ blocks = 0 /\ written = <<>>
      BY <1>2, <1>4, StoresAtStart
    <2>2. sent' \in {<<>>, <<Oack>>, <<Error>>, <<Ack(blocks % BlockMod)>>}
      <3>1. 0 % BlockMod = 0
        BY FirstNumbers
      <3> QED BY <1>4, <2>1, <3>1 DEF StartOfPut
    <2>3. ~ReceiverFailed
      BY <1>2, <1>4 DEF StartOfPut, PutStores, ReceiverFailed, Terminal
    <2> QED BY <1>2, <2>1, <2>2, <2>3, NoBlockStored DEF ServerProgress
  <1> QED BY <1>1, <1>3, <1>4

\* The file after a block was appended to what the session had stored.
LEMMA DiskGrows ==
  ASSUME PutInv, SessionStores, UNCHANGED clobbered, fd = "file", fd' = fd,
         written \in Seq(Nat), NEW d \in Seq(Nat), written' = written \o d
  PROVE  DiskInv'
  <1> SUFFICES ASSUME ~clobbered' PROVE disk' = written'
    BY DEF DiskInv
  <1>1. disk = written
    BY DEF PutInv, DiskInv
  <1>2a. PICK f, g : f = written /\ g = written'
    OBVIOUS
  <1>2. f \in Seq(Nat) /\ disk = f /\ written = f /\ written' = g /\ g = f \o d
    BY <1>1, <1>2a
  <1>3. /\ SubSeq(g, Len(f) + 1, Len(g)) = d /\ Len(g) = Len(f) + Len(d)
        /\ Len(f) \in Nat /\ Len(d) \in Nat
    BY <1>2, AppendedPart
  <1>4. CASE Len(d) > 0
    <2>1. Len(written') > Len(written)
      BY <1>2, <1>3, <1>4
    <2>2. ~(fd = "zero" /\ fd' = "file")
      OBVIOUS
    <2>3. disk' = WriteAt(disk, Len(written),
                          SubSeq(written', Len(written) + 1, Len(written')))
      BY <2>1, <2>2, Zenon DEF SessionStores
    <2>4. disk' = WriteAt(f, Len(f), d)
      BY <1>2, <1>3, <2>3
    <2> QED BY <1>2, <2>4, WriteAtEnd
  <1>5. CASE Len(d) = 0
    <2>1. ~(Len(written') > Len(written))
      BY <1>2, <1>3, <1>5
    <2>2. disk' = disk
      BY <2>1, Zenon DEF SessionStores
    <2>3. f \o d = f
      <3>1. /\ g \in Seq(Nat) /\ Len(g) = Len(f)
            /\ \A j \in 1 .. Len(f) + Len(d) : g[j] = IF j <= Len(f) THEN f[j] ELSE d[j - Len(f)]
        BY <1>2, <1>3, <1>5, ConcatProperties
      <3>2. g = f
        BY <1>2, <1>3, <1>5, <3>1, SeqEqual
      <3> QED BY <1>2, <3>2
    <2> QED BY <1>2, <2>2, <2>3
  <1> QED BY <1>3, <1>4, <1>5

\* A block that is stored.
LEMMA BlockStored ==
  ASSUME InSequence, SidesInv, PutInv, ~LastNumberIsMaximal, UNCHANGED putVars, ServerSends,
         UNCHANGED clobbered, NEW i \in Arriving(c2s), c2s' \in Remaining(c2s, i),
         DataOfPut(c2s[i]), PutStored(c2s[i])
  PROVE  PutInv' /\ ServerProgress
  <1>1. /\ c2s[i] = DataNumber[blocks + 1] /\ c2s[i] = NumberedBlock(blocks + 1)
        /\ blocks + 1 <= p_blocks /\ blocks + 1 \in 1 .. PutBlocks /\ fd = "file"
        /\ Apart(DataNumber, {}, Oldest(blocks), p_blocks)
    BY StoredIsNext
  <1>2. /\ PutStores' /\ fd' = fd /\ blocks' = blocks + 1 /\ blocks \in Nat
        /\ written \in Seq(Nat) /\ c2s[i].data \in Seq(Nat)
        /\ written' = written \o c2s[i].data
    BY <1>1, StoresNext
  <1>3. DiskInv'
    BY <1>1, <1>2, DiskGrows DEF ServerSends
  <1>4. /\ p_blocks \in Nat /\ blocks <= p_blocks /\ p_len \in Nat /\ p_blocks <= PutBlocks
        /\ AckedByClient <= blocks /\ AckedByClient \in Nat /\ PutBlocks \in Nat
    BY PutState
  <1>5. i \in 1 .. Len(c2s)
    BY ArrivingIsThere DEF SidesInv, NetworkTypes
  <1>6. PICK b \in Nat, k \in Nat : b = blocks /\ k = blocks + 1
    BY <1>2
  <1>7. c2s[i].block = k % BlockMod /\ c2s[i].data = PutBlock(k)
    BY <1>1, <1>6 DEF NumberedBlock, Packet
  <1>8. UnderWay(s2c, AckNumber, Replies, AckedByClient, blocks)'
    <2>1. blocks' \in Nat /\ blocks <= blocks' /\ blocks' <= p_blocks
      BY <1>1, <1>2
    <2>2. sent' \in {<<>>, <<Oack>>, <<Error>>, <<Ack(blocks' % BlockMod)>>}
      <3>1. sent' = <<Ack(c2s[i].block)>>
        BY DEF PutStored
      <3> QED BY <1>2, <1>6, <1>7, <3>1
    <2> QED BY <2>1, <2>2, AnswersUnderWay
  <1>9. UnderWay(c2s, DataNumber, {}, blocks, p_blocks)'
    <2>1. UnderWay(c2s, DataNumber, {}, k, p_blocks)
      <3>1. PICK hi \in Nat : hi = p_blocks
        BY <1>4
      <3>2. UnderWay(c2s, DataNumber, {}, b, hi) /\ Apart(DataNumber, {}, Oldest(b), hi)
        BY <1>1, <1>6, <3>1 DEF PutInv
      <3>3. k \in b .. hi /\ c2s[i] = DataNumber[k]
        <4>1. k = b + 1
          BY <1>6
        <4>2. k <= hi /\ c2s[i] = DataNumber[k]
          BY <1>1, <1>6, <3>1
        <4> QED BY <4>1, <4>2
      <3>4. UnderWay(c2s, DataNumber, {}, k, hi)
        BY <3>2, <3>3, TakenUnderWay
      <3> QED BY <3>1, <3>4
    <2>2. k = blocks'
      BY <1>2, <1>6
    <2> QED BY <1>5, <2>1, <2>2, DataStaysUnderWay
  <1>10. OneBlockAhead'
    <2>1. AckedByClient' = AckedByClient /\ p_blocks' = p_blocks
      BY DEF AckedByClient, putVars
    <2>2. AckedByClient <= blocks + 1
      <3>1. PICK a \in Nat : a = AckedByClient
        BY <1>4
      <3>2. a <= b
        BY <1>4, <1>6, <3>1
      <3> QED BY <1>6, <3>1, <3>2
    <2> QED BY <1>1, <1>2, <2>1, <2>2 DEF OneBlockAhead
  <1>11. ServerProgress
    <2>1. /\ status = "idle" /\ ~should_close /\ should_close' = (Len(c2s[i].data) < BlockSize)
          /\ error_occurred' = error_occurred /\ (~should_close' => status' = "idle")
      BY DEF DataOfPut, PutStored
    <2>2. ~error_occurred
      BY <1>1, <2>1 DEF PutInv, PutStores
    <2>3. k \in 1 .. PutBlocks /\ blocks < PutBlocks
      BY <1>1, <1>4, <1>6
    <2>4. k # PutBlocks => ~(Len(PutBlock(k)) < BlockSize)
      BY <1>4, <2>3, PutBlockBytes
    <2>5. PutBlocks' = PutBlocks
      BY DEF PutBlocks, putVars
    <2> QED BY <1>2, <1>6, <1>7, <2>1, <2>2, <2>3, <2>4, <2>5
            DEF ServerProgress, ReceiverFailed, Terminal
  <1> QED BY <1>2, <1>3, <1>8, <1>9, <1>10 , <1>11 DEF PutInv

\* A packet arrives.
LEMMA ServerReceivesStep ==
  ASSUME InSequence, SidesInv, PutInv, ~LastNumberIsMaximal, ServerReceives
  PROVE  PutInv' /\ ServerProgress
  <1>1. PICK i \in Arriving(c2s) :
          /\ PacketReceived(c2s[i]) \/ PacketDropped
          /\ \E rest \in Remaining(c2s, i) : c2s' = rest
          /\ ServerSends
          /\ UNCHANGED <<putVars, wrqs, clobbered, losses>>
    BY DEF ServerReceives
  <1>2. /\ UNCHANGED putVars /\ UNCHANGED <<wrqs, clobbered>> /\ c2s' \in Remaining(c2s, i)
        /\ i \in 1 .. Len(c2s) /\ PutStores
    BY <1>1, ArrivingIsThere DEF SidesInv, NetworkTypes, PutInv
  <1>3. DataOfPut(c2s[i]) \/ RingOfPut
    BY <1>1, <1>2, ServerReceivesSides
  <1>4. CASE RingOfPut
    <2>1. PutStores' /\ UNCHANGED <<fd, blocks, written>>
      BY <1>2, <1>4, StoresKept
    <2> QED BY <1>1, <1>2, <1>4, <2>1, NoBlockStored, ResentIsAck, RingKeepsFailure
            DEF ServerProgress
  <1>5. CASE DataOfPut(c2s[i]) /\ PutStored(c2s[i])
    BY <1>1, <1>2, <1>5, BlockStored
  <1>6. CASE DataOfPut(c2s[i]) /\ ~PutStored(c2s[i])
    <2>1. /\ status = "idle" /\ ~should_close /\ UNCHANGED <<request, fd>>
          /\ PutIgnored \/ PutRefusedToWrite
      BY <1>6 DEF DataOfPut
    <2>2. /\ UNCHANGED <<written, expected_sequence_number, blocks, options_acknowledged,
                         should_close>>
          /\ sent' = <<>> /\ status' # "new"
          /\ error_occurred' => error_occurred \/ fd = "none"
      BY <2>1 DEF PutIgnored, PutRefusedToWrite
    <2>3. PutStores'
      <3>1. p_len' = p_len
        BY <1>2 DEF putVars
      <3>2. /\ StoredBytes' = StoredBytes /\ PutBlocks' = PutBlocks
            /\ OptionsPending' = OptionsPending
        BY <2>1, <2>2, <3>1
           DEF StoredBytes, PutBlocks, OptionsPending, valid_options_required
      <3>3. FilePrefix(StoredBytes)' = FilePrefix(StoredBytes)
        BY <3>2 DEF FilePrefix
      <3> QED BY <1>2, <2>1, <2>2, <3>2, <3>3, Zenon DEF PutStores
    <2>4. ReceiverFailed => ReceiverFailed'
      BY <2>1 DEF PutIgnored, PutRefusedToWrite, ReceiverFailed, Terminal
    <2> QED BY <1>1, <1>2, <2>1, <2>2, <2>3, <2>4, NoBlockStored DEF ServerProgress
  <1> QED BY <1>3, <1>4, <1>5, <1>6

\* A failure, a timer, another session or a loss.
LEMMA SilentStep ==
  ASSUME InSequence, SidesInv, PutInv, ~LastNumberIsMaximal, Silent
  PROVE  PutInv' /\ ServerProgress
  <1>1. SessionRests /\ UNCHANGED putVars /\ PutStores
    BY SilentSides DEF PutInv
  <1>2. PutStores' /\ UNCHANGED <<fd, blocks, written>> /\ (ReceiverFailed => ReceiverFailed')
    BY <1>1, StoresKept, RingKeepsFailure
  <1>3. DiskInv'
    <2>1. CASE AnotherSession
      BY <1>2, <2>1 DEF AnotherSession, PutInv, DiskInv
    <2>2. CASE ~AnotherSession
      BY <1>2, <2>2 DEF Silent, ServerFails, KernelTimer, PutOver, vars, transferVars, Lose,
         PutInv, DiskInv
    <2> QED BY <2>1, <2>2
  <1>4. /\ s2c' = s2c \/ s2c' \in Losing(s2c)
        /\ c2s' = c2s \/ c2s' \in Losing(c2s)
    BY DEF Silent, ServerFails, KernelTimer, PutOver, vars, transferVars, Lose, AnotherSession
  <1>5. blocks \in Nat /\ AckedByClient \in Nat /\ p_blocks \in Nat
    BY PutState
  <1>6. UnderWay(c2s, DataNumber, {}, blocks, p_blocks)'
    <2>1. c2s' = c2s \/ \E i \in 1 .. Len(c2s) : c2s' \in Remaining(c2s, i) \cup Losing(c2s)
      BY <1>4 DEF Losing
    <2> QED BY <1>1, <1>2, <1>5, <2>1, DataStaysUnderWay DEF PutInv
  <1>7. UnderWay(s2c, AckNumber, Replies, AckedByClient, blocks)'
    <2>1. PICK lo \in Nat, hi \in Nat : lo = AckedByClient /\ hi = blocks
      BY <1>5
    <2>2. PICK A, ch, r : A = AckNumber /\ ch = s2c /\ r = s2c'
      OBVIOUS
    <2>3. UnderWay(ch, A, Replies, lo, hi)
      BY <2>1, <2>2 DEF PutInv
    <2>4. UnderWay(r, A, Replies, lo, hi)
      <3>1. r = ch \/ \E i \in 1 .. Len(ch) : r \in Remaining(ch, i) \cup Losing(ch)
        BY <1>4, <2>2 DEF Losing
      <3> QED BY <2>3, <3>1, RemainsUnderWay
    <2>5. AckNumber' = A /\ AckedByClient' = lo /\ Replies' = Replies
      BY <1>1, <2>1, <2>2 DEF AckNumber, AckedByClient, putVars, Replies
    <2>6. UnderWay(s2c', AckNumber', Replies', AckedByClient', blocks')
      BY <1>2, <2>1, <2>2, <2>4, <2>5
    <2> QED BY <2>6
  <1>8. OneBlockAhead'
    BY <1>1, <1>2 DEF PutInv, OneBlockAhead, AckedByClient, putVars
  <1> QED BY <1>2, <1>3, <1>6, <1>7, <1>8 DEF PutInv, ServerProgress

-----------------------------------------------------------------------------
(* The whole exchange. *)

\* What either side does while the other does nothing.
PutMoves ==
  \/ UNCHANGED putVars /\ ServerProgress
  \/ UNCHANGED sessionVars /\ p_len' = p_len /\ ClientProgress

LEMMA PutStep ==
  ASSUME InSequence, SidesInv, PutInv, ~LastNumberIsMaximal, [PutNext]_vars
  PROVE  PutInv' /\ PutMoves
  <1>1. CASE ServerRuns
    BY <1>1, ServerRunsStep DEF ServerRuns, PutMoves
  <1>2. CASE ServerReceives
    <2>1. UNCHANGED putVars
      BY <1>2 DEF ServerReceives
    <2> QED BY <1>2, <2>1, ServerReceivesStep DEF PutMoves
  <1>3. CASE ClientRuns
    <2>1. PICK i \in Arriving(s2c) :
            /\ PutReceives(s2c[i])
            /\ \E rest \in Remaining(s2c, i) : s2c' = rest
            /\ ClientSends
            /\ UNCHANGED <<sessionVars, disk, clobbered, losses>>
      BY <1>3 DEF ClientRuns
    <2>2. PICK rest \in Remaining(s2c, i) : s2c' = rest
      BY <2>1
    <2>3. UNCHANGED sessionVars /\ UNCHANGED <<disk, clobbered>>
      BY <2>1
    <2>4. SidesInv' /\ ClientTurn(s2c[i])
      BY <2>1, <2>2, <2>3, ClientRunsSides
    <2>5. TakesReply(s2c[i])
      BY <2>2 DEF TakesReply
    <2>6. PutInv' /\ ClientProgress
      BY <2>1, <2>3, <2>4, <2>5, ClientStep
    <2>7. p_len' = p_len
      BY <2>4 DEF ClientTurn, PutFrame
    <2> QED BY <2>3, <2>6, <2>7 DEF PutMoves
  <1>4. CASE ClientTimesOut \/ ClientCrashes \/ StrangerReachesClient
    <2>1. ClientSends /\ UNCHANGED sessionVars /\ UNCHANGED <<s2c, disk, clobbered>>
      BY <1>4 DEF ClientTimesOut, ClientCrashes, StrangerReachesClient
    <2>2. SidesInv' /\ ClientTurn(Stranger)
      BY <1>4, ClientAloneSides
    <2>3. TakesReply(Stranger)
      BY <2>1 DEF TakesReply
    <2>4. PutInv' /\ ClientProgress
      BY <2>1, <2>2, <2>3, ClientStep
    <2>5. p_len' = p_len
      BY <2>2 DEF ClientTurn, PutFrame
    <2> QED BY <2>1, <2>4, <2>5 DEF PutMoves
  <1>5. CASE Silent
    BY <1>5, SilentSides, SilentStep DEF PutMoves
  <1> QED BY <1>1, <1>2, <1>3, <1>4, <1>5 DEF PutNext, Silent

\* Before the first packet.
LEMMA ExchangeBegins ==
  ASSUME PutTransferInit
  PROVE  PutInv
  <1>1. /\ p_begin = 1 /\ p_next = 1 /\ p_blocks = 0
        /\ status = "new" /\ fd = "zero" /\ expected_sequence_number = 1
        /\ written = <<>> /\ error_occurred = FALSE /\ blocks = 0
        /\ s2c = <<>> /\ c2s = <<>> /\ disk = <<>>
    BY DEF PutTransferInit, PutInit, SessionInit
  <1>2. p_len \in Nat
    BY SidesInit, PutTyped DEF SidesInv
  <1>3. AckedByClient = 0
    BY <1>1 DEF AckedByClient, Dist, Minus
  <1>4. StoredBytes = 0
    <2>1. 0 * BlockSize = 0
      BY PacketAssumption
    <2> QED BY <1>1, <1>2, <2>1 DEF StoredBytes, Least
  <1>5. PutStores
    BY <1>1, <1>4, EmptyPrefix, FirstNumbers DEF PutStores
  <1>6. ASSUME NEW packet, NEW others, NEW lo, NEW hi
        PROVE  UnderWay(<<>>, packet, others, lo, hi)
    <2>1. <<>> \in Seq(NumberedPackets(packet, others, lo, hi)) /\ 1 .. Len(<<>>) = {}
      OBVIOUS
    <2> QED BY <2>1 DEF UnderWay, InOrderFrom
  <1> QED BY <1>1, <1>3, <1>5, <1>6 DEF PutInv, OneBlockAhead, DiskInv

\* Whatever the file, unless its last block has the greatest number.
ExchangeInv == ~LastNumberIsMaximal => PutInv

LEMMA ExchangeStep ==
  ASSUME InSequence, SidesInv, ExchangeInv, [PutNext]_vars
  PROVE  ExchangeInv'
  <1>1. p_len' = p_len
    <2>1. CASE Silent \/ ServerRuns \/ ServerReceives
      <3>1. UNCHANGED putVars
        BY <2>1, SilentSides DEF ServerRuns, ServerReceives
      <3> QED BY <3>1 DEF putVars
    <2>2. CASE ClientRuns \/ ClientTimesOut \/ ClientCrashes \/ StrangerReachesClient
      <3>1. CASE ClientRuns
        <4>1. PICK i \in Arriving(s2c) :
                /\ PutReceives(s2c[i])
                /\ \E rest \in Remaining(s2c, i) : s2c' = rest
                /\ ClientSends
                /\ UNCHANGED <<sessionVars, disk, clobbered, losses>>
          BY <3>1 DEF ClientRuns
        <4>2. PICK rest \in Remaining(s2c, i) : s2c' = rest
          BY <4>1
        <4>3. ClientTurn(s2c[i])
          BY <4>1, <4>2, ClientRunsSides
        <4> QED BY <4>3 DEF ClientTurn, PutFrame
      <3>2. CASE ~ClientRuns
        BY <2>2, <3>2, ClientAloneSides DEF ClientTurn, PutFrame
      <3> QED BY <3>1, <3>2
    <2> QED BY <2>1, <2>2 DEF PutNext, Silent
  <1>2. LastNumberIsMaximal' = LastNumberIsMaximal
    BY <1>1 DEF LastNumberIsMaximal, PutBlocks
  <1> QED BY <1>2, PutStep DEF ExchangeInv

LEMMA ExchangeInvariant ==
  ASSUME InSequence
  PROVE  PutSpec => [](SidesInv /\ ExchangeInv)
  <1>1. PutTransferInit => SidesInv /\ ExchangeInv
    BY SidesInit, ExchangeBegins DEF ExchangeInv
  <1>2. SidesInv /\ ExchangeInv /\ [PutNext]_vars => (SidesInv /\ ExchangeInv)'
    BY SidesStep, ExchangeStep
  <1> QED BY <1>1, <1>2, PTL DEF PutSpec

\* The files whose last block has another number.
LEMMA ExchangeHolds ==
  ASSUME InSequence, LastNumbersFit
  PROVE  PutSpec => [](SidesInv /\ PutInv /\ ~LastNumberIsMaximal)
  <1>1. SidesInv /\ ExchangeInv => SidesInv /\ PutInv /\ ~LastNumberIsMaximal
    <2> SUFFICES ASSUME SidesInv, ExchangeInv
                 PROVE  PutInv /\ ~LastNumberIsMaximal
      OBVIOUS
    <2>1. p_len \in PutLens
      BY DEF SidesInv, PutClientInv, PutTypes
    <2>2. ~LastNumberIsMaximal
      BY <2>1 DEF LastNumbersFit, LastNumberIsMaximal, PutBlocks
    <2> QED BY <2>2 DEF ExchangeInv
  <1> QED BY <1>1, ExchangeInvariant, PTL

\* What is stored of the file; all of it after the last block.
LEMMA StoredTyped ==
  ASSUME SidesInv, PutInv, ~LastNumberIsMaximal
  PROVE  /\ StoredBytes \in Nat /\ StoredBytes <= p_len
         /\ blocks = PutBlocks => StoredBytes = p_len
  <1>1. p_len \in Nat /\ blocks \in Nat /\ BlockSize \in Nat /\ PutBlocks \in Nat \ {0}
    BY PutState, PacketAssumption
  <1> DEFINE c == blocks * BlockSize
  <1>2. c \in Nat
    BY <1>1
  <1>3. StoredBytes = Least(c, p_len)
    BY DEF StoredBytes
  <1>4. blocks = PutBlocks => c >= p_len
    <2>1. PICK k \in 1 .. PutBlocks : k = PutBlocks
      BY <1>1
    <2> DEFINE e == (k - 1) * BlockSize
               m == k * BlockSize
               d == PutBlock(k)
    <2>2. /\ e \in 0 .. p_len /\ m = e + BlockSize
          /\ Len(d) = Least(BlockSize, p_len - e) /\ (Len(d) < BlockSize <=> k = PutBlocks)
      BY <1>1, PutBlockBytes
    <2>3. blocks = PutBlocks => c = m
      BY <2>1
    <2> HIDE DEF e, m, d, c
    <2>4. Least(BlockSize, p_len - e) < BlockSize
      BY <2>1, <2>2
    <2>5. m >= p_len
      BY <1>1, <2>2, <2>4 DEF Least
    <2> QED BY <2>3, <2>5
  <1> HIDE DEF c
  <1> QED BY <1>1, <1>2, <1>3, <1>4 DEF Least

\* The file on the server is at all times a prefix of the client's: what on_packet_received
\* writes to it are the blocks in their order, each once.
THEOREM DiskPrefixHolds ==
  ASSUME InSequence, LastNumbersFit
  PROVE  PutSpec => []DiskIsPrefix
  <1>1. SidesInv /\ PutInv /\ ~LastNumberIsMaximal => DiskIsPrefix
    <2> SUFFICES ASSUME SidesInv, PutInv, ~LastNumberIsMaximal, ~clobbered
                 PROVE  disk = FilePrefix(Len(disk))
      BY DEF DiskIsPrefix
    <2>1. disk = FilePrefix(StoredBytes)
      BY DEF PutInv, PutStores, DiskInv
    <2> QED BY <2>1, StoredTyped, PrefixIsSequence
  <1> QED BY <1>1, ExchangeHolds, PTL

\* send_file reports success only after the session has written every block: an ACK that
\* is late or was delivered twice is never taken for that of the last block.
THEOREM SuccessStored ==
  ASSUME InSequence, LastNumbersFit
  PROVE  PutSpec => []PutSuccessIsStored
  <1>1. SidesInv /\ PutInv /\ ~LastNumberIsMaximal => PutSuccessIsStored
    <2> SUFFICES ASSUME SidesInv, PutInv, ~LastNumberIsMaximal, p_status = "success"
                 PROVE  written = FilePrefix(p_len)
                        /\ (clobbered \/ disk = FilePrefix(p_len))
      BY DEF PutSuccessIsStored
    <2>1. p_blocks = PutBlocks /\ p_begin = p_next
      BY DEF SidesInv, PutClientInv, PutWaits
    <2>2. AckedByClient = PutBlocks
      BY <2>1, AckedKnown DEF AckedFacts
    <2>3. blocks = PutBlocks
      BY <2>1, <2>2, PutState
    <2> QED BY <2>3, StoredTyped DEF PutInv, PutStores, DiskInv
  <1> QED BY <1>1, ExchangeHolds, PTL

-----------------------------------------------------------------------------
(* A put implements a reliable transfer. *)

\* A prefix of a prefix.
LEMMA PrefixOfPut ==
  ASSUME NEW len \in Nat, NEW n \in 0 .. len
  PROVE  SubSeq(FilePrefix(len), 1, n) = FilePrefix(n)
  <1> DEFINE s == FilePrefix(len)
  <1>1. n \in Nat /\ n <= len
    OBVIOUS
  <1>2. s \in Seq(Nat) /\ Len(s) = len /\ \A i \in 1 .. len : s[i] = i
    BY PrefixIsSequence
  <1> HIDE DEF s
  <1>3. /\ DOMAIN SubSeq(s, 1, n) = 1 .. n
        /\ SubSeq(s, 1, n) = [i \in 1 .. n |-> SubSeq(s, 1, n)[i]]
        /\ \A i \in 1 .. n : SubSeq(s, 1, n)[i] = i
    BY <1>1, <1>2
  <1> QED BY <1>3 DEF FilePrefix, s

\* The abstract transfer has the blocks of the client's file.
LEMMA BlocksOfTransfer ==
  ASSUME p_len \in Nat
  PROVE  Transfer!Blocks = PutBlocks
  BY PrefixIsSequence DEF Transfer!Blocks, PutBlocks

LEMMA UpToOfTransfer ==
  ASSUME p_len \in Nat, NEW k \in Nat
  PROVE  /\ Transfer!UpTo(k) = FilePrefix(Least(k * BlockSize, p_len))
         /\ Len(Transfer!UpTo(k)) = Least(k * BlockSize, p_len)
  <1> DEFINE c == k * BlockSize
             n == IF c <= p_len THEN c ELSE p_len
  <1>1. c \in Nat /\ Len(FilePrefix(p_len)) = p_len
    BY PacketAssumption, PrefixIsSequence
  <1>2. Transfer!UpTo(k) = SubSeq(FilePrefix(p_len), 1, n)
    BY <1>1 DEF Transfer!UpTo
  <1>3. n = Least(c, p_len)
    BY DEF Least
  <1> HIDE DEF c
  <1>4. n \in 0 .. p_len /\ n \in Nat
    BY <1>1
  <1> HIDE DEF n
  <1>5. Transfer!UpTo(k) = FilePrefix(n) /\ Len(FilePrefix(n)) = n
    BY <1>2, <1>4, PrefixOfPut, PrefixIsSequence
  <1> QED BY <1>3, <1>5 DEF c

\* What the abstract transfer sees of either side.
LEMMA OutcomesOfPut ==
  /\ p_status \in {"requesting", "sending"} => ClientOutcome = "running"
  /\ p_status = "success" => ClientOutcome = "ok"
  /\ p_status \in {"failed", "crashed"} => ClientOutcome = "failed"
  /\ blocks = PutBlocks => SessionOutcome = "ok"
  /\ blocks # PutBlocks /\ ReceiverFailed => SessionOutcome = "failed"
  /\ blocks # PutBlocks /\ ~ReceiverFailed => SessionOutcome = "running"
  BY DEF ClientOutcome, SessionOutcome, ReceiverFailed

LEMMA NextOutcomesOfPut ==
  /\ p_status' \in {"requesting", "sending"} => ClientOutcome' = "running"
  /\ p_status' = "success" => ClientOutcome' = "ok"
  /\ p_status' \in {"failed", "crashed"} => ClientOutcome' = "failed"
  /\ blocks' = PutBlocks' => SessionOutcome' = "ok"
  /\ blocks' # PutBlocks' /\ ReceiverFailed' => SessionOutcome' = "failed"
  /\ blocks' # PutBlocks' /\ ~ReceiverFailed' => SessionOutcome' = "running"
  BY DEF ClientOutcome, SessionOutcome, ReceiverFailed

\* A step of the session stores a block, gives up or shows nothing.
LEMMA ServerMaps ==
  ASSUME SidesInv, PutInv, ~LastNumberIsMaximal, PutInv', UNCHANGED putVars, ServerProgress
  PROVE  [Transfer!Next]_(Transfer!transferVars)
  <1>1. /\ ClientOutcome' = ClientOutcome /\ AckedByClient' = AckedByClient
        /\ p_len' = p_len /\ PutBlocks' = PutBlocks
        /\ FilePrefix(p_len)' = FilePrefix(p_len)
    BY DEF putVars, ClientOutcome, AckedByClient, PutBlocks, FilePrefix
  <1>2. /\ p_len \in Nat /\ blocks \in Nat /\ PutBlocks \in Nat /\ blocks <= PutBlocks
        /\ Transfer!Blocks = PutBlocks
    BY PutState, BlocksOfTransfer
  <1>3. /\ written = FilePrefix(StoredBytes) /\ written' = FilePrefix(StoredBytes')
        /\ StoredBytes \in Nat /\ StoredBytes <= p_len
    BY StoredTyped DEF PutInv, PutStores
  <1>4. CASE UNCHANGED <<blocks, written>> /\ SessionOutcome' = SessionOutcome
    BY <1>1, <1>4 DEF Transfer!transferVars
  <1>5. CASE /\ UNCHANGED <<blocks, written>> /\ (ReceiverFailed => ReceiverFailed')
             /\ SessionOutcome' # SessionOutcome
    <2>1. SessionOutcome = "running" /\ SessionOutcome' = "failed"
      BY <1>1, <1>5, OutcomesOfPut, NextOutcomesOfPut
    <2>2. StoredBytes \in Len(written) .. Len(Transfer!UpTo(blocks + 1))
      <3> DEFINE c == blocks * BlockSize
                 d == (blocks + 1) * BlockSize
                 m == Len(Transfer!UpTo(blocks + 1))
      <3>1. c \in Nat /\ d = c + BlockSize /\ BlockSize \in Nat
        BY <1>2, PacketAssumption
      <3>2. m = Least(d, p_len) /\ StoredBytes = Least(c, p_len)
        BY <1>2, UpToOfTransfer DEF StoredBytes
      <3>3. Len(written) = StoredBytes
        BY <1>3, PrefixIsSequence
      <3> HIDE DEF c, d, m
      <3>4. StoredBytes <= m /\ m \in Nat
        BY <1>2, <3>1, <3>2 DEF Least
      <3> QED BY <1>3, <3>3, <3>4 DEF m
    <2>3. written' = SubSeq(FilePrefix(p_len), 1, StoredBytes)
      BY <1>2, <1>3, <1>5, PrefixOfPut
    <2>4. Transfer!ReceiverFails
      BY <1>1, <1>5, <2>1, <2>2, <2>3 DEF Transfer!ReceiverFails
    <2> QED BY <2>4 DEF Transfer!Next
  <1>6. CASE /\ blocks' = blocks + 1 /\ blocks < PutBlocks
             /\ ~ReceiverFailed /\ (blocks' # PutBlocks => ~ReceiverFailed')
    <2>1. SessionOutcome = "running"
      BY <1>2, <1>6, OutcomesOfPut
    <2>2. SessionOutcome' \in IF blocks' = Transfer!Blocks THEN {"ok", "failed"}
                              ELSE {"running"}
      BY <1>1, <1>2, <1>6, NextOutcomesOfPut
    <2>3. written' = Transfer!UpTo(blocks')
      <3>1. StoredBytes' = Least(blocks' * BlockSize, p_len)
        BY <1>1 DEF StoredBytes
      <3>2. blocks' \in Nat
        BY <1>2, <1>6
      <3> QED BY <1>2, <1>3, <3>1, <3>2, UpToOfTransfer
    <2>4. Transfer!Receive
      BY <1>1, <1>2, <1>6, <2>1, <2>2, <2>3 DEF Transfer!Receive
    <2> QED BY <2>4 DEF Transfer!Next
  <1> QED BY <1>4, <1>5, <1>6 DEF ServerProgress

\* A step of the client takes a block for stored, gives up or shows nothing.
LEMMA PutClientMaps ==
  ASSUME SidesInv, PutInv, ~LastNumberIsMaximal, UNCHANGED sessionVars, p_len' = p_len,
         ClientProgress
  PROVE  [Transfer!Next]_(Transfer!transferVars)
  <1>1. /\ blocks' = blocks /\ written' = written /\ FilePrefix(p_len)' = FilePrefix(p_len)
        /\ SessionOutcome' = SessionOutcome
    BY DEF sessionVars, controlVars, windowVars, writeVars, SessionOutcome, PutBlocks,
           Terminal, FilePrefix
  <1>2. /\ p_len \in Nat /\ blocks \in Nat /\ AckedByClient \in Nat
        /\ AckedByClient <= blocks /\ Transfer!Blocks = PutBlocks
    BY PutState, BlocksOfTransfer
  <1>3. CASE AckedByClient' = AckedByClient /\ ClientOutcome' = ClientOutcome
    BY <1>1, <1>3 DEF Transfer!transferVars
  <1>4. CASE /\ AckedByClient' = AckedByClient
             /\ p_status \in {"requesting", "sending"} /\ p_status' \in {"failed", "crashed"}
    <2>1. ClientOutcome = "running" /\ ClientOutcome' = "failed"
      BY <1>4, OutcomesOfPut, NextOutcomesOfPut
    <2>2. Transfer!SenderFails
      BY <1>1, <1>4, <2>1 DEF Transfer!SenderFails
    <2> QED BY <2>2 DEF Transfer!Next
  <1>5. CASE /\ p_status = "sending" /\ blocks = p_blocks /\ AckedByClient' = p_blocks
             /\ \/ p_status' = "sending"
                \/ p_status' = "success" /\ p_blocks = PutBlocks
    <2>1. ClientOutcome = "running"
          /\ ClientOutcome' \in {"running"}
                \cup (IF AckedByClient' = Transfer!Blocks THEN {"ok"} ELSE {})
      BY <1>2, <1>5, OutcomesOfPut, NextOutcomesOfPut
    <2>2. AckedByClient' \in AckedByClient .. blocks
      <3>1. PICK a \in Nat, b \in Nat : a = AckedByClient /\ b = blocks
        BY <1>2
      <3>2. b \in a .. b
        BY <1>2, <3>1
      <3>3. AckedByClient' = b
        BY <1>5, <3>1
      <3> QED BY <3>1, <3>2, <3>3
    <2>3. Transfer!Confirm
      BY <1>1, <2>1, <2>2 DEF Transfer!Confirm
    <2> QED BY <2>3 DEF Transfer!Next
  <1>6. \/ AckedByClient' = AckedByClient
           /\ (p_status' = p_status
               \/ (p_status = "requesting" /\ p_status' = "sending")
               \/ (p_status \in {"requesting", "sending"} /\ p_status' \in {"failed", "crashed"}))
        \/ /\ p_status = "sending" /\ blocks = p_blocks /\ AckedByClient' = p_blocks
           /\ \/ p_status' = "sending"
              \/ p_status' = "success" /\ p_blocks = PutBlocks
    BY DEF ClientProgress
  <1>7. p_status' = p_status \/ (p_status = "requesting" /\ p_status' = "sending")
          => ClientOutcome' = ClientOutcome
    BY DEF ClientOutcome
  <1> QED BY <1>3, <1>4, <1>5, <1>6, <1>7

\* A put that has not begun.
LEMMA TransferOfPutBegins ==
  ASSUME PutTransferInit
  PROVE  Transfer!Init
  <1>1. /\ p_status = "requesting" /\ p_begin = 1 /\ p_next = 1 /\ p_blocks = 0
        /\ status = "new" /\ written = <<>> /\ error_occurred = FALSE /\ blocks = 0
    BY DEF PutTransferInit, PutInit, SessionInit
  <1>2. PutBlocks \in Nat \ {0}
    BY SidesInit, PutTyped DEF SidesInv
  <1>3. AckedByClient = 0
    BY <1>1 DEF AckedByClient, Dist, Minus
  <1>4. ClientOutcome = "running" /\ SessionOutcome = "running"
    BY <1>1, <1>2, OutcomesOfPut DEF ReceiverFailed, Terminal
  <1> QED BY <1>1, <1>3, <1>4 DEF Transfer!Init

\* The whole exchange is a reliable transfer: the session stores the file block by block
\* and nothing else, the client takes a block for delivered only after the session has
\* stored it and never takes that back, and neither is wrong about success.
THEOREM PutImplementsTransfer ==
  ASSUME InSequence, LastNumbersFit
  PROVE  PutSpec => PutIsReliable
  <1>1. PutTransferInit => Transfer!Init
    BY TransferOfPutBegins
  <1> DEFINE Inv == SidesInv /\ PutInv /\ ~LastNumberIsMaximal
  <1>2. Inv /\ Inv' /\ [PutNext]_vars => [Transfer!Next]_(Transfer!transferVars)
    <2> SUFFICES ASSUME Inv, Inv', [PutNext]_vars
                 PROVE  [Transfer!Next]_(Transfer!transferVars)
      OBVIOUS
    <2>1. PutMoves
      BY PutStep
    <2> QED BY <2>1, ServerMaps, PutClientMaps DEF PutMoves
  <1>3. PutSpec => []Inv
    BY ExchangeHolds
  <1> HIDE DEF Inv
  <1> QED
    BY <1>1, <1>2, <1>3, PTL DEF PutSpec, PutIsReliable, Transfer!Spec
=============================================================================
