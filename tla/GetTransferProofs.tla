-------------------------- MODULE GetTransferProofs -------------------------
(***************************************************************************)
(* A get is safe, for every file, window, modulus and network that keeps   *)
(* packets in order, whatever it loses and delivers twice: the client's    *)
(* file is a prefix of the server's, neither side reports a success that   *)
(* is none, and the session sees no packet that the model of its clients   *)
(* in ServerSession leaves out, so that everything proved there holds of   *)
(* the session of a get.  The whole exchange implements ReliableTransfer.  *)
(*                                                                         *)
(* The invariant says what may be under way: blocks less than a window     *)
(* behind what arrives before them, and ACKs that never fall back.  From   *)
(* that the wrapped numbers of both directions are unambiguous.            *)
(***************************************************************************)
EXTENDS GetTransfer, SessionTransferProofs

-----------------------------------------------------------------------------
(* The assumptions, and the invariant. *)

\* Packets stay in order, and so do the ACKs that reach the session; the model of the
\* clients in ServerSession reaches back a window; and the buffers of a window are told
\* apart by the block number, because the window divides the number of block numbers or
\* because the file ends before the numbers wrap.
InOrder ==
  /\ Fifo /\ ~Reorder
  /\ \A r \in Requests :
       /\ 1 <= MaxAge
       /\ r.options => /\ r.window <= MaxAge
                       /\ BlockMod % r.window = 0 \/ LastBlock < BlockMod

\* What the session sends when b blocks are sent; o: it negotiates options.
ServerPackets(b, o) ==
  {Error} \cup { p \in {Oack} : o } \cup { DataPacket(k) : k \in 1 .. b }

\* What the client sends: ACKs of the blocks lo .. hi, 0 only in answer to an OACK.
AckNumbers(lo, hi, o) == { m \in lo .. hi : m >= 1 \/ o }
GetPackets(lo, hi, o) ==
  {Error, Rrq} \cup { Ack(m % BlockMod) : m \in AckNumbers(lo, hi, o) }

\* No packet under way is a window or more behind one that arrives before it, or behind
\* the a blocks accepted already.
InWindow(channel, w, a, b) ==
  /\ \A i \in 1 .. Len(channel), k \in 1 .. b : channel[i] = DataPacket(k) => a < k + w
  /\ \A i, j \in 1 .. Len(channel), k, l \in 1 .. b :
       i < j /\ channel[i] = DataPacket(k) /\ channel[j] = DataPacket(l) => k < l + w

\* ACKs under way never fall back.
AcksRise(channel, lo, hi) ==
  \A i, j \in 1 .. Len(channel), m, n \in lo .. hi :
    i < j /\ channel[i] = Ack(m % BlockMod) /\ channel[j] = Ack(n % BlockMod) => m <= n

DataUnderWay ==
  /\ s2c \in Seq(ServerPackets(blocks, valid_options_required))
  /\ Len(s2c) <= ChanCap
  /\ InWindow(s2c, window_size, c_blocks, blocks)

AcksUnderWay ==
  /\ c2s \in Seq(GetPackets(AckedBlocks, c_blocks, valid_options_required))
  /\ Len(c2s) <= ChanCap
  /\ AcksRise(c2s, AckedBlocks, c_blocks)

\* The client's types.
ClientTypes ==
  /\ c_options \in ClientOptionSet /\ c_tsize \in 0 .. FileLen
  /\ c_status \in {"receiving", "success", "failed"}
  /\ is_first_receive \in BOOLEAN /\ server_may_not_support_options \in BOOLEAN
  /\ c_expected_sequence_number \in Block
  /\ retransmissions \in 0 .. ClientRetries
  /\ c_blocks \in 0 .. LastBlock

\* What the client stored is made of the blocks it accepted, and perhaps a part of one
\* that it failed to write.
ClientStores ==
  /\ \E n \in 0 .. FileLen : c_file = FilePrefix(n)
  /\ c_status = "receiving" =>
       /\ c_expected_sequence_number = (c_blocks + 1) % BlockMod
       /\ c_blocks * BlockSize <= FileLen
       /\ c_file = FilePrefix(c_blocks * BlockSize)
  /\ c_status = "success" => c_blocks = LastBlock
  /\ c_blocks = LastBlock => c_file = FilePrefix(FileLen)

\* The packet it would send again is its request or the ACK of the last block.
ClientResends(o) ==
  \/ last_packet_sent = Rrq /\ c_blocks = 0
  \/ last_packet_sent = Ack(c_blocks % BlockMod) /\ (c_blocks = 0 => o)

\* Before it receives anything it has stored nothing.
FirstIsClean == is_first_receive => c_blocks = 0 /\ (c_status # "failed" => c_file = <<>>)

ClientFacts(o) ==
  ClientTypes /\ ClientStores /\ ClientResends(o) /\ FirstIsClean
  /\ UnsupportedMeansUntouched

\* Only an open file has a last block.
LastHasFile == last_packet # -1 => fd = "file"

\* A session is open only if it can read: not without a file, unless the read will fail.
CanFetch ==
  status = "idle" /\ request.type = "read" /\ request.valid =>
    request.mode = "octet" \/ (request.mode = "netascii" /\ fd = "file")

SessionFacts == SessionInv /\ ReadFacts /\ TransferFacts /\ LastHasFile /\ CanFetch

GetInv ==
  /\ request.type = "read" /\ request.valid
  /\ SessionFacts
  /\ ClientFacts(valid_options_required)
  /\ NeverAhead /\ DataUnderWay /\ AcksUnderWay

-----------------------------------------------------------------------------
(* Channels. *)

\* A sequence over one set whose elements are in another.
LEMMA SeqOver ==
  ASSUME NEW S, NEW T, NEW s \in Seq(S), \A i \in 1 .. Len(s) : s[i] \in T
  PROVE  s \in Seq(T)
  OBVIOUS

\* What is transmitted ends up behind what is under way, or is lost.
LEMMA ChannelGrows ==
  ASSUME NEW S, NEW channel \in Seq(S), NEW pkts \in Seq(S)
  PROVE  LET c == Transmit(channel, pkts)
             len == Len(channel)
         IN  /\ c \in Seq(S) /\ Len(c) <= ChanCap
             /\ \A i \in 1 .. Len(c) :
                  \/ i \in 1 .. len /\ c[i] = channel[i]
                  \/ i > len /\ i - len \in 1 .. Len(pkts) /\ c[i] = pkts[i - len]
  <1> DEFINE all == channel \o pkts
             len == Len(channel)
             n == Least(Len(all), ChanCap)
             c == SubSeq(all, 1, n)
  <1>1. /\ all \in Seq(S) /\ Len(all) = len + Len(pkts) /\ len \in Nat /\ Len(pkts) \in Nat
        /\ \A i \in 1 .. len + Len(pkts) :
             all[i] = IF i <= len THEN channel[i] ELSE pkts[i - len]
    BY ConcatProperties
  <1> HIDE DEF all
  <1>2. n \in 0 .. Len(all) /\ n <= ChanCap
    BY <1>1, NetworkAssumption DEF Least
  <1> HIDE DEF n
  <1>3. c \in Seq(S) /\ Len(c) = n /\ \A i \in 1 .. n : c[i] = all[i]
    BY <1>1, <1>2
  <1>4. c = Transmit(channel, pkts)
    BY DEF Transmit, all, n
  <1> HIDE DEF c, len
  <1>5. ASSUME NEW i \in 1 .. Len(c)
        PROVE  \/ i \in 1 .. len /\ c[i] = channel[i]
               \/ i > len /\ i - len \in 1 .. Len(pkts) /\ c[i] = pkts[i - len]
    BY <1>1, <1>2, <1>3
  <1> QED BY <1>2, <1>3, <1>4, <1>5 DEF len

\* A packet taken out leaves the others in order.
LEMMA ChannelShrinks ==
  ASSUME NEW S, NEW channel \in Seq(S), NEW i \in 1 .. Len(channel)
  PROVE  LET c == RemoveAt(channel, i)
         IN  /\ c \in Seq(S) /\ Len(c) = Len(channel) - 1
             /\ \A j \in 1 .. Len(c) : c[j] = IF j < i THEN channel[j] ELSE channel[j + 1]
  <1> DEFINE a == SubSeq(channel, 1, i - 1)
             b == SubSeq(channel, i + 1, Len(channel))
             c == a \o b
             n == Len(channel)
  <1>1. n \in Nat
    OBVIOUS
  <1>2. a \in Seq(S) /\ Len(a) = i - 1 /\ \A j \in 1 .. i - 1 : a[j] = channel[j]
    OBVIOUS
  <1>3. b \in Seq(S) /\ Len(b) = n - i /\ \A j \in 1 .. n - i : b[j] = channel[i + j]
    OBVIOUS
  <1> HIDE DEF a, b
  <1>4. /\ c \in Seq(S) /\ Len(c) = Len(a) + Len(b)
        /\ \A j \in 1 .. Len(a) + Len(b) : c[j] = IF j <= Len(a) THEN a[j] ELSE b[j - Len(a)]
    BY <1>2, <1>3, ConcatProperties
  <1>5. c = RemoveAt(channel, i)
    BY DEF RemoveAt, a, b
  <1> HIDE DEF c, n
  <1>6. Len(c) = n - 1
    BY <1>1, <1>2, <1>3, <1>4
  <1>7. ASSUME NEW j \in 1 .. Len(c)
        PROVE  c[j] = IF j < i THEN channel[j] ELSE channel[j + 1]
    <2>1. CASE j < i
      BY <1>1, <1>2, <1>3, <1>4, <1>6, <2>1
    <2>2. CASE j >= i
      <3>1. j - (i - 1) \in 1 .. n - i /\ i + (j - (i - 1)) = j + 1
        BY <1>1, <1>6, <2>2
      <3>2. c[j] = b[j - (i - 1)]
        BY <1>1, <1>2, <1>3, <1>4, <1>6, <2>2
      <3> QED BY <1>3, <2>2, <3>1, <3>2
    <2> QED BY <1>1, <2>1, <2>2
  <1> QED BY <1>4, <1>5, <1>6, <1>7 DEF n

-----------------------------------------------------------------------------
(* Blocks under way. *)

\* There is a last block.
LEMMA LastIsPositive == LastBlock \in Nat /\ LastBlock >= 1
  <1>1. FileLen \div BlockSize \in Nat
    BY PacketAssumption, DivMod
  <1> QED BY <1>1 DEF LastBlock

\* Different blocks of the file have different packets.
LEMMA LaterDiffers ==
  ASSUME NEW k \in 1 .. LastBlock, NEW l \in 1 .. LastBlock, k < l
  PROVE  DataPacket(k) # DataPacket(l)
  <1> DEFINE b == (k - 1) * BlockSize
             c == (l - 1) * BlockSize
  <1>1. b \in 0 .. FileLen /\ c \in 0 .. FileLen
    BY BlockBytes
  <1>2. b + BlockSize <= c
    <2>1. c = b + (l - k) * BlockSize
      BY PacketAssumption
    <2>2. (l - k) * BlockSize >= BlockSize
      BY PacketAssumption
    <2> HIDE DEF b, c
    <2> QED BY <1>1, <2>1, <2>2, PacketAssumption
  <1>3. Len(FileBlock(k)) = Least(BlockSize, FileLen - b)
        /\ \A i \in 1 .. Len(FileBlock(k)) : FileBlock(k)[i] = b + i
    BY BlockBytes
  <1>4. \A i \in 1 .. Len(FileBlock(l)) : FileBlock(l)[i] = c + i
    BY BlockBytes
  <1> HIDE DEF b, c
  <1>5. Len(FileBlock(k)) = BlockSize
    BY <1>1, <1>2, <1>3, PacketAssumption DEF Least
  <1>6. FileBlock(k)[1] = b + 1
    BY <1>3, <1>5, PacketAssumption
  <1>7. FileBlock(k) # FileBlock(l)
    <2> SUFFICES ASSUME FileBlock(k) = FileBlock(l) PROVE FALSE
      OBVIOUS
    <2>1. FileBlock(l)[1] = c + 1
      BY <1>4, <1>5, PacketAssumption
    <2> QED BY <1>1, <1>2, <1>6, <2>1, PacketAssumption
  <1> QED BY <1>7 DEF DataPacket, Packet

\* A packet is of one block.
LEMMA BlockUnique ==
  ASSUME NEW k \in 1 .. LastBlock, NEW l \in 1 .. LastBlock, DataPacket(k) = DataPacket(l)
  PROVE  k = l
  BY LaterDiffers, LastIsPositive

\* A packet under way that is a block was sent.
LEMMA BlockWasSent ==
  ASSUME NEW b \in Nat, NEW b2 \in Nat, b <= b2, b2 <= LastBlock, NEW o,
         NEW p \in ServerPackets(b, o), NEW k \in 1 .. b2, p = DataPacket(k)
  PROVE  k <= b
  <1>1. p # Error /\ p # Oack
    BY DEF DataPacket, Error, Oack, Packet
  <1>2. PICK l \in 1 .. b : p = DataPacket(l)
    BY <1>1 DEF ServerPackets
  <1>3. k \in 1 .. LastBlock /\ l \in 1 .. LastBlock
    BY LastIsPositive
  <1>4. k = l
    BY <1>2, <1>3, BlockUnique
  <1> QED BY <1>4

\* Sending blocks of the window keeps what is under way in the window.
LEMMA WindowSent ==
  ASSUME NEW b \in Nat, NEW b2 \in Nat, b <= b2, b2 <= LastBlock,
         NEW o \in BOOLEAN, NEW o2 \in BOOLEAN, o => o2,
         NEW w \in Nat, NEW w2 \in Nat, w <= w2, NEW a \in Nat, a <= b2,
         NEW channel \in Seq(ServerPackets(b, o)), NEW pkts \in Seq(ServerPackets(b2, o2)),
         InWindow(channel, w, a, b),
         \A i \in 1 .. Len(pkts), k \in 1 .. b2 : pkts[i] = DataPacket(k) => b2 < k + w2
  PROVE  LET c == Transmit(channel, pkts)
         IN  /\ c \in Seq(ServerPackets(b2, o2)) /\ Len(c) <= ChanCap
             /\ InWindow(c, w2, a, b2)
  <1> DEFINE S == ServerPackets(b2, o2)
             c == Transmit(channel, pkts)
             len == Len(channel)
  <1>1. channel \in Seq(S)
    <2>1. ServerPackets(b, o) \subseteq S
      BY DEF ServerPackets
    <2> HIDE DEF S
    <2> QED BY <2>1
  <1>2. \A i \in 1 .. len, k \in 1 .. b2 : channel[i] = DataPacket(k) => k \in 1 .. b
    BY BlockWasSent
  <1> HIDE DEF S
  <1>3. /\ c \in Seq(S) /\ Len(c) <= ChanCap /\ Len(c) \in Nat /\ len \in Nat
        /\ \A i \in 1 .. Len(c) :
             \/ i \in 1 .. len /\ c[i] = channel[i]
             \/ i > len /\ i - len \in 1 .. Len(pkts) /\ c[i] = pkts[i - len]
    BY <1>1, ChannelGrows DEF S
  <1> HIDE DEF c, len
  <1>4. ASSUME NEW i \in 1 .. Len(c), NEW k \in 1 .. b2, c[i] = DataPacket(k)
        PROVE  /\ a < k + w2
               /\ i > len => b2 < k + w2
               /\ i <= len => i \in 1 .. len /\ channel[i] = DataPacket(k) /\ k \in 1 .. b
    <2>1. CASE i \in 1 .. len /\ c[i] = channel[i]
      <3>1. k \in 1 .. b /\ channel[i] = DataPacket(k)
        BY <1>2, <1>4, <2>1
      <3>2. a < k + w
        BY <2>1, <3>1, Zenon DEF InWindow, len
      <3> QED BY <1>3, <2>1, <3>1, <3>2
    <2>2. CASE i > len /\ i - len \in 1 .. Len(pkts) /\ c[i] = pkts[i - len]
      <3>1. b2 < k + w2
        BY <1>4, <2>2
      <3> QED BY <1>3, <2>2, <3>1
    <2> QED BY <1>3, <2>1, <2>2
  <1>5. ASSUME NEW i \in 1 .. Len(c), NEW j \in 1 .. Len(c), NEW k \in 1 .. b2,
               NEW l \in 1 .. b2, i < j, c[i] = DataPacket(k), c[j] = DataPacket(l)
        PROVE  k < l + w2
    <2>1. CASE j > len
      <3>1. b2 < l + w2
        BY <1>4, <1>5, <2>1
      <3> QED BY <3>1
    <2>2. CASE j <= len
      <3>1. /\ i \in 1 .. len /\ channel[i] = DataPacket(k) /\ k \in 1 .. b
            /\ j \in 1 .. len /\ channel[j] = DataPacket(l) /\ l \in 1 .. b
        BY <1>3, <1>4, <1>5, <2>2
      <3>2. k < l + w
        BY <1>5, <3>1, Zenon DEF InWindow, len
      <3> QED BY <3>2
    <2> QED BY <1>3, <2>1, <2>2
  <1>6. InWindow(c, w2, a, b2)
    BY <1>4, <1>5, Zenon DEF InWindow
  <1> QED BY <1>3, <1>6 DEF c, S

\* Losing packets does.
LEMMA WindowThinned ==
  ASSUME NEW b \in Nat, NEW o, NEW w \in Nat, NEW a \in Nat,
         NEW channel \in Seq(ServerPackets(b, o)), InWindow(channel, w, a, b),
         Len(channel) <= ChanCap, NEW i \in 1 .. Len(channel)
  PROVE  LET c == RemoveAt(channel, i)
         IN  c \in Seq(ServerPackets(b, o)) /\ Len(c) <= ChanCap /\ InWindow(c, w, a, b)
  <1> DEFINE c == RemoveAt(channel, i)
             n == Len(channel)
  <1>1. /\ c \in Seq(ServerPackets(b, o)) /\ Len(c) = n - 1 /\ n \in Nat
        /\ \A j \in 1 .. Len(c) : c[j] = IF j < i THEN channel[j] ELSE channel[j + 1]
    BY ChannelShrinks
  <1> HIDE DEF c
  <1>2. ASSUME NEW j \in 1 .. Len(c), NEW k \in 1 .. b, c[j] = DataPacket(k)
        PROVE  a < k + w
    <2>1. PICK x \in 1 .. n : channel[x] = DataPacket(k)
      <3>1. j \in 1 .. n /\ j + 1 \in 1 .. n
        BY <1>1
      <3> QED BY <1>1, <1>2, <3>1
    <2> QED BY <2>1, Zenon DEF InWindow
  <1>3. ASSUME NEW x \in 1 .. Len(c), NEW y \in 1 .. Len(c), NEW k \in 1 .. b,
               NEW l \in 1 .. b, x < y, c[x] = DataPacket(k), c[y] = DataPacket(l)
        PROVE  k < l + w
    <2>1. PICK u \in 1 .. n, v \in 1 .. n :
            u < v /\ channel[u] = DataPacket(k) /\ channel[v] = DataPacket(l)
      <3>1. x \in 1 .. n /\ x + 1 \in 1 .. n /\ y \in 1 .. n /\ y + 1 \in 1 .. n
        BY <1>1
      <3> DEFINE u == IF x < i THEN x ELSE x + 1
                 v == IF y < i THEN y ELSE y + 1
      <3>2. u \in 1 .. n /\ v \in 1 .. n /\ u < v
        BY <1>3, <3>1
      <3>3. c[x] = channel[u] /\ c[y] = channel[v]
        BY <1>1
      <3> QED BY <1>3, <3>2, <3>3
    <2> QED BY <2>1, Zenon DEF InWindow
  <1>4. InWindow(c, w, a, b)
    BY <1>2, <1>3, Zenon DEF InWindow
  <1>5. Len(c) <= ChanCap
    BY <1>1, NetworkAssumption
  <1> QED BY <1>1, <1>4, <1>5 DEF c

\* The block that arrives first may be accepted.
LEMMA WindowTaken ==
  ASSUME NEW b \in Nat, NEW w \in Nat \ {0}, NEW a \in Nat, NEW channel,
         InWindow(channel, w, a, b), Len(channel) \in Nat \ {0}, b <= LastBlock,
         a + 1 \in 1 .. b, channel[1] = DataPacket(a + 1)
  PROVE  InWindow(channel, w, a + 1, b)
  <1>1. ASSUME NEW i \in 1 .. Len(channel), NEW k \in 1 .. b, channel[i] = DataPacket(k)
        PROVE  a + 1 < k + w
    <2>1. CASE i = 1
      <3>1. k \in 1 .. LastBlock /\ a + 1 \in 1 .. LastBlock
        BY LastIsPositive
      <3>2. k = a + 1
        BY <1>1, <2>1, <3>1, BlockUnique
      <3> QED BY <3>2
    <2>2. CASE i # 1
      <3>1. 1 < i /\ 1 \in 1 .. Len(channel)
        BY <2>2
      <3> QED BY <1>1, <3>1, Zenon DEF InWindow
    <2> QED BY <2>1, <2>2
  <1>2. ASSUME NEW i \in 1 .. Len(channel), NEW j \in 1 .. Len(channel), NEW k \in 1 .. b,
               NEW l \in 1 .. b, i < j, channel[i] = DataPacket(k), channel[j] = DataPacket(l)
        PROVE  k < l + w
    BY <1>2, Zenon DEF InWindow
  <1> QED BY <1>1, <1>2, Zenon DEF InWindow

\* The block that is expected is told by its number.
LEMMA BlockIsNext ==
  ASSUME NEW w \in 1 .. BlockMod - 1, NEW a \in Nat, NEW k \in Nat, a < k + w, k <= a + w,
         k % BlockMod = (a + 1) % BlockMod
  PROVE  k = a + 1
  <1>1. BlockMod \in Nat \ {0} /\ a + 1 \in Nat
    BY BlockModAssumption
  <1>2. CASE k < a + 1
    <2>1. (a + 1) - k < BlockMod
      BY BlockModAssumption
    <2> QED BY <1>1, <1>2, <2>1, ModApart
  <1>3. CASE a + 1 < k
    <2>1. k - (a + 1) < BlockMod
      BY BlockModAssumption
    <2> QED BY <1>1, <1>3, <2>1, ModApart
  <1> QED BY <1>2, <1>3

-----------------------------------------------------------------------------
(* ACKs under way. *)

\* Within a window an ACK is of one block.
LEMMA AckUnique ==
  ASSUME NEW lo \in Nat, NEW hi \in Nat, hi - lo < BlockMod, NEW m \in lo .. hi,
         NEW n \in lo .. hi, Ack(m % BlockMod) = Ack(n % BlockMod)
  PROVE  m = n
  <1>1. m % BlockMod = n % BlockMod
    BY DEF Ack, Packet
  <1>2. BlockMod \in Nat \ {0} /\ m \in Nat /\ n \in Nat
    BY BlockModAssumption
  <1>3. CASE m < n
    <2>1. n - m < BlockMod
      BY BlockModAssumption
    <2> QED BY <1>1, <1>2, <1>3, <2>1, ModApart
  <1>4. CASE n < m
    <2>1. m - n < BlockMod
      BY BlockModAssumption
    <2> QED BY <1>1, <1>2, <1>4, <2>1, ModApart
  <1> QED BY <1>2, <1>3, <1>4

\* An ACK under way was sent.
LEMMA AckWasSent ==
  ASSUME NEW lo \in Nat, NEW hi \in Nat, NEW hi2 \in Nat, hi <= hi2, hi2 - lo < BlockMod,
         NEW o, NEW p \in GetPackets(lo, hi, o), NEW m \in lo .. hi2, p = Ack(m % BlockMod)
  PROVE  m \in AckNumbers(lo, hi, o)
  <1>1. p # Error /\ p # Rrq
    BY DEF Ack, Error, Rrq, Packet
  <1>2. PICK n \in AckNumbers(lo, hi, o) : p = Ack(n % BlockMod)
    BY <1>1 DEF GetPackets
  <1>3. n \in lo .. hi2
    BY <1>2 DEF AckNumbers
  <1>4. m = n
    BY <1>2, <1>3, AckUnique
  <1> QED BY <1>2, <1>4

\* The client acknowledges the newest block, reports an error or repeats its request.
LEMMA AckSent ==
  ASSUME NEW lo \in Nat, NEW hi \in Nat, NEW hi2 \in Nat, lo <= hi, hi <= hi2,
         hi2 - lo < BlockMod, NEW o \in BOOLEAN,
         NEW channel \in Seq(GetPackets(lo, hi, o)), AcksRise(channel, lo, hi),
         NEW pkts, pkts = <<>> \/ \E p \in {Error, Rrq, Ack(hi2 % BlockMod)} : pkts = <<p>>,
         pkts = <<Ack(hi2 % BlockMod)>> => hi2 >= 1 \/ o
  PROVE  LET c == Transmit(channel, pkts)
         IN  /\ c \in Seq(GetPackets(lo, hi2, o)) /\ Len(c) <= ChanCap
             /\ AcksRise(c, lo, hi2)
  <1> DEFINE S == GetPackets(lo, hi2, o)
             c == Transmit(channel, pkts)
             len == Len(channel)
  <1>1. channel \in Seq(S)
    <2>1. GetPackets(lo, hi, o) \subseteq S
      BY DEF GetPackets, AckNumbers
    <2> HIDE DEF S
    <2> QED BY <2>1
  <1>2. pkts \in Seq(S) /\ Len(pkts) <= 1
    <2>1. ASSUME NEW p \in {Error, Rrq, Ack(hi2 % BlockMod)}, pkts = <<p>> PROVE p \in S
      <3>1. CASE p = Ack(hi2 % BlockMod)
        <4>1. hi2 \in AckNumbers(lo, hi2, o)
          BY <2>1, <3>1 DEF AckNumbers
        <4> QED BY <3>1, <4>1 DEF GetPackets
      <3> QED BY <2>1, <3>1 DEF GetPackets
    <2> HIDE DEF S
    <2>2. CASE pkts = <<>>
      BY <2>2
    <2>3. ASSUME NEW p \in {Error, Rrq, Ack(hi2 % BlockMod)}, pkts = <<p>>
          PROVE  pkts \in Seq(S) /\ Len(pkts) <= 1
      <3>1. p \in S
        BY <2>1, <2>3
      <3> QED BY <2>3, <3>1
    <2> QED BY <2>2, <2>3
  <1>3. ASSUME NEW i \in 1 .. Len(pkts), NEW m \in lo .. hi2, pkts[i] = Ack(m % BlockMod)
        PROVE  m = hi2
    <2>1. PICK p \in {Error, Rrq, Ack(hi2 % BlockMod)} : pkts = <<p>>
      BY <1>2, <1>3
    <2>2. p = Ack(m % BlockMod)
      BY <1>3, <2>1
    <2>3. p = Ack(hi2 % BlockMod)
      BY <2>2 DEF Ack, Error, Rrq, Packet
    <2>4. hi2 \in lo .. hi2
      OBVIOUS
    <2> QED BY <2>2, <2>3, <2>4, AckUnique
  <1>4. \A i \in 1 .. len, m \in lo .. hi2 : channel[i] = Ack(m % BlockMod) => m \in lo .. hi
    <2> SUFFICES ASSUME NEW i \in 1 .. len, NEW m \in lo .. hi2, channel[i] = Ack(m % BlockMod)
                 PROVE  m \in lo .. hi
      OBVIOUS
    <2>1. m \in AckNumbers(lo, hi, o)
      BY AckWasSent
    <2> QED BY <2>1 DEF AckNumbers
  <1> HIDE DEF S
  <1>5. /\ c \in Seq(S) /\ Len(c) <= ChanCap /\ Len(c) \in Nat /\ len \in Nat
        /\ \A i \in 1 .. Len(c) :
             \/ i \in 1 .. len /\ c[i] = channel[i]
             \/ i > len /\ i - len \in 1 .. Len(pkts) /\ c[i] = pkts[i - len]
    BY <1>1, <1>2, ChannelGrows
  <1> HIDE DEF c, len
  <1>6. ASSUME NEW i \in 1 .. Len(c), NEW j \in 1 .. Len(c), NEW m \in lo .. hi2,
               NEW n \in lo .. hi2, i < j, c[i] = Ack(m % BlockMod), c[j] = Ack(n % BlockMod)
        PROVE  m <= n
    <2>1. CASE j \in 1 .. len /\ c[j] = channel[j]
      <3>1. i \in 1 .. len /\ c[i] = channel[i]
        BY <1>5, <1>6, <2>1
      <3>2. m \in lo .. hi /\ n \in lo .. hi
        BY <1>4, <1>6, <2>1, <3>1
      <3>3. channel[i] = Ack(m % BlockMod) /\ channel[j] = Ack(n % BlockMod)
        BY <1>6, <2>1, <3>1
      <3> QED BY <1>6, <2>1, <3>1, <3>2, <3>3, Zenon DEF AcksRise, len
    <2>2. CASE j > len /\ j - len \in 1 .. Len(pkts) /\ c[j] = pkts[j - len]
      <3>1. n = hi2
        BY <1>3, <1>6, <2>2
      <3> QED BY <3>1
    <2> QED BY <1>5, <2>1, <2>2
  <1>7. AcksRise(c, lo, hi2)
    BY <1>6, Zenon DEF AcksRise
  <1> QED BY <1>5, <1>7 DEF c, S

\* Losing packets keeps the order of the ACKs.
LEMMA AcksThinned ==
  ASSUME NEW S, NEW lo \in Nat, NEW hi \in Nat, NEW channel \in Seq(S),
         AcksRise(channel, lo, hi), Len(channel) <= ChanCap, NEW i \in 1 .. Len(channel)
  PROVE  LET c == RemoveAt(channel, i)
         IN  c \in Seq(S) /\ Len(c) <= ChanCap /\ AcksRise(c, lo, hi)
  <1> DEFINE c == RemoveAt(channel, i)
             n == Len(channel)
  <1>1. /\ c \in Seq(S) /\ Len(c) = n - 1 /\ n \in Nat
        /\ \A j \in 1 .. Len(c) : c[j] = IF j < i THEN channel[j] ELSE channel[j + 1]
    BY ChannelShrinks
  <1> HIDE DEF c
  <1>2. ASSUME NEW x \in 1 .. Len(c), NEW y \in 1 .. Len(c), NEW k \in lo .. hi,
               NEW l \in lo .. hi, x < y, c[x] = Ack(k % BlockMod), c[y] = Ack(l % BlockMod)
        PROVE  k <= l
    <2>1. PICK u \in 1 .. n, v \in 1 .. n :
            u < v /\ channel[u] = Ack(k % BlockMod) /\ channel[v] = Ack(l % BlockMod)
      <3>1. x \in 1 .. n /\ x + 1 \in 1 .. n /\ y \in 1 .. n /\ y + 1 \in 1 .. n
        BY <1>1
      <3> DEFINE u == IF x < i THEN x ELSE x + 1
                 v == IF y < i THEN y ELSE y + 1
      <3>2. u \in 1 .. n /\ v \in 1 .. n /\ u < v
        BY <1>2, <3>1
      <3>3. c[x] = channel[u] /\ c[y] = channel[v]
        BY <1>1
      <3> QED BY <1>2, <3>2, <3>3
    <2> QED BY <2>1, Zenon DEF AcksRise
  <1>3. AcksRise(c, lo, hi)
    BY <1>2, Zenon DEF AcksRise
  <1>4. Len(c) <= ChanCap
    BY <1>1, NetworkAssumption
  <1> QED BY <1>1, <1>3, <1>4 DEF c

\* After the ACK that arrives first none is older.
LEMMA OldestAckTaken ==
  ASSUME NEW lo \in Nat, NEW hi \in Nat, hi - lo < BlockMod, NEW o,
         NEW channel \in Seq(GetPackets(lo, hi, o)), AcksRise(channel, lo, hi),
         Len(channel) # 0, NEW m \in lo .. hi, channel[1] = Ack(m % BlockMod)
  PROVE  channel \in Seq(GetPackets(m, hi, o)) /\ AcksRise(channel, m, hi)
  <1>1. Len(channel) \in Nat
    OBVIOUS
  <1>5. 1 \in 1 .. Len(channel)
    BY <1>1
  <1>2. ASSUME NEW i \in 1 .. Len(channel)
        PROVE  channel[i] \in GetPackets(m, hi, o)
    <2>1. channel[i] \in GetPackets(lo, hi, o)
      OBVIOUS
    <2>2. CASE channel[i] \in {Error, Rrq}
      BY <2>2 DEF GetPackets
    <2>3. CASE \E n \in AckNumbers(lo, hi, o) : channel[i] = Ack(n % BlockMod)
      <3>1. PICK n \in AckNumbers(lo, hi, o) : channel[i] = Ack(n % BlockMod)
        BY <2>3
      <3>2. n \in lo .. hi
        BY DEF AckNumbers
      <3>3. m <= n
        <4>1. CASE i = 1
          <5>1. m = n
            BY <3>1, <3>2, <4>1, AckUnique
          <5>2. n \in Nat
            BY <3>2
          <5> QED BY <5>1, <5>2
        <4>2. CASE i # 1
          <5>1. 1 < i
            BY <4>2
          <5> QED BY <1>5, <3>1, <3>2, <5>1, Zenon DEF AcksRise
        <4> QED BY <4>1, <4>2
      <3>4. n \in AckNumbers(m, hi, o)
        BY <3>2, <3>3 DEF AckNumbers
      <3> QED BY <3>1, <3>4 DEF GetPackets
    <2> QED BY <2>1, <2>2, <2>3 DEF GetPackets
  <1>3. channel \in Seq(GetPackets(m, hi, o))
    BY <1>2, SeqOver
  <1>4. AcksRise(channel, m, hi)
    <2>1. \A n \in m .. hi : n \in lo .. hi
      OBVIOUS
    <2> QED BY <2>1, Zenon DEF AcksRise
  <1> QED BY <1>3, <1>4, Zenon

-----------------------------------------------------------------------------
(* The client. *)

\* The blocks before the last one are full and the last is not.
LEMMA OnlyLastIsShort ==
  ASSUME NEW a \in Nat, a * BlockSize <= FileLen
  PROVE  /\ a + 1 \in 1 .. LastBlock /\ a * BlockSize \in Nat
         /\ (a + 1) * BlockSize = a * BlockSize + BlockSize
         /\ FileLen - a * BlockSize < BlockSize => a + 1 = LastBlock
         /\ FileLen - a * BlockSize >= BlockSize => a + 1 < LastBlock
  <1>1. PICK q \in Nat, r \in 0 .. BlockSize - 1 :
          q = FileLen \div BlockSize /\ FileLen = BlockSize * q + r
    BY PacketAssumption, DivMod
  <1>2. LastBlock = q + 1
    BY <1>1 DEF LastBlock
  <1> DEFINE c == a * BlockSize
             d == q * BlockSize
  <1>3. c \in Nat /\ d \in Nat /\ FileLen = d + r /\ BlockSize \in Nat \ {0} /\ FileLen \in Nat
    BY <1>1, PacketAssumption
  <1>4. (a + 1) * BlockSize = c + BlockSize
    BY PacketAssumption
  <1>5. a >= q + 1 => c >= d + BlockSize
    BY PacketAssumption
  <1>6. a <= q - 1 => c + BlockSize <= d
    BY PacketAssumption
  <1>7. a = q => c = d
    OBVIOUS
  <1> HIDE DEF c, d
  <1>8. c <= FileLen /\ q \in Nat /\ r \in 0 .. BlockSize - 1
    BY DEF c
  <1>9. a <= q
    BY <1>3, <1>5, <1>8
  <1>10. FileLen - c < BlockSize => a = q
    BY <1>3, <1>6, <1>8, <1>9
  <1>11. FileLen - c >= BlockSize => a < q
    BY <1>3, <1>7, <1>8, <1>9
  <1> QED BY <1>2, <1>3, <1>4, <1>9, <1>10, <1>11 DEF c

\* Block a + 1 follows the first a blocks.
LEMMA NextBlockStored ==
  ASSUME NEW a \in Nat, a * BlockSize <= FileLen
  PROVE  LET d == FileBlock(a + 1)
             f == FilePrefix(a * BlockSize) \o d
         IN  /\ d \in Seq(Nat) /\ Len(d) \in 0 .. BlockSize
             /\ a * BlockSize + Len(d) <= FileLen
             /\ f = FilePrefix(a * BlockSize + Len(d))
             /\ Len(d) < BlockSize => a + 1 = LastBlock /\ f = FilePrefix(FileLen)
             /\ Len(d) >= BlockSize =>
                  /\ a + 1 < LastBlock /\ (a + 1) * BlockSize <= FileLen
                  /\ f = FilePrefix((a + 1) * BlockSize)
  <1> DEFINE c == a * BlockSize
             k == a + 1
             d == FileBlock(k)
             f == FilePrefix(c) \o d
  <1>1. /\ k \in 1 .. LastBlock /\ c \in Nat /\ k * BlockSize = c + BlockSize
        /\ FileLen - c < BlockSize => k = LastBlock
        /\ FileLen - c >= BlockSize => k < LastBlock
    BY OnlyLastIsShort
  <1>2. k - 1 = a
    OBVIOUS
  <1>3. /\ d \in Seq(Nat) /\ Len(d) = Least(BlockSize, FileLen - c)
        /\ \A i \in 1 .. Len(d) : d[i] = c + i
    BY <1>1, <1>2, BlockBytes
  <1> HIDE DEF d, k
  <1>4. c <= FileLen
    OBVIOUS
  <1> HIDE DEF c
  <1>5. f = FilePrefix(c + Len(d))
    BY <1>1, <1>3, PrefixGrows
  <1> HIDE DEF f
  <1>6. Len(d) \in 0 .. BlockSize /\ c + Len(d) <= FileLen
    BY <1>1, <1>3, <1>4, PacketAssumption DEF Least
  <1>7. Len(d) < BlockSize => k = LastBlock /\ c + Len(d) = FileLen
    BY <1>1, <1>3, <1>4, PacketAssumption DEF Least
  <1>8. Len(d) >= BlockSize => k < LastBlock /\ k * BlockSize <= FileLen
                               /\ c + Len(d) = k * BlockSize
    BY <1>1, <1>3, <1>4, PacketAssumption DEF Least
  <1> QED BY <1>3, <1>5, <1>6, <1>7, <1>8 DEF c, d, f, k

\* A part of block a + 1 follows them too.
LEMMA PartStored ==
  ASSUME NEW a \in Nat, a * BlockSize <= FileLen, NEW n \in 0 .. Len(FileBlock(a + 1)) - 1
  PROVE  \E m \in 0 .. FileLen :
           /\ a * BlockSize <= m /\ m <= (a + 1) * BlockSize
           /\ FilePrefix(a * BlockSize) \o SubSeq(FileBlock(a + 1), 1, n) = FilePrefix(m)
  <1> DEFINE c == a * BlockSize
             d == FileBlock(a + 1)
             e == SubSeq(d, 1, n)
  <1>1. a + 1 \in 1 .. LastBlock /\ c \in Nat /\ (a + 1) - 1 = a
        /\ (a + 1) * BlockSize = c + BlockSize
    BY OnlyLastIsShort
  <1>2. /\ d \in Seq(Nat) /\ Len(d) \in 0 .. BlockSize /\ c + Len(d) <= FileLen
        /\ \A i \in 1 .. Len(d) : d[i] = c + i
    BY <1>1, BlockBytes, NextBlockStored
  <1> HIDE DEF d
  <1>3. n \in 0 .. Len(d) - 1
    BY DEF d
  <1>4. e \in Seq(Nat) /\ Len(e) = n /\ \A i \in 1 .. n : e[i] = d[i]
    BY <1>2, <1>3
  <1> HIDE DEF c, e
  <1>5. ASSUME NEW i \in 1 .. Len(e) PROVE e[i] = c + i
    <2>1. i \in 1 .. n /\ i \in 1 .. Len(d)
      BY <1>2, <1>3, <1>4
    <2> QED BY <1>2, <1>4, <2>1
  <1>6. FilePrefix(c) \o e = FilePrefix(c + n)
    BY <1>1, <1>4, <1>5, PrefixGrows
  <1>7. c + n \in 0 .. FileLen /\ c <= c + n /\ c + n <= c + BlockSize
    BY <1>1, <1>2, <1>3, PacketAssumption
  <1> QED BY <1>1, <1>6, <1>7 DEF c, d, e

\* A client that has received nothing has nothing.
LEMMA FirstHasNothing ==
  ASSUME NEW o, ClientFacts(o), c_status = "receiving", is_first_receive
  PROVE  c_blocks = 0 /\ c_file = <<>>
  BY DEF ClientFacts, FirstIsClean

\* A step that accepts no block.
LEMMA NoBlockStep ==
  ASSUME NEW o \in BOOLEAN, ClientFacts(o), c_status = "receiving", NoBlock,
         c_status' \in {"receiving", "failed"},
         c_options' \in ClientOptionSet, c_tsize' \in 0 .. FileLen,
         is_first_receive' \in BOOLEAN, is_first_receive' => is_first_receive,
         retransmissions' \in 0 .. ClientRetries,
         server_may_not_support_options' \in BOOLEAN,
         server_may_not_support_options' => c_status' = "failed" /\ c_file = <<>>,
         \/ last_packet_sent' = last_packet_sent
         \/ last_packet_sent' = Ack(0) /\ o /\ c_blocks = 0
  PROVE  ClientFacts(o)'
  <1>1. UNCHANGED <<c_expected_sequence_number, c_file, c_blocks>>
    BY DEF NoBlock
  <1>2. ClientTypes'
    BY <1>1 DEF ClientFacts, ClientTypes
  <1>3. ClientStores'
    BY <1>1 DEF ClientFacts, ClientStores
  <1>4. ClientResends(o)'
    <2>1. CASE last_packet_sent' = last_packet_sent
      BY <1>1, <2>1 DEF ClientFacts, ClientResends
    <2>2. CASE last_packet_sent' = Ack(0) /\ o /\ c_blocks = 0
      <3>1. 0 % BlockMod = 0
        BY BlockModAssumption
      <3> QED BY <1>1, <2>2, <3>1, Zenon DEF ClientResends
    <2> QED BY <2>1, <2>2
  <1>5. FirstIsClean'
    BY <1>1, FirstHasNothing DEF FirstIsClean
  <1>6. UnsupportedMeansUntouched'
    BY <1>1 DEF UnsupportedMeansUntouched
  <1> QED BY <1>2, <1>3, <1>4, <1>5, <1>6 DEF ClientFacts

\* What one step sends: nothing, an error, or the packet it would send again.
SendsLast == c_sent' \in {<<>>, <<Error>>, <<last_packet_sent'>>}

\* What one step makes of the file: nothing, a part of a block before the client gives
\* up, or the next block, after which it goes on unless it was the last.
ClientProgress ==
  \/ UNCHANGED <<c_status, c_file, c_blocks>>
  \/ /\ c_status = "receiving" /\ c_status' = "failed" /\ c_blocks' = c_blocks
     /\ \E n \in 0 .. FileLen :
          /\ c_blocks * BlockSize <= n /\ n <= (c_blocks + 1) * BlockSize
          /\ c_file' = FilePrefix(n)
  \/ /\ c_status = "receiving" /\ c_blocks' = c_blocks + 1
     /\ c_status' # "receiving" => c_blocks' = LastBlock

\* A step that accepts no block makes nothing of it.
LEMMA NoBlockProgress ==
  ASSUME NEW o, ClientFacts(o), c_status = "receiving", NoBlock,
         c_status' \in {"receiving", "failed"}
  PROVE  ClientProgress
  <1>1. /\ c_blocks \in Nat /\ c_blocks * BlockSize <= FileLen
        /\ c_file = FilePrefix(c_blocks * BlockSize)
    BY LastIsPositive DEF ClientFacts, ClientTypes, ClientStores
  <1> DEFINE n == c_blocks * BlockSize
  <1>2. n \in Nat /\ (c_blocks + 1) * BlockSize = n + BlockSize
    BY <1>1, OnlyLastIsShort
  <1> HIDE DEF n
  <1>3. n <= n /\ n <= n + BlockSize /\ n \in 0 .. FileLen
    BY <1>1, <1>2, PacketAssumption DEF n
  <1> QED BY <1>1, <1>2, <1>3 DEF ClientProgress, NoBlock, n

\* The parts of the state a step that accepts no block needs.
LEMMA ClientIsTyped ==
  ASSUME NEW o, ClientFacts(o), c_status = "receiving"
  PROVE  /\ c_options \in ClientOptionSet /\ c_options.use \in BOOLEAN
         /\ OptionsAfterData \in ClientOptionSet
         /\ c_tsize \in 0 .. FileLen /\ FileLen \in 0 .. FileLen
         /\ is_first_receive \in BOOLEAN /\ server_may_not_support_options = FALSE
         /\ retransmissions \in 0 .. ClientRetries /\ 0 \in 0 .. ClientRetries
         /\ \A b \in BOOLEAN : [c_options EXCEPT !.use = b] \in ClientOptionSet
         /\ \A b \in BOOLEAN : [c_options EXCEPT !.list = b] \in ClientOptionSet
  <1>1. /\ c_options \in ClientOptionSet /\ c_tsize \in 0 .. FileLen
        /\ is_first_receive \in BOOLEAN /\ server_may_not_support_options = FALSE
        /\ retransmissions \in 0 .. ClientRetries
    BY DEF ClientFacts, ClientTypes, UnsupportedMeansUntouched
  <1>2. FileLen \in 0 .. FileLen /\ 0 \in 0 .. ClientRetries
    BY ClientAssumption, PacketAssumption
  <1>3. \A s \in ClientOptionSet : \A b \in BOOLEAN :
          /\ [s EXCEPT !.use = b] \in ClientOptionSet
          /\ [s EXCEPT !.list = b] \in ClientOptionSet
          /\ [s EXCEPT !.tsize = b] \in ClientOptionSet
    BY DEF ClientOptionSet
  <1>4. OptionsAfterData \in ClientOptionSet
    <2>1. [c_options EXCEPT !.use = FALSE, !.tsize = FALSE]
            = [[c_options EXCEPT !.use = FALSE] EXCEPT !.tsize = FALSE]
      OBVIOUS
    <2> QED BY <1>1, <1>3, <2>1 DEF OptionsAfterData
  <1>5. c_options.use \in BOOLEAN
    BY <1>1 DEF ClientOptionSet
  <1> QED BY <1>1, <1>2, <1>3, <1>4, <1>5

\* A packet that is no acceptable block.
LEMMA OtherTurn ==
  ASSUME NEW o \in BOOLEAN, ClientFacts(o), c_status = "receiving", NEW p, p.op = "OACK" => o,
         \/ handle_unexpected_peer(p) \/ OackReceived(p) \/ ListUnsupported(p)
         \/ UnexpectedBlock(p) \/ ErrorReceived(p) \/ OtherReceived(p)
  PROVE  ClientFacts(o)' /\ c_blocks' = c_blocks /\ SendsLast
  <1> USE ClientIsTyped DEF KeepReceiving, ClientFails
  <1>1. CASE handle_unexpected_peer(p)
    <2>1. NoBlock /\ SendsLast
      BY <1>1 DEF handle_unexpected_peer, SendsLast
    <2>2. ClientFacts(o)'
      BY <1>1, <2>1, NoBlockStep DEF handle_unexpected_peer
    <2> QED BY <2>1, <2>2 DEF NoBlock
  <1>2. CASE OackReceived(p)
    <2>1. NoBlock /\ SendsLast
      BY <1>2 DEF OackReceived, OackAccepted, OackRefused, OackIgnored, SendsLast
    <2>2. CASE OackAccepted
      <3>1. c_blocks = 0 /\ o
        BY <1>2, <2>2, FirstHasNothing DEF OackReceived, OackAccepted
      <3> QED BY <2>1, <2>2, <3>1, NoBlockStep DEF OackAccepted, NoBlock
    <2>3. CASE OackRefused
      BY <2>1, <2>3, NoBlockStep DEF OackRefused, NoBlock
    <2>4. CASE OackIgnored
      BY <2>1, <2>4, NoBlockStep DEF OackIgnored, NoBlock
    <2> QED BY <1>2, <2>2, <2>3, <2>4 DEF OackReceived
  <1>3. CASE ListUnsupported(p)
    <2>1. NoBlock /\ SendsLast /\ c_file = <<>>
      BY <1>3, FirstHasNothing DEF ListUnsupported, SendsLast
    <2> QED BY <1>3, <2>1, NoBlockStep DEF ListUnsupported, NoBlock
  <1>4. CASE UnexpectedBlock(p)
    <2>1. NoBlock /\ SendsLast
      BY <1>4 DEF UnexpectedBlock, SendsLast
    <2> QED BY <1>4, <2>1, NoBlockStep DEF UnexpectedBlock, NoBlock
  <1>5. CASE ErrorReceived(p)
    <2>1. NoBlock /\ SendsLast
      BY <1>5 DEF ErrorReceived, SendsLast
    <2>2. SuspectOptions \in BOOLEAN /\ (SuspectOptions => c_file = <<>>)
      BY FirstHasNothing DEF SuspectOptions
    <2> QED BY <1>5, <2>1, <2>2, NoBlockStep DEF ErrorReceived, NoBlock
  <1>6. CASE OtherReceived(p)
    <2>1. NoBlock /\ SendsLast
      BY <1>6 DEF OtherReceived, SendsLast
    <2> QED BY <1>6, <2>1, NoBlockStep DEF OtherReceived, NoBlock
  <1> QED BY <1>1, <1>2, <1>3, <1>4, <1>5, <1>6

\* The next block is the next block of the file.
LEMMA BlockTurn ==
  ASSUME NEW o \in BOOLEAN, ClientFacts(o), c_status = "receiving", NEW p,
         p = DataPacket(c_blocks + 1), NextBlock(p)
  PROVE  ClientFacts(o)' /\ c_blocks' = c_blocks + 1 /\ SendsLast /\ ClientProgress
  <1> DEFINE a == c_blocks
             k == a + 1
             d == FileBlock(k)
  <1>1. /\ a \in Nat /\ a * BlockSize <= FileLen /\ c_file = FilePrefix(a * BlockSize)
        /\ c_expected_sequence_number = k % BlockMod
    BY LastIsPositive DEF ClientFacts, ClientTypes, ClientStores
  <1>2. p.block = k % BlockMod /\ p.data = d
    BY DEF DataPacket, Packet
  <1>3. /\ d \in Seq(Nat) /\ Len(d) \in 0 .. BlockSize
        /\ a * BlockSize + Len(d) <= FileLen
        /\ c_file \o d = FilePrefix(a * BlockSize + Len(d))
        /\ Len(d) < BlockSize => k = LastBlock /\ c_file \o d = FilePrefix(FileLen)
        /\ Len(d) >= BlockSize =>
             /\ k < LastBlock /\ k * BlockSize <= FileLen
             /\ c_file \o d = FilePrefix(k * BlockSize)
    BY <1>1, NextBlockStored
  <1>4. k \in 1 .. LastBlock /\ k \in Nat
    BY <1>1, OnlyLastIsShort
  <1>5. k % BlockMod \in Block /\ Succ(k % BlockMod) = (k + 1) % BlockMod
    BY <1>4, NextNumber
  <1> HIDE DEF d
  <1>6. /\ c_file' = c_file \o d /\ c_blocks' = k
        /\ c_expected_sequence_number' = (k + 1) % BlockMod
        /\ last_packet_sent' = Ack(k % BlockMod) /\ c_sent' = <<Ack(k % BlockMod)>>
        /\ retransmissions' = 0 /\ is_first_receive' = FALSE
        /\ c_options' = OptionsAfterData /\ c_tsize' = c_tsize
        /\ server_may_not_support_options' = FALSE
    BY <1>1, <1>2, <1>5, ClientIsTyped DEF NextBlock, AckOf
  <1>7. /\ c_status' \in {"receiving", "success", "failed"}
        /\ c_status' = "receiving" => Len(d) >= BlockSize
        /\ c_status' # "receiving" => Len(d) < BlockSize
    <2>1. IsLast(p) <=> Len(d) < BlockSize
      BY <1>2 DEF IsLast
    <2>2. c_status' = CASE ~IsLast(p) -> "receiving"
                        [] IsLast(p) /\ c_options'.tsize /\ Len(c_file') # c_tsize -> "failed"
                        [] OTHER -> "success"
      BY DEF NextBlock
    <2>3. Len(d) < BlockSize \/ Len(d) >= BlockSize
      BY <1>3, PacketAssumption
    <2> QED BY <2>1, <2>2, <2>3
  <1>8. ClientTypes'
    <2>1. (k + 1) % BlockMod \in Block
      <3>1. k + 1 \in Nat
        BY <1>4
      <3> QED BY <3>1, NextNumber
    <2>2. OptionsAfterData \in ClientOptionSet /\ c_tsize \in 0 .. FileLen
          /\ 0 \in 0 .. ClientRetries
      BY ClientIsTyped
    <2>3. k \in 0 .. LastBlock
      BY <1>4
    <2> HIDE DEF k
    <2> QED BY <1>6, <1>7, <2>1, <2>2, <2>3 DEF ClientTypes
  <1>9. ClientStores'
    <2>1. \E n \in 0 .. FileLen : c_file' = FilePrefix(n)
      <3>1. a * BlockSize \in Nat
        BY <1>1, PacketAssumption
      <3>2. a * BlockSize + Len(d) \in 0 .. FileLen
        BY <1>3, <3>1, PacketAssumption
      <3> QED BY <1>3, <1>6, <3>2
    <2>2. c_status' = "receiving" =>
            /\ c_expected_sequence_number' = (c_blocks' + 1) % BlockMod
            /\ c_blocks' * BlockSize <= FileLen
            /\ c_file' = FilePrefix(c_blocks' * BlockSize)
      BY <1>3, <1>6, <1>7
    <2>3. c_status' = "success" => c_blocks' = LastBlock
      BY <1>3, <1>6, <1>7
    <2>4. c_blocks' = LastBlock => c_file' = FilePrefix(FileLen)
      <3>1. Len(d) < BlockSize \/ Len(d) >= BlockSize
        BY <1>3, PacketAssumption
      <3> QED BY <1>3, <1>4, <1>6, <3>1
    <2> QED BY <2>1, <2>2, <2>3, <2>4 DEF ClientStores
  <1>10. ClientResends(o)'
    BY <1>4, <1>6 DEF ClientResends
  <1>11. FirstIsClean' /\ UnsupportedMeansUntouched'
    BY <1>6 DEF FirstIsClean, UnsupportedMeansUntouched
  <1>12. ClientProgress
    BY <1>3, <1>6, <1>7 DEF ClientProgress
  <1> QED BY <1>6, <1>8, <1>9, <1>10, <1>11, <1>12 DEF ClientFacts, SendsLast

\* A block that could not be written ends the transfer.
LEMMA WriteFailedTurn ==
  ASSUME NEW o \in BOOLEAN, ClientFacts(o), c_status = "receiving", NEW p,
         p = DataPacket(c_blocks + 1), WriteFailed(p)
  PROVE  ClientFacts(o)' /\ c_blocks' = c_blocks /\ SendsLast /\ ClientProgress
  <1> DEFINE a == c_blocks
  <1>1. /\ a \in Nat /\ a * BlockSize <= FileLen /\ c_file = FilePrefix(a * BlockSize)
        /\ a \in 0 .. LastBlock
    BY LastIsPositive DEF ClientFacts, ClientTypes, ClientStores
  <1>2. p.data = FileBlock(a + 1)
    BY DEF DataPacket, Packet
  <1>3. \E m \in 0 .. FileLen : /\ a * BlockSize <= m /\ m <= (a + 1) * BlockSize
                                /\ c_file' = FilePrefix(m)
    BY <1>1, <1>2, PartStored DEF WriteFailed
  <1>4. /\ c_status' = "failed" /\ c_blocks' = a /\ last_packet_sent' = last_packet_sent
        /\ is_first_receive' = is_first_receive /\ c_sent' \in {<<>>, <<Error>>}
        /\ server_may_not_support_options' = FALSE
        /\ c_options' = OptionsAfterData /\ c_tsize' = c_tsize
        /\ retransmissions' = retransmissions
        /\ c_expected_sequence_number' = Succ(c_expected_sequence_number)
    BY ClientIsTyped DEF WriteFailed, ClientFails
  <1>5. a # LastBlock
    <2>1. a + 1 \in 1 .. LastBlock
      BY <1>1, OnlyLastIsShort
    <2> QED BY <1>1, <2>1
  <1>6. Succ(c_expected_sequence_number) \in Block
    BY BlockModAssumption DEF ClientFacts, ClientTypes, Succ, Plus, Block
  <1>7. ClientTypes'
    BY <1>1, <1>4, <1>6, ClientIsTyped DEF ClientTypes
  <1>8. ClientStores'
    BY <1>3, <1>4, <1>5 DEF ClientStores
  <1>9. ClientResends(o)'
    BY <1>4 DEF ClientFacts, ClientResends
  <1>10. FirstIsClean' /\ UnsupportedMeansUntouched'
    BY <1>4, FirstHasNothing DEF FirstIsClean, UnsupportedMeansUntouched
  <1>11. ClientProgress
    BY <1>3, <1>4 DEF ClientProgress
  <1> QED BY <1>4, <1>7, <1>8, <1>9, <1>10, <1>11 DEF ClientFacts, SendsLast

\* What a block must be for the client to take it only for the next one.
OnlyNextExpected(p) ==
  p.op = "DATA" =>
    \E k \in 1 .. LastBlock :
      p = DataPacket(k) /\ (k % BlockMod = (c_blocks + 1) % BlockMod => k = c_blocks + 1)

\* A packet received by the client.
LEMMA ClientReceivesStep ==
  ASSUME NEW o \in BOOLEAN, ClientFacts(o), NEW p, ClientReceives(p), p.op = "OACK" => o,
         OnlyNextExpected(p)
  PROVE  /\ ClientFacts(o)' /\ SendsLast /\ ClientProgress
         /\ c_blocks' = c_blocks \/ (c_blocks' = c_blocks + 1 /\ p = DataPacket(c_blocks + 1))
  <1>1. c_status = "receiving"
    BY DEF ClientReceives
  <1>2. ASSUME IsExpected(p) PROVE p = DataPacket(c_blocks + 1)
    <2>1. p.op = "DATA" /\ p.block = (c_blocks + 1) % BlockMod
      BY <1>1, <1>2 DEF IsExpected, ClientFacts, ClientStores
    <2>2. PICK k \in 1 .. LastBlock :
            p = DataPacket(k) /\ (k % BlockMod = (c_blocks + 1) % BlockMod => k = c_blocks + 1)
      BY <2>1 DEF OnlyNextExpected
    <2>3. p.block = k % BlockMod
      BY <2>2 DEF DataPacket, Packet
    <2> QED BY <2>1, <2>2, <2>3, Zenon
  <1>3. CASE NextBlock(p)
    BY <1>1, <1>2, <1>3, BlockTurn DEF NextBlock
  <1>4. CASE WriteFailed(p)
    BY <1>1, <1>2, <1>4, WriteFailedTurn DEF WriteFailed
  <1>5. CASE \/ handle_unexpected_peer(p) \/ OackReceived(p) \/ ListUnsupported(p)
             \/ UnexpectedBlock(p) \/ ErrorReceived(p) \/ OtherReceived(p)
    <2>1. NoBlock /\ c_status' \in {"receiving", "failed"}
      BY <1>1, <1>5
      DEF handle_unexpected_peer, OackReceived, OackAccepted, OackRefused, OackIgnored,
          ListUnsupported, UnexpectedBlock, ErrorReceived, OtherReceived, ClientFails,
          KeepReceiving
    <2> QED BY <1>1, <1>5, <2>1, OtherTurn, NoBlockProgress
  <1> QED BY <1>3, <1>4, <1>5 DEF ClientReceives, DataReceivedByClient

\* A timeout, or a system call that fails.
LEMMA ClientTimeoutStep ==
  ASSUME NEW o \in BOOLEAN, ClientFacts(o), ClientTimeout \/ ClientFault
  PROVE  ClientFacts(o)' /\ c_blocks' = c_blocks /\ SendsLast /\ ClientProgress
  <1>1. c_status = "receiving" /\ NoBlock /\ SendsLast /\ UNCHANGED <<c_options, c_tsize>>
    BY DEF ClientTimeout, ClientFault, ClientFails, SendsLast
  <1>5. ClientProgress
    <2>1. c_status' \in {"receiving", "failed"}
      BY <1>1 DEF ClientTimeout, ClientFault, ClientFails
    <2> QED BY <1>1, <2>1, NoBlockProgress
  <1>2. SuspectOptions \in BOOLEAN /\ (SuspectOptions => c_file = <<>>)
    BY <1>1, ClientIsTyped, FirstHasNothing DEF SuspectOptions
  <1>3. CASE ClientTimeout
    <2>1. CASE ClientRetriesLeft /\ retransmissions' = NextRetransmission
      <3>1. retransmissions' \in 0 .. ClientRetries
        <4>1. retransmissions \in 0 .. ClientRetries
          BY <1>1, ClientIsTyped
        <4> QED BY <2>1, <4>1, ClientAssumption DEF ClientRetriesLeft, NextRetransmission
      <3>2. /\ ClientRetriesLeft
            /\ UNCHANGED <<c_status, server_may_not_support_options, is_first_receive,
                           last_packet_sent>>
        BY <1>3, <2>1 DEF ClientTimeout
      <3> QED BY <1>1, <1>5, <3>1, <3>2, ClientIsTyped, NoBlockStep DEF NoBlock
    <2>2. CASE ~ClientRetriesLeft
      <3>1. /\ ClientFails(<<>>, server_may_not_support_options \/ SuspectOptions)
            /\ UNCHANGED retransmissions
        BY <1>3, <2>2 DEF ClientTimeout
      <3> QED BY <1>1, <1>2, <1>5, <3>1, ClientIsTyped, NoBlockStep DEF NoBlock, ClientFails
    <2> QED BY <1>3, <2>1, <2>2 DEF ClientTimeout
  <1>4. CASE ClientFault
    BY <1>1, <1>4, <1>5, ClientIsTyped, NoBlockStep DEF ClientFault, ClientFails, NoBlock
  <1> QED BY <1>1, <1>3, <1>4, <1>5

-----------------------------------------------------------------------------
(* The session. *)

\* What the facts about the session say of its window in numbers.
WindowNumbers ==
  /\ Unacknowledged \in Nat /\ Unacknowledged <= window_size /\ Unacknowledged <= blocks
  /\ window_size \in 1 .. BlockMod - 1 /\ window_size <= MaxAge
  /\ blocks \in Nat /\ blocks <= LastBlock
  /\ last_packet # -1 => blocks = LastBlock
  /\ AckedBlocks = blocks - Unacknowledged /\ AckedBlocks \in Nat
  /\ next_data_packet_to_send = (blocks + 1) % BlockMod
  /\ NumberingIsSafe /\ valid_options_required \in BOOLEAN

\* They say so of every session that serves a get ...
LEMMA WindowIsNumbered ==
  ASSUME InOrder
  PROVE  SessionFacts /\ request.type = "read" => WindowNumbers
  <1> SUFFICES ASSUME SessionFacts, request.type = "read" PROVE WindowNumbers
    OBVIOUS
  <1> DEFINE b == blocks
             u == Unacknowledged
             w == window_size
  <1>1. SessionInv /\ TransferFacts /\ LastHasFile
    BY DEF SessionFacts
  <1>2. /\ w \in 1 .. BlockMod - 1 /\ w \in {1, request.window}
        /\ u \in 0 .. BlockMod - 1 /\ b \in Nat
    BY <1>1, WindowTyped DEF SessionInv, WindowTypes
  <1>3. request \in Requests /\ request \in ServerRequest /\ request.options \in BOOLEAN
    BY <1>1, SessionAssumption DEF SessionInv, TypeOK, ServerRequest
  <1>4. /\ u <= w /\ u <= b /\ next_data_packet_to_send = (b + 1) % BlockMod
        /\ fd # "file" => b = 0
        /\ fd = "file" => OffsetFits(is_fetching_data, last_block_size, incomplete_read,
                                     file_offset, last_packet, b, should_close)
    BY <1>1, Zenon DEF TransferFacts, WindowFits, Numbered, OffsetsMatch
  <1>5. w <= MaxAge /\ (BlockMod % w = 0 \/ LastBlock < BlockMod)
    <2>1. CASE request.options
      <3>1. request.window <= MaxAge
            /\ (BlockMod % request.window = 0 \/ LastBlock < BlockMod) /\ 1 <= MaxAge
        BY <1>3, <2>1 DEF InOrder
      <3>2. BlockMod % 1 = 0
        BY BlockModAssumption
      <3> QED BY <1>2, <3>1, <3>2
    <2>2. CASE ~request.options
      <3>1. w = 1 /\ 1 <= MaxAge
        BY <1>3, <2>2 DEF window_size, InOrder
      <3>2. BlockMod % 1 = 0
        BY BlockModAssumption
      <3> QED BY <3>1, <3>2
    <2> QED BY <2>1, <2>2
  <1>6. b <= LastBlock /\ (last_packet # -1 => b = LastBlock)
    <2>1. CASE fd # "file"
      <3>1. b = 0 /\ last_packet = -1
        BY <1>1, <1>4, <2>1 DEF LastHasFile
      <3> QED BY <3>1, LastIsPositive
    <2>2. CASE fd = "file" /\ last_packet = -1
      <3>1. b * BlockSize <= FileLen
        BY <1>4, <2>2 DEF OffsetFits
      <3>2. b + 1 \in 1 .. LastBlock
        BY <1>2, <3>1, OnlyLastIsShort
      <3> HIDE DEF b
      <3> QED BY <1>2, <2>2, <3>2, LastIsPositive
    <2>3. CASE fd = "file" /\ last_packet # -1
      <3> DEFINE a == b - 1
                 c == a * BlockSize
      <3>1. b >= 1 /\ last_block_size < BlockSize /\ c + last_block_size = FileLen
        BY <1>4, <2>3 DEF OffsetFits
      <3>2. a \in Nat /\ a + 1 = b /\ c \in Nat
        BY <1>2, <3>1, PacketAssumption
      <3>3. last_block_size \in 0 .. BlockSize
        BY <1>1, Zenon DEF SessionInv, TypeOK
      <3> HIDE DEF c
      <3>4. c <= FileLen /\ FileLen - c < BlockSize
        BY <3>1, <3>2, <3>3, PacketAssumption
      <3> HIDE DEF a, b
      <3>5. a + 1 = LastBlock
        BY <3>2, <3>4, OnlyLastIsShort DEF c
      <3> QED BY <3>2, <3>5, LastIsPositive
    <2> QED BY <2>1, <2>2, <2>3
  <1>7. NumberingIsSafe
    BY <1>2, <1>5, <1>6, BlockModAssumption, LastIsPositive DEF NumberingIsSafe
  <1>8. AckedBlocks = b - u /\ b - u \in Nat
    BY <1>2, <1>4, BlockModAssumption DEF AckedBlocks, Unacknowledged
  <1>9. valid_options_required \in BOOLEAN
    BY <1>3 DEF valid_options_required
  <1> HIDE DEF b, u, w
  <1> QED
    BY <1>2, <1>4, <1>5, <1>6, <1>7, <1>8, <1>9, BlockModAssumption DEF WindowNumbers, b, u, w

\* ... and of its next state.
LEMMA WindowNumberedNext ==
  ASSUME InOrder
  PROVE  (SessionFacts /\ request.type = "read")' => WindowNumbers'
  <1>1. SessionFacts /\ request.type = "read" => WindowNumbers
    BY WindowIsNumbered
  <1> QED BY <1>1, PTL

\* The request never changes, and options once required remain so.
LEMMA StepFrame ==
  ASSUME SessionFacts, SessionInv', [SessionNext]_sessionVars
  PROVE  /\ request' = request
         /\ valid_options_required => valid_options_required'
         /\ window_size <= window_size'
         /\ LastHasFile'
  <1>0. SessionInv /\ ReadFacts /\ TransferFacts
    BY DEF SessionFacts
  <1>1. /\ request' = request
        /\ \/ fd' = fd
           \/ status = "new" /\ UNCHANGED last_packet
        /\ last_packet' = last_packet \/ fd' = "file"
    <2>1. CASE Untouched
      BY <2>1 DEF Untouched, windowVars
    <2>2. CASE Start
      BY <2>2 DEF Start, windowVars
    <2>3. CASE KeepsBuffers \/ ReadsOn
      BY <2>3 DEF KeepsBuffers, ReadsOn, Quiet, windowVars
    <2>4. CASE BlockReady
      <3>1. Reading /\ fd = "file"
        BY <1>0, <2>4, BlockIsSent
      <3> QED BY <3>1 DEF Reading
    <2>5. ASSUME NEW p \in ClientPackets, Receiving, AckReceived(p) \/ DataReceived(p)
          PROVE  UNCHANGED <<request, fd, last_packet>>
      BY <2>5 DEF Receiving, AckReceived, DataReceived
    <2> QED BY <1>0, <2>1, <2>2, <2>3, <2>4, <2>5, StepKinds
  <1>2. status = "new" => fd = "zero"
    BY <1>0 DEF SessionInv, NewIsFresh
  <1>3. valid_options_required => valid_options_required'
    BY <1>1, <1>2 DEF valid_options_required
  <1>4. window_size <= window_size'
    <2>1. CASE fd' = fd
      <3>1. window_size' = window_size
        BY <1>1, <2>1, Zenon DEF window_size
      <3>2. window_size \in Nat
        BY <1>0, WindowTyped, BlockModAssumption DEF SessionInv, WindowTypes
      <3> QED BY <3>1, <3>2
    <2>2. CASE status = "new"
      <3>1. window_size = 1
        BY <1>2, <2>2 DEF window_size
      <3>2. window_size' \in 1 .. BlockMod - 1
        BY WindowTypedNext DEF SessionInv, WindowTypes
      <3> QED BY <3>1, <3>2
    <2> QED BY <1>1, <2>1, <2>2
  <1>5. LastHasFile'
    BY <1>1, <1>2 DEF SessionFacts, LastHasFile
  <1> QED BY <1>1, <1>3, <1>4, <1>5

\* EVENT_START leaves a session open only if the tail can fetch for it.
LEMMA CanFetchNext ==
  ASSUME SessionFacts, SessionInv', [SessionNext]_sessionVars
  PROVE  CanFetch'
  <1>0. SessionInv /\ ReadFacts /\ TransferFacts /\ CanFetch /\ LastHasFile
    BY DEF SessionFacts
  <1>1. CASE status' \in {status, "error"} /\ UNCHANGED <<request, fd>>
    BY <1>0, <1>1 DEF CanFetch
  <1>2. CASE status = "idle" /\ UNCHANGED <<request, fd>>
    BY <1>0, <1>2 DEF CanFetch
  <1>3. CASE Start
    <2>1. /\ status = "new" /\ request' = request /\ should_close' = ~request.valid
          /\ window_begin' = window_begin /\ last_packet' = last_packet
          /\ next_data_packet_to_send' = next_data_packet_to_send
          /\ fd' = "file" => request.mode # "invalid"
      BY <1>3 DEF Start, start, FileOpens, is_request_valid, windowVars
    <2>2. PICK jobs : Epilogue(jobs, FetchState)
      BY <1>3 DEF Start
    <2>3. /\ fd = "zero" /\ ~is_fetching_data /\ window_begin = 1
          /\ next_data_packet_to_send = 1 /\ last_packet = -1
      BY <1>0, <2>1 DEF SessionInv, NewIsFresh, LastHasFile
    <2> SUFFICES ASSUME status' = "idle", request.type = "read", request.valid
                 PROVE  request.mode = "octet" \/ (request.mode = "netascii" /\ fd' = "file")
      BY <2>1 DEF CanFetch
    <2>4. CASE FetchesOctet(jobs, FetchState)
      BY <2>4 DEF FetchesOctet, fetch_data_octet_async
    <2>5. CASE FetchesNetascii(jobs, FetchState)
      BY <2>5, Zenon DEF FetchesNetascii, fetch_data_netascii_async
    <2>6. CASE FetchesNothing(jobs, FetchState)
      <3>1. ~ShouldFetch(FetchState)
        BY <2>6 DEF FetchesNothing, FetchFails, NoFetch
      <3>2. is_in_range(next_data_packet_to_send', window_begin',
                        Plus(window_begin', window_size' - 1))
        <4>1. window_size' \in 1 .. BlockMod - 1
          BY WindowTypedNext DEF SessionInv, WindowTypes
        <4>2. PICK w \in 1 .. BlockMod - 1 : w = window_size'
          BY <4>1, Zenon
        <4>3. w - 1 \in 0 .. BlockMod - 1 /\ 1 \in Block
          BY BlockModAssumption DEF Block
        <4>4. is_in_range(1, 1, Plus(1, w - 1))
          BY <4>3, EmptyInRange
        <4> QED BY <2>1, <2>3, <4>2, <4>4, Zenon
      <3>3. fd' = "file"
        BY <2>1, <2>3, <3>1, <3>2, FetchStateFields, Zenon DEF ShouldFetch
      <3>4. request.mode \in {"octet", "netascii", "invalid"}
        BY <1>0, SessionAssumption DEF SessionInv, TypeOK, ServerRequest
      <3> QED BY <2>1, <3>3, <3>4
    <2> QED BY <2>2, <2>4, <2>5, <2>6, EpilogueKinds
  <1>4. CASE KeepsBuffers \/ ReadsOn
    BY <1>2, <1>4 DEF KeepsBuffers, ReadsOn, Quiet
  <1>5. CASE BlockReady
    BY <1>2, <1>5 DEF BlockReady, Reading
  <1>6. CASE Receiving
    BY <1>2, <1>6 DEF Receiving
  <1>7. CASE Untouched
    BY <1>1, <1>7 DEF Untouched
  <1> QED BY <1>0, <1>3, <1>4, <1>5, <1>6, <1>7, StepKinds

\* Every step of the session keeps the facts about it.
LEMMA SessionStep ==
  ASSUME InOrder, SessionFacts, [SessionNext]_sessionVars
  PROVE  SessionFacts'
  <1>1. SessionInv /\ ReadFacts /\ TransferFacts /\ Fifo
    BY DEF SessionFacts, InOrder
  <1>2. SessionInv'
    BY <1>1, NextInv
  <1>3. ReadFacts' /\ TransferFacts'
    BY <1>1, <1>2, NextReads, NextBlocks
  <1>4. LastHasFile' /\ CanFetch'
    BY <1>2, StepFrame, CanFetchNext
  <1> QED BY <1>2, <1>3, <1>4 DEF SessionFacts

\* What a step sends.
SentForms ==
  \/ sent' \in {<<>>, <<Error>>} /\ UNCHANGED blocks
  \/ sent' = <<Oack>> /\ valid_options_required' /\ UNCHANGED blocks
  \/ sent' = Window /\ status = "idle" /\ UNCHANGED blocks
  \/ BlockReady

\* A step of the ring, or a packet that is taken out of it, sends one of these.
LEMMA RingSends ==
  ASSUME SessionFacts, request.type = "read", Start \/ RingEvent \/ PacketDropped
  PROVE  SentForms
  <1>1. CASE Start
    <2>1. UNCHANGED blocks
      BY <1>1 DEF Start, windowVars
    <2>2. sent' = CASE SendsOack -> <<Oack>>
                    [] is_request_valid /\ ~SendsOack /\ request.type = "write" -> <<Ack(0)>>
                    [] OTHER -> <<>>
      BY <1>1 DEF Start
    <2>3. CASE SendsOack
      <3>1. fd' = "file" /\ request.options /\ request' = request
        <4>1. FileOpens /\ request.options
          BY <2>3, Zenon DEF SendsOack
        <4>2. start /\ request' = request
          BY <1>1 DEF Start
        <4>3. fd' = CASE FileOpens -> "file"
                      [] is_request_valid /\ request.mode # "invalid" /\ ~request.file -> "none"
                      [] OTHER -> "zero"
          BY <4>2 DEF start
        <4>4. ~(is_request_valid /\ request.mode # "invalid" /\ ~request.file)
          BY <4>1 DEF FileOpens
        <4> QED BY <4>1, <4>2, <4>3, <4>4, Zenon
      <3>2. valid_options_required'
        BY <3>1, Zenon DEF valid_options_required
      <3> QED BY <2>1, <2>2, <2>3, <3>2 DEF SentForms
    <2>4. CASE ~SendsOack
      BY <2>1, <2>2, <2>4 DEF SentForms
    <2> QED BY <2>3, <2>4
  <1>2. CASE TimeoutHandled
    <2>1. UNCHANGED <<blocks, fd, request>> /\ status = "idle"
      BY <1>2 DEF TimeoutHandled, windowVars
    <2>2. CASE GiveUp
      BY <2>1, <2>2 DEF GiveUp, SentForms
    <2>3. CASE Retransmit
      <3>1. sent' = CASE OptionsPending -> <<Oack>>
                      [] ~OptionsPending /\ request.type = "write" ->
                           <<Ack(Pred(expected_sequence_number))>>
                      [] OTHER -> Window
        BY <2>3 DEF Retransmit
      <3>2. CASE OptionsPending
        <4>1. valid_options_required'
          BY <2>1, <3>2 DEF OptionsPending, valid_options_required
        <4> QED BY <2>1, <3>1, <3>2, <4>1 DEF SentForms
      <3>3. CASE ~OptionsPending
        BY <2>1, <3>1, <3>3 DEF SentForms
      <3> QED BY <3>2, <3>3
    <2> QED BY <1>2, <2>2, <2>3 DEF TimeoutHandled
  <1>3. CASE TimeoutIgnored \/ TimeoutCanceled \/ TimeoutRemoved \/ RecvRemoved
             \/ RecvCanceled \/ PacketDropped
    <2>1. OnlyEpilogue
      BY <1>3 DEF TimeoutIgnored, TimeoutCanceled, TimeoutRemoved, RecvRemoved,
         RecvCanceled, PacketDropped, RecvDropped
    <2> QED BY <2>1 DEF OnlyEpilogue, windowVars, SentForms
  <1>4. CASE DataAvailable
    <2>1. Reading /\ UNCHANGED writeVars
      BY <1>4 DEF DataAvailable, Reading, writeVars, recvVars
    <2>2. CASE ReadFailed
      BY <2>2 DEF ReadFailed, windowVars, SentForms
    <2>3. CASE \E n \in ReadSizes : ReadIncomplete(n)
      BY <2>3 DEF ReadIncomplete, windowVars, SentForms
    <2> QED BY <1>4, <2>1, <2>2, <2>3 DEF DataAvailable, BlockReady, SentForms
  <1> QED BY <1>1, <1>2, <1>3, <1>4 DEF RingEvent

\* So does a packet that is handled.
LEMMA PacketSends ==
  ASSUME request.type = "read", NEW p, PacketReceived(p)
  PROVE  SentForms
  <1>1. CASE Ignore \/ UnexpectedPeer(p)
    BY <1>1 DEF Ignore, UnexpectedPeer, windowVars, SentForms
  <1>2. CASE Abort(p)
    BY <1>2 DEF Abort, report_client_error, IllegalOperation, windowVars, SentForms
  <1>3. CASE AckReceived(p)
    BY <1>3 DEF AckReceived, SentForms
  <1> QED
    BY <1>1, <1>2, <1>3 DEF PacketReceived, on_packet_received, DataReceived, WriteFails

\* What is sent are blocks of the window.
LEMMA SentInWindow ==
  ASSUME InOrder, SessionFacts, SessionFacts', request.type = "read", request' = request,
         window_size <= window_size', SentForms
  PROVE  /\ blocks' \in {blocks, blocks + 1}
         /\ sent' \in Seq(ServerPackets(blocks', valid_options_required'))
         /\ \A i \in 1 .. Len(sent'), k \in 1 .. blocks' :
              sent'[i] = DataPacket(k) => blocks' < k + window_size'
  <1> DEFINE S == ServerPackets(blocks', valid_options_required')
             b2 == blocks'
             w2 == window_size'
  <1>1. WindowNumbers /\ SessionInv /\ ReadFacts /\ TransferFacts
    BY WindowIsNumbered DEF SessionFacts
  <1>2. WindowNumbers'
    <2>1. (SessionFacts /\ request.type = "read")'
      OBVIOUS
    <2> QED BY <2>1, WindowNumberedNext
  <1>3. b2 \in Nat /\ b2 <= LastBlock /\ w2 \in 1 .. BlockMod - 1
    BY <1>2 DEF WindowNumbers
  <1>4. \A k : DataPacket(k) # Error /\ DataPacket(k) # Oack
    BY DEF DataPacket, Error, Oack, Packet
  <1>5. Error \in S /\ (valid_options_required' => Oack \in S)
        /\ \A k \in 1 .. b2 : DataPacket(k) \in S
    BY DEF ServerPackets
  <1> HIDE DEF S, b2, w2
  <1>6. CASE sent' \in {<<>>, <<Error>>} /\ UNCHANGED blocks
    <2>1. b2 = blocks /\ sent' \in Seq(S)
      <3>1. CASE sent' = <<>>
        BY <1>6, <3>1 DEF b2
      <3>2. CASE sent' = <<Error>>
        BY <1>5, <1>6, <3>2 DEF b2
      <3> QED BY <1>6, <3>1, <3>2
    <2>2. \A i \in 1 .. Len(sent') : sent'[i] = Error
      BY <1>6
    <2> QED BY <1>4, <2>1, <2>2 DEF S, b2
  <1>7. CASE sent' = <<Oack>> /\ valid_options_required' /\ UNCHANGED blocks
    <2>1. b2 = blocks /\ sent' \in Seq(S)
      BY <1>5, <1>7 DEF b2
    <2>2. \A i \in 1 .. Len(sent') : sent'[i] = Oack
      BY <1>7
    <2> QED BY <1>4, <2>1, <2>2 DEF S, b2
  <1>8. CASE sent' = Window /\ status = "idle" /\ UNCHANGED blocks
    <2> DEFINE b == blocks
               u == Unacknowledged
               win == Window
    <2>1. /\ b \in Nat /\ u \in Nat /\ u <= b /\ u <= window_size
          /\ window_size \in 1 .. BlockMod - 1 /\ NumberingIsSafe
      BY <1>1 DEF WindowNumbers
    <2>2. b2 = b /\ u <= w2
      BY <1>3, <1>8, <2>1 DEF b2, w2
    <2>3. \A i \in 1 .. Len(win) : Len(win) = u /\ win[i] = DataPacket(b - u + i)
      BY <1>1, <1>8, <2>1, WindowIsSent
    <2>4. win = [i \in 1 .. u |-> win[i]] /\ DOMAIN win = 1 .. u
      BY DEF Window, Unacknowledged
    <2>7. Len(win) = u
      BY <2>1, <2>4
    <2> HIDE DEF b, u, win
    <2>5. win \in Seq(S)
      <3>1. \A i \in 1 .. u : win[i] \in S
        BY <1>5, <2>1, <2>2, <2>3, <2>7
      <3> QED
        BY <2>1, <2>4, <3>1
    <2>6. ASSUME NEW i \in 1 .. Len(win), NEW k \in 1 .. b2, win[i] = DataPacket(k)
          PROVE  b2 < k + w2
      <3>1. u = Len(win) /\ DataPacket(b - u + i) = DataPacket(k)
        BY <2>3, <2>6
      <3>2. b - u + i \in 1 .. LastBlock /\ k \in 1 .. LastBlock
        BY <1>3, <2>1, <2>2, <2>7, <3>1, LastIsPositive
      <3>3. b - u + i = k
        BY <3>1, <3>2, BlockUnique
      <3> QED BY <1>3, <2>1, <2>2, <3>3
    <2> QED BY <1>8, <2>5, <2>6 DEF win, S, b2, w2
  <1>9. CASE BlockReady
    <2>1. b2 = blocks + 1 /\ blocks \in Nat /\ sent' = <<DataPacket(blocks + 1)>>
      BY <1>1, <1>9, BlockIsSent DEF b2
    <2>2. b2 \in 1 .. b2 /\ sent' = <<DataPacket(b2)>>
      BY <2>1
    <2>3. sent' \in Seq(S) /\ Len(sent') = 1 /\ sent'[1] = DataPacket(b2)
      BY <1>5, <2>2
    <2>4. ASSUME NEW k \in 1 .. b2, DataPacket(b2) = DataPacket(k) PROVE b2 < k + w2
      <3>1. b2 \in 1 .. LastBlock /\ k \in 1 .. LastBlock
        BY <1>3, <2>2, LastIsPositive
      <3>2. b2 = k
        BY <2>4, <3>1, BlockUnique
      <3> QED BY <1>3, <3>2
    <2> QED BY <2>1, <2>3, <2>4 DEF S, b2, w2
  <1> QED BY <1>6, <1>7, <1>8, <1>9 DEF SentForms

-----------------------------------------------------------------------------
(* What the session takes for acknowledged. *)

\* What a lemma about SessionFacts says of its next state.
LEMMA FactsNext ==
  ASSUME InOrder, SessionFacts', request.type = "read", request' = request
  PROVE  WindowNumbers'
  <1>1. (SessionFacts /\ request.type = "read")'
    OBVIOUS
  <1> QED BY <1>1, WindowNumberedNext

\* The ring acknowledges nothing: a block that is sent is one more unacknowledged.
LEMMA RingAdvances ==
  ASSUME SessionFacts, SessionFacts', Start \/ RingEvent \/ PacketDropped
  PROVE  AckedBlocks' = AckedBlocks
  <1>1. SessionInv /\ SessionInv' /\ ReadFacts /\ TransferFacts
    BY DEF SessionFacts
  <1>2. CASE UNCHANGED windowVars
    BY <1>2 DEF windowVars, AckedBlocks
  <1>3. CASE BlockReady
    <2>1. PICK f \in FetchRecord : SendBlock(f)
      BY <1>1, <1>3, BlockIsReady
    <2>2. /\ window_begin' = window_begin /\ blocks' = blocks + 1
          /\ next_data_packet_to_send' = Succ(next_data_packet_to_send)
      BY <2>1 DEF SendBlock
    <2>3. /\ window_begin \in Block /\ next_data_packet_to_send \in Block /\ blocks \in Nat
          /\ Dist(window_begin, next_data_packet_to_send) \in 0 .. BlockMod - 1
      BY <1>1, WindowTyped DEF SessionInv, WindowTypes, Unacknowledged
    <2>4. Dist(window_begin, next_data_packet_to_send) + 1 < BlockMod
      <3>1. Reading
        BY <1>3 DEF BlockReady
      <3> QED BY <1>1, <3>1, FetchingFacts DEF Reading
    <2> DEFINE u == Dist(window_begin, next_data_packet_to_send)
    <2>5. Dist(window_begin, Succ(next_data_packet_to_send)) = u + 1
      BY <2>3, <2>4, SendingLengthens
    <2> DEFINE v == Dist(window_begin', next_data_packet_to_send')
    <2>6. v = u + 1
      BY <2>2, <2>5, Zenon
    <2>7. u \in Nat
      BY <2>3, BlockModAssumption
    <2>8. AckedBlocks' = blocks' - v /\ AckedBlocks = blocks - u
      BY DEF AckedBlocks
    <2> HIDE DEF u, v
    <2>9. blocks' - v = blocks - u
      BY <2>2, <2>3, <2>6, <2>7
    <2> QED BY <2>8, <2>9, Zenon
  <1>4. CASE Start
    BY <1>2, <1>4 DEF Start
  <1>5. CASE RingEvent \/ PacketDropped
    <2>1. CASE KeepsBuffers \/ ReadsOn
      BY <1>2, <2>1 DEF KeepsBuffers, ReadsOn, Quiet
    <2> QED BY <1>1, <1>3, <1>5, <2>1, RingKinds
  <1> QED BY <1>4, <1>5

\* An ACK of the client that is under way is one that the model of the clients knows,
\* and stands for the block it was sent for.
LEMMA AckIsKnown ==
  ASSUME WindowNumbers, request.type = "read", NEW hi, hi <= blocks, hi \in Nat,
         NEW m \in AckNumbers(AckedBlocks, hi, valid_options_required)
  PROVE  /\ Ack(m % BlockMod) \in ClientPackets
         /\ Dist(Succ(m % BlockMod), next_data_packet_to_send) = blocks - m
  <1> DEFINE b == blocks
             u == Unacknowledged
             age == b - m
             x == next_data_packet_to_send
             a == AckedBlocks
  <1>1. /\ b \in Nat /\ u \in Nat /\ u <= window_size /\ window_size <= MaxAge /\ u <= b
        /\ window_size \in 1 .. BlockMod - 1 /\ a = b - u
        /\ x = (b + 1) % BlockMod /\ valid_options_required \in BOOLEAN
    BY DEF WindowNumbers
  <1>2. m \in a .. hi /\ (m >= 1 \/ valid_options_required)
    BY DEF AckNumbers
  <1> HIDE DEF b, u, x, a
  <1>3. age \in 0 .. MaxAge /\ age <= b /\ age <= u /\ m \in Nat /\ m = b - age
    BY <1>1, <1>2, SessionAssumption DEF b
  <1>4. age <= b - b2n(~valid_options_required)
    <2>1. CASE valid_options_required
      BY <1>1, <1>3, <2>1 DEF b2n
    <2>2. CASE ~valid_options_required
      BY <1>1, <1>2, <2>2 DEF b2n
    <2> QED BY <2>1, <2>2
  <1>5. b % BlockMod \in Block /\ x = Succ(b % BlockMod)
    BY <1>1, NextNumber
  <1>6. x \in Block /\ Pred(x) = b % BlockMod
    BY <1>5, BlockModAssumption DEF Succ, Pred, Plus, Minus, Block
  <1>7. age \in 0 .. BlockMod - 1 /\ age + 1 < BlockMod
    BY <1>3, SessionAssumption, BlockModAssumption
  <1>8. Minus(Pred(x), age) = m % BlockMod
    BY <1>1, <1>3, <1>6, <1>7, BackMod
  <1>9. Dist(Succ(m % BlockMod), x) = age
    BY <1>6, <1>7, <1>8, AgeIsDistance
  <1>10. age \in AckAges
    BY <1>3, <1>4 DEF AckAges, b, u, Unacknowledged
  <1> HIDE DEF age
  <1>11. Ack(m % BlockMod) \in ClientAcks
    BY <1>8, <1>10 DEF ClientAcks, x
  <1> QED BY <1>9, <1>11 DEF ClientPackets, age, b, x

\* What the session has received so far and what it does with one more packet.
LEMMA PacketAdvances ==
  ASSUME SessionFacts, request.type = "read", NEW p, PacketReceived(p)
  PROVE  /\ blocks' = blocks
         /\ \/ AckedBlocks' = AckedBlocks
            \/ /\ p.op = "ACK"
               /\ AckedBlocks' = blocks - Dist(Succ(p.block), next_data_packet_to_send)
  <1>1. CASE UNCHANGED windowVars
    BY <1>1 DEF windowVars, AckedBlocks
  <1>2. CASE Ignore \/ UnexpectedPeer(p) \/ Abort(p)
    BY <1>1, <1>2 DEF Ignore, UnexpectedPeer, Abort
  <1>3. CASE AckReceived(p)
    BY <1>3 DEF AckReceived, AckedBlocks
  <1> QED
    BY <1>2, <1>3 DEF PacketReceived, on_packet_received, DataReceived, WriteFails

-----------------------------------------------------------------------------
(* The steps of a get. *)

\* The session moves while the client waits; a says what becomes of its ACKs.
LEMMA SessionMoves ==
  ASSUME InOrder, GetInv, [SessionNext]_sessionVars, SentForms, UNCHANGED clientVars,
         \/ ServerSends
         \/ s2c' = s2c /\ blocks' = blocks,
         AckedBlocks' <= c_blocks,
         c2s' \in Seq(GetPackets(AckedBlocks', c_blocks, valid_options_required)),
         Len(c2s') <= ChanCap, AcksRise(c2s', AckedBlocks', c_blocks)
  PROVE  GetInv'
  <1>1. /\ request.type = "read" /\ request.valid /\ SessionFacts /\ NeverAhead
        /\ ClientFacts(valid_options_required) /\ DataUnderWay
    BY DEF GetInv
  <1>2. SessionFacts'
    BY <1>1, SessionStep
  <1>3. /\ request' = request /\ window_size <= window_size'
        /\ valid_options_required => valid_options_required'
    BY <1>1, <1>2, StepFrame DEF SessionFacts
  <1>4. WindowNumbers /\ WindowNumbers'
    BY <1>1, <1>2, <1>3, WindowIsNumbered, FactsNext
  <1>5. UNCHANGED <<c_options, c_tsize, c_status, is_first_receive, c_expected_sequence_number,
                    c_file, last_packet_sent, retransmissions,
                    server_may_not_support_options, c_blocks>>
    BY DEF clientVars
  <1> DEFINE b == blocks
             b2 == blocks'
             o == valid_options_required
             o2 == valid_options_required'
             w == window_size
             w2 == window_size'
             a == c_blocks
             pkts == sent'
  <1>6. /\ b2 \in {b, b + 1} /\ pkts \in Seq(ServerPackets(b2, o2))
        /\ \A i \in 1 .. Len(pkts), k \in 1 .. b2 : pkts[i] = DataPacket(k) => b2 < k + w2
    BY <1>1, <1>2, <1>3, SentInWindow
  <1>7. /\ b \in Nat /\ b2 \in Nat /\ b2 <= LastBlock /\ o \in BOOLEAN /\ o2 \in BOOLEAN
        /\ w \in Nat /\ w2 \in Nat /\ w <= w2 /\ (o => o2)
    BY <1>3, <1>4, BlockModAssumption DEF WindowNumbers
  <1>8. a \in Nat /\ a <= b
    BY <1>1, LastIsPositive DEF NeverAhead, ClientFacts, ClientTypes
  <1>9. s2c \in Seq(ServerPackets(b, o)) /\ InWindow(s2c, w, a, b) /\ Len(s2c) <= ChanCap
    BY <1>1 DEF DataUnderWay
  <1>10. ClientFacts(valid_options_required)'
    BY <1>1, <1>3, <1>5, Zenon DEF ClientFacts, ClientTypes, ClientStores, ClientResends, FirstIsClean,
       UnsupportedMeansUntouched
  <1> HIDE DEF b, b2, o, o2, w, w2, a, pkts
  <1>11. b <= b2 /\ a <= b2
    BY <1>6, <1>7, <1>8
  <1>12. /\ s2c' \in Seq(ServerPackets(b2, o2)) /\ Len(s2c') <= ChanCap
         /\ InWindow(s2c', w2, a, b2)
    <2>1. CASE s2c' = Transmit(s2c, pkts)
      BY <1>6, <1>7, <1>8, <1>9, <1>11, <2>1, WindowSent
    <2>2. CASE s2c' = s2c /\ b2 = b
      <3>1. ServerPackets(b, o) \subseteq ServerPackets(b2, o2)
        BY <1>7, <2>2 DEF ServerPackets
      <3>2. InWindow(s2c, w2, a, b2)
        <4>1. ASSUME NEW x \in Nat, NEW y \in Nat, x < y + w PROVE x < y + w2
          BY <1>7, <4>1
        <4>2. \A i \in 1 .. Len(s2c), k \in 1 .. b : s2c[i] = DataPacket(k) => a < k + w2
          BY <1>8, <1>9, <4>1 DEF InWindow
        <4>3. \A i, j \in 1 .. Len(s2c), k, l \in 1 .. b :
                i < j /\ s2c[i] = DataPacket(k) /\ s2c[j] = DataPacket(l) => k < l + w2
          BY <1>7, <1>9, <4>1 DEF InWindow
        <4> QED BY <2>2, <4>2, <4>3 DEF InWindow
      <3> QED BY <1>9, <2>2, <3>1, <3>2
    <2> QED BY <2>1, <2>2 DEF ServerSends, pkts, b, b2
  <1>13. DataUnderWay'
    BY <1>5, <1>12 DEF DataUnderWay, a, b2, o2, w2
  <1>14. NeverAhead'
    BY <1>5, <1>11 DEF NeverAhead, a, b2
  <1>15. AcksUnderWay'
    <2>1. GetPackets(AckedBlocks', c_blocks, o) \subseteq GetPackets(AckedBlocks', c_blocks, o2)
      BY <1>7, Zenon DEF GetPackets, AckNumbers
    <2>2. c2s' \in Seq(GetPackets(AckedBlocks', c_blocks, o2))
      BY <2>1 DEF o
    <2> QED BY <1>5, <2>2 DEF AcksUnderWay, o2
  <1> QED BY <1>1, <1>2, <1>3, <1>10, <1>13, <1>14, <1>15 DEF GetInv, o2

\* The client moves while the session waits; the channel of the blocks is as it is after
\* the step.
LEMMA ClientMoves ==
  ASSUME InOrder, GetInv, UNCHANGED sessionVars, ClientFacts(valid_options_required)',
         SendsLast, c_blocks' = c_blocks \/ c_blocks' = c_blocks + 1, c_blocks' <= blocks,
         ClientSends, DataUnderWay'
  PROVE  GetInv'
  <1>1. /\ request.type = "read" /\ request.valid /\ SessionFacts /\ NeverAhead
        /\ ClientFacts(valid_options_required) /\ AcksUnderWay
    BY DEF GetInv
  <1>2. SessionFacts'
    BY <1>1, SessionStep
  <1>3. /\ UNCHANGED <<request, blocks>>
        /\ AckedBlocks' = AckedBlocks /\ valid_options_required' = valid_options_required
    BY DEF sessionVars, windowVars, AckedBlocks, valid_options_required
  <1> DEFINE lo == AckedBlocks
             hi == c_blocks
             hi2 == c_blocks'
             o == valid_options_required
             pkts == IF is_first_receive' /\ c_sent' = <<Rrq>> THEN <<>> ELSE c_sent'
  <1>4. /\ o \in BOOLEAN /\ lo \in Nat /\ blocks \in Nat /\ blocks - lo < BlockMod
    <2>1. WindowNumbers
      BY <1>1, WindowIsNumbered
    <2> DEFINE u == Unacknowledged
    <2>2. /\ lo = blocks - u /\ u \in Nat /\ u <= window_size /\ blocks \in Nat /\ lo \in Nat
          /\ window_size \in 1 .. BlockMod - 1 /\ o \in BOOLEAN
      BY <2>1 DEF WindowNumbers
    <2> HIDE DEF lo, u, o
    <2> QED BY <2>2, BlockModAssumption
  <1>5. hi \in Nat /\ lo <= hi /\ (hi2 = hi \/ hi2 = hi + 1) /\ hi2 <= blocks
    BY <1>1, LastIsPositive DEF NeverAhead, ClientFacts, ClientTypes
  <1>6. c2s \in Seq(GetPackets(lo, hi, o)) /\ AcksRise(c2s, lo, hi)
    BY <1>1 DEF AcksUnderWay
  <1>7. /\ last_packet_sent' = Rrq \/ last_packet_sent' = Ack(hi2 % BlockMod)
        /\ last_packet_sent' = Ack(hi2 % BlockMod) /\ hi2 = 0 => o
    <2>1. (ClientResends(valid_options_required))'
      BY DEF ClientFacts
    <2>2. Rrq # Ack(hi2 % BlockMod)
      BY DEF Rrq, Ack, Packet
    <2> QED BY <1>3, <2>1, <2>2 DEF ClientResends
  <1>8. pkts = <<>> \/ \E p \in {Error, Rrq, last_packet_sent'} : pkts = <<p>>
    BY DEF SendsLast
  <1> HIDE DEF lo, hi, hi2, o, pkts
  <1>9. hi2 \in Nat /\ hi <= hi2 /\ hi2 - lo < BlockMod
    BY <1>4, <1>5, BlockModAssumption
  <1>10. pkts = <<>> \/ \E p \in {Error, Rrq, Ack(hi2 % BlockMod)} : pkts = <<p>>
    BY <1>7, <1>8
  <1>11. pkts = <<Ack(hi2 % BlockMod)>> => hi2 >= 1 \/ o
    <2>1. Ack(hi2 % BlockMod) # Error /\ Ack(hi2 % BlockMod) # Rrq
      BY DEF Rrq, Error, Ack, Packet
    <2> QED BY <1>7, <1>8, <1>9, <2>1
  <1>12. /\ Transmit(c2s, pkts) \in Seq(GetPackets(lo, hi2, o))
         /\ Len(Transmit(c2s, pkts)) <= ChanCap /\ AcksRise(Transmit(c2s, pkts), lo, hi2)
    BY <1>4, <1>5, <1>6, <1>9, <1>10, <1>11, AckSent
  <1>13. AcksUnderWay'
    BY <1>3, <1>12 DEF AcksUnderWay, ClientSends, lo, hi2, o, pkts
  <1>14. NeverAhead'
    <2>1. lo <= hi2
      BY <1>4, <1>5, <1>9
    <2> QED BY <1>3, <1>5, <2>1 DEF NeverAhead, lo, hi2
  <1> QED BY <1>1, <1>2, <1>3, <1>13, <1>14 DEF GetInv

\* The session's ring completes something while the ACKs stay under way.
LEMMA ServerRunsStep ==
  ASSUME InOrder, GetInv, ServerRuns
  PROVE  GetInv' /\ [SessionNext]_sessionVars
  <1>1. /\ request.type = "read" /\ SessionFacts /\ NeverAhead /\ AcksUnderWay
    BY DEF GetInv
  <1>2. Start \/ RingEvent
    BY DEF ServerRuns
  <1>3. SessionNext
    BY <1>2 DEF SessionNext
  <1>4. SessionFacts' /\ SentForms /\ AckedBlocks' = AckedBlocks
    BY <1>1, <1>2, <1>3, SessionStep, RingSends, RingAdvances
  <1>5. ServerSends /\ UNCHANGED clientVars /\ c2s' = c2s
    BY DEF ServerRuns
  <1>6. /\ c2s' \in Seq(GetPackets(AckedBlocks', c_blocks, valid_options_required))
        /\ Len(c2s') <= ChanCap /\ AcksRise(c2s', AckedBlocks', c_blocks)
        /\ AckedBlocks' <= c_blocks
    BY <1>1, <1>4, <1>5, Zenon DEF AcksUnderWay, NeverAhead
  <1> QED BY <1>3, <1>4, <1>5, <1>6, SessionMoves

\* A call of the session failed, a timer fired or nothing happened: nothing is sent.
LEMMA SessionRests ==
  ASSUME InOrder, GetInv, SyscallFailure \/ TimerFires \/ UNCHANGED sessionVars,
         UNCHANGED clientVars, s2c' = s2c \/ s2c' \in Losing(s2c),
         c2s' = c2s \/ c2s' \in Losing(c2s)
  PROVE  GetInv' /\ [SessionNext]_sessionVars
  <1>1. /\ request.type = "read" /\ SessionFacts /\ NeverAhead /\ AcksUnderWay
        /\ DataUnderWay /\ ClientFacts(valid_options_required) /\ request.valid
    BY DEF GetInv
  <1>2. [SessionNext]_sessionVars
    BY DEF SessionNext
  <1>3. SessionFacts'
    BY <1>1, <1>2, SessionStep
  <1>4. UNCHANGED <<request, fd, windowVars>>
    BY DEF SyscallFailure, TimerFires, sessionVars
  <1>5. /\ UNCHANGED <<request, blocks>>
        /\ AckedBlocks' = AckedBlocks /\ valid_options_required' = valid_options_required
        /\ window_size' = window_size
    BY <1>4, Zenon DEF windowVars, AckedBlocks, valid_options_required, window_size
  <1>6. UNCHANGED <<c_options, c_tsize, c_status, is_first_receive, c_expected_sequence_number,
                    c_file, last_packet_sent, retransmissions,
                    server_may_not_support_options, c_blocks>>
    BY DEF clientVars
  <1>7. ClientFacts(valid_options_required)'
    BY <1>1, <1>5, <1>6, Zenon DEF ClientFacts, ClientTypes, ClientStores, ClientResends,
       FirstIsClean, UnsupportedMeansUntouched
  <1>8. NeverAhead'
    BY <1>1, <1>5, <1>6, Zenon DEF NeverAhead
  <1> DEFINE b == blocks
             o == valid_options_required
             w == window_size
             a == c_blocks
             lo == AckedBlocks
  <1>9. b \in Nat /\ w \in Nat /\ a \in Nat /\ lo \in Nat
    <2>1. WindowNumbers
      BY <1>1, WindowIsNumbered
    <2> QED
      BY <1>1, <2>1, BlockModAssumption, LastIsPositive
      DEF WindowNumbers, ClientFacts, ClientTypes
  <1>10. s2c \in Seq(ServerPackets(b, o)) /\ InWindow(s2c, w, a, b) /\ Len(s2c) <= ChanCap
    BY <1>1 DEF DataUnderWay
  <1>11. c2s \in Seq(GetPackets(lo, a, o)) /\ AcksRise(c2s, lo, a) /\ Len(c2s) <= ChanCap
    BY <1>1 DEF AcksUnderWay
  <1> HIDE DEF b, o, w, a, lo
  <1>12. s2c' \in Seq(ServerPackets(b, o)) /\ InWindow(s2c', w, a, b) /\ Len(s2c') <= ChanCap
    BY <1>9, <1>10, WindowThinned DEF Losing
  <1>13. c2s' \in Seq(GetPackets(lo, a, o)) /\ AcksRise(c2s', lo, a) /\ Len(c2s') <= ChanCap
    BY <1>9, <1>11, AcksThinned DEF Losing
  <1>14. DataUnderWay'
    BY <1>5, <1>6, <1>12 DEF DataUnderWay, b, o, w, a
  <1>15. AcksUnderWay'
    BY <1>5, <1>6, <1>13 DEF AcksUnderWay, lo, a, o
  <1> QED BY <1>1, <1>2, <1>3, <1>5, <1>7, <1>8, <1>14, <1>15 DEF GetInv

\* Where packets stay in order the first one arrives.
LEMMA FirstArrives ==
  ASSUME InOrder, NEW S, NEW channel \in Seq(S), NEW i \in Arriving(channel)
  PROVE  i = 1 /\ i \in 1 .. Len(channel) /\ Len(channel) \in Nat \ {0}
  <1>1. i \in 1 .. Least(1, Len(channel)) /\ Len(channel) \in Nat
    BY DEF InOrder, Arriving
  <1> QED BY <1>1 DEF Least

\* The packet that reaches the session is one that the model of its clients sends.
LEMMA ArrivalIsKnown ==
  ASSUME InOrder, GetInv, 1 \in 1 .. Len(c2s), NEW p,
         p = [c2s[1] EXCEPT !.op = IF @ = "RRQ" THEN "OTHER" ELSE @]
  PROVE  /\ p \in ClientPackets
         /\ p.op = "ACK" =>
              \E m \in AckedBlocks .. c_blocks :
                /\ c2s[1] = Ack(m % BlockMod)
                /\ Dist(Succ(p.block), next_data_packet_to_send) = blocks - m
  <1>1. /\ request.type = "read" /\ SessionFacts /\ NeverAhead /\ AcksUnderWay
        /\ ClientTypes
    BY DEF GetInv, ClientFacts
  <1>2. WindowNumbers
    BY <1>1, WindowIsNumbered
  <1>3. c2s[1] \in GetPackets(AckedBlocks, c_blocks, valid_options_required)
    BY <1>1 DEF AcksUnderWay
  <1>4. CASE c2s[1] = Error
    <2>1. p = Packet("ERROR", 0, <<>>)
      BY <1>4 DEF Error, Packet
    <2> QED BY <2>1 DEF ClientPackets, Packet
  <1>5. CASE c2s[1] = Rrq
    <2>1. p = Packet("OTHER", 0, <<>>)
      BY <1>5 DEF Rrq, Packet
    <2> QED BY <2>1 DEF ClientPackets, Packet
  <1>6. CASE \E m \in AckNumbers(AckedBlocks, c_blocks, valid_options_required) :
               c2s[1] = Ack(m % BlockMod)
    <2>1. PICK m \in AckNumbers(AckedBlocks, c_blocks, valid_options_required) :
            c2s[1] = Ack(m % BlockMod)
      BY <1>6
    <2>2. p = Ack(m % BlockMod) /\ p.block = m % BlockMod
      BY <2>1 DEF Ack, Packet
    <2>3. c_blocks \in Nat /\ c_blocks <= blocks
      BY <1>1, LastIsPositive DEF ClientTypes, NeverAhead
    <2>4. /\ Ack(m % BlockMod) \in ClientPackets
          /\ Dist(Succ(m % BlockMod), next_data_packet_to_send) = blocks - m
      BY <1>1, <1>2, <2>3, AckIsKnown
    <2>5. m \in AckedBlocks .. c_blocks
      BY DEF AckNumbers
    <2> QED BY <2>1, <2>2, <2>4, <2>5
  <1> QED BY <1>3, <1>4, <1>5, <1>6 DEF GetPackets

\* A packet of the client reaches the session.
LEMMA ServerReceivesStep ==
  ASSUME InOrder, GetInv, ServerReceives
  PROVE  GetInv' /\ [SessionNext]_sessionVars
  <1>1. /\ request.type = "read" /\ SessionFacts /\ NeverAhead /\ AcksUnderWay /\ ClientTypes
    BY DEF GetInv, ClientFacts
  <1> DEFINE lo == AckedBlocks
             hi == c_blocks
             o == valid_options_required
             b == blocks
  <1>2. c2s \in Seq(GetPackets(lo, hi, o)) /\ AcksRise(c2s, lo, hi) /\ Len(c2s) <= ChanCap
    BY <1>1 DEF AcksUnderWay
  <1>3. /\ lo \in Nat /\ hi \in Nat /\ b \in Nat /\ lo <= hi /\ hi <= b /\ hi - lo < BlockMod
    <2>1. WindowNumbers
      BY <1>1, WindowIsNumbered
    <2> DEFINE u == Unacknowledged
    <2>2. /\ lo = b - u /\ u \in Nat /\ u <= window_size /\ b \in Nat /\ lo \in Nat
          /\ window_size \in 1 .. BlockMod - 1 /\ lo <= hi /\ hi <= b /\ hi \in Nat
      BY <1>1, <2>1, LastIsPositive DEF WindowNumbers, NeverAhead, ClientTypes
    <2> HIDE DEF lo, hi, b, u
    <2> QED BY <2>2, BlockModAssumption
  <1>4. PICK i \in Arriving(c2s) :
          /\ \/ PacketReceived([c2s[i] EXCEPT !.op = IF @ = "RRQ" THEN "OTHER" ELSE @])
             \/ PacketDropped
          /\ \E rest \in Remaining(c2s, i) : c2s' = rest
    BY DEF ServerReceives
  <1>5. i = 1 /\ 1 \in 1 .. Len(c2s) /\ Len(c2s) \in Nat \ {0}
    BY <1>2, <1>4, FirstArrives
  <1> DEFINE p == [c2s[1] EXCEPT !.op = IF @ = "RRQ" THEN "OTHER" ELSE @]
  <1>6. PacketReceived(p) \/ PacketDropped
    BY <1>4, <1>5
  <1>7. c2s' = c2s \/ c2s' = RemoveAt(c2s, 1)
    BY <1>4, <1>5 DEF Remaining
  <1>8. ServerSends /\ UNCHANGED clientVars
    BY DEF ServerReceives
  <1>9. /\ p \in ClientPackets
        /\ p.op = "ACK" => \E m \in lo .. hi :
                             /\ c2s[1] = Ack(m % BlockMod)
                             /\ Dist(Succ(p.block), next_data_packet_to_send) = b - m
    BY <1>5, ArrivalIsKnown
  <1> HIDE DEF p
  <1>10. SessionNext
    BY <1>6, <1>9 DEF SessionNext, PacketArrives
  <1>11. SessionFacts'
    BY <1>1, <1>10, SessionStep
  <1>12. SentForms
    BY <1>1, <1>6, RingSends, PacketSends
  <1>13. \E m \in lo .. hi : /\ AckedBlocks' = m
                             /\ m = lo \/ c2s[1] = Ack(m % BlockMod)
    <2>1. CASE AckedBlocks' = lo
      BY <1>3, <2>1
    <2>2. CASE AckedBlocks' # lo
      <3>1. /\ p.op = "ACK"
            /\ AckedBlocks' = b - Dist(Succ(p.block), next_data_packet_to_send)
        BY <1>1, <1>6, <1>11, <2>2, RingAdvances, PacketAdvances
      <3>2. PICK m \in lo .. hi :
              /\ c2s[1] = Ack(m % BlockMod)
              /\ Dist(Succ(p.block), next_data_packet_to_send) = b - m
        BY <1>9, <3>1
      <3>3. AckedBlocks' = b - (b - m)
        BY <3>1, <3>2, Zenon
      <3> HIDE DEF lo, hi, b
      <3>4. b - (b - m) = m
        BY <1>3
      <3> QED BY <3>2, <3>3, <3>4 DEF lo
    <2> QED BY <2>1, <2>2
  <1>14. PICK m \in lo .. hi : /\ AckedBlocks' = m
                               /\ m = lo \/ c2s[1] = Ack(m % BlockMod)
    BY <1>13
  <1> HIDE DEF lo, hi, o, b
  <1>15. c2s \in Seq(GetPackets(m, hi, o)) /\ AcksRise(c2s, m, hi) /\ m \in Nat /\ m <= hi
    BY <1>2, <1>3, <1>5, <1>14, OldestAckTaken
  <1>16. c2s' \in Seq(GetPackets(m, hi, o)) /\ AcksRise(c2s', m, hi) /\ Len(c2s') <= ChanCap
    BY <1>2, <1>3, <1>5, <1>7, <1>15, AcksThinned
  <1>17. /\ c2s' \in Seq(GetPackets(AckedBlocks', c_blocks, valid_options_required))
         /\ Len(c2s') <= ChanCap /\ AcksRise(c2s', AckedBlocks', c_blocks)
         /\ AckedBlocks' <= c_blocks
    BY <1>14, <1>15, <1>16, Zenon DEF hi, o
  <1> QED BY <1>8, <1>10, <1>12, <1>17, SessionMoves

\* A packet of somebody else reaches the session.
LEMMA StrangerReachesSessionStep ==
  ASSUME InOrder, GetInv, StrangerReachesSession
  PROVE  GetInv' /\ [SessionNext]_sessionVars
  <1> DEFINE p == Packet("STRANGER", 0, <<>>)
  <1>1. /\ request.type = "read" /\ SessionFacts /\ NeverAhead /\ AcksUnderWay
    BY DEF GetInv
  <1>2. PacketReceived(p) /\ UNCHANGED <<clientVars, c2s, s2c>>
    BY DEF StrangerReachesSession
  <1>3. p \in ClientPackets /\ p.op # "ACK"
    BY DEF ClientPackets, Packet
  <1> HIDE DEF p
  <1>4. SessionNext
    BY <1>2, <1>3 DEF SessionNext, PacketArrives
  <1>5. SentForms
    BY <1>1, <1>2, PacketSends
  <1>6. AckedBlocks' = AckedBlocks /\ blocks' = blocks
    BY <1>1, <1>2, <1>3, PacketAdvances
  <1>7. /\ c2s' \in Seq(GetPackets(AckedBlocks', c_blocks, valid_options_required))
        /\ Len(c2s') <= ChanCap /\ AcksRise(c2s', AckedBlocks', c_blocks)
        /\ AckedBlocks' <= c_blocks
    BY <1>1, <1>2, <1>6, Zenon DEF AcksUnderWay, NeverAhead
  <1> QED BY <1>2, <1>4, <1>5, <1>6, <1>7, SessionMoves

\* While the session waits its options stay as they are, and so does what the client may
\* resend.
LEMMA ClientKeepsFacts ==
  ASSUME NEW o, o = valid_options_required, UNCHANGED sessionVars, ClientFacts(o)'
  PROVE  ClientFacts(valid_options_required)'
  <1>1. valid_options_required' = o
    BY DEF sessionVars, valid_options_required
  <1> QED
    BY <1>1, Zenon DEF ClientFacts, ClientTypes, ClientStores, ClientResends, FirstIsClean,
       UnsupportedMeansUntouched

\* The client times out, fails or hears from somebody else: it accepts no block.
LEMMA ClientWaits ==
  ASSUME InOrder, GetInv, UNCHANGED <<sessionVars, s2c>>, ClientSends,
         NEW o, o = valid_options_required, ClientFacts(o)', SendsLast, c_blocks' = c_blocks
  PROVE  GetInv'
  <1>1. ClientFacts(valid_options_required)'
    BY ClientKeepsFacts
  <1>2. c_blocks' <= blocks /\ DataUnderWay
    BY DEF GetInv, NeverAhead
  <1>3. UNCHANGED <<blocks, valid_options_required, window_size, c_blocks, s2c>>
    BY DEF sessionVars, windowVars, valid_options_required, window_size
  <1>4. DataUnderWay'
    BY <1>2, <1>3, Zenon DEF DataUnderWay
  <1> QED BY <1>1, <1>2, <1>4, ClientMoves

LEMMA ClientTimesOutStep ==
  ASSUME InOrder, GetInv, ClientTimesOut \/ ClientCrashes
  PROVE  GetInv' /\ UNCHANGED sessionVars /\ ClientProgress
  <1>1. (ClientTimeout \/ ClientFault) /\ ClientSends /\ UNCHANGED <<sessionVars, s2c>>
    BY DEF ClientTimesOut, ClientCrashes
  <1>2. PICK o \in BOOLEAN : o = valid_options_required
    <2>1. WindowNumbers
      BY WindowIsNumbered DEF GetInv
    <2> QED BY <2>1 DEF WindowNumbers
  <1>3. ClientFacts(o)' /\ c_blocks' = c_blocks /\ SendsLast /\ ClientProgress
    <2>1. ClientFacts(o)
      BY <1>2, Zenon DEF GetInv
    <2> QED BY <1>1, <2>1, ClientTimeoutStep
  <1> QED BY <1>1, <1>2, <1>3, ClientWaits

\* A packet of somebody else reaches the client.
LEMMA StrangerReachesClientStep ==
  ASSUME InOrder, GetInv, StrangerReachesClient
  PROVE  GetInv' /\ UNCHANGED sessionVars /\ ClientProgress
  <1>1. /\ \E op \in {"STRANGER", "EMPTY"} : ClientReceives(Packet(op, 0, <<>>))
        /\ ClientSends /\ UNCHANGED <<sessionVars, s2c>>
    BY DEF StrangerReachesClient
  <1>2. PICK p \in {Packet("STRANGER", 0, <<>>), Packet("EMPTY", 0, <<>>)} : ClientReceives(p)
    BY <1>1
  <1>3. p.op # "OACK" /\ p.op # "DATA" /\ \A k : p # DataPacket(k)
    BY DEF Packet, DataPacket
  <1>4. PICK o \in BOOLEAN : o = valid_options_required
    <2>1. WindowNumbers
      BY WindowIsNumbered DEF GetInv
    <2> QED BY <2>1 DEF WindowNumbers
  <1>5. ClientFacts(o)' /\ c_blocks' = c_blocks /\ SendsLast /\ ClientProgress
    <2>1. ClientFacts(o)
      BY <1>4, Zenon DEF GetInv
    <2>2. OnlyNextExpected(p)
      BY <1>3 DEF OnlyNextExpected
    <2> QED BY <1>2, <1>3, <2>1, <2>2, ClientReceivesStep
  <1> QED BY <1>1, <1>4, <1>5, ClientWaits

\* A packet of the session reaches the client.
LEMMA ClientRunsStep ==
  ASSUME InOrder, GetInv, ClientRuns
  PROVE  GetInv' /\ UNCHANGED sessionVars /\ ClientProgress
  <1>1. /\ request.type = "read" /\ SessionFacts /\ NeverAhead /\ DataUnderWay
        /\ ClientFacts(valid_options_required) /\ ClientTypes
    BY DEF GetInv, ClientFacts
  <1> DEFINE b == blocks
             a == c_blocks
             w == window_size
  <1>2. PICK o \in BOOLEAN : o = valid_options_required
    <2>1. WindowNumbers
      BY <1>1, WindowIsNumbered
    <2> QED BY <2>1 DEF WindowNumbers
  <1>3. s2c \in Seq(ServerPackets(b, o)) /\ InWindow(s2c, w, a, b) /\ Len(s2c) <= ChanCap
    BY <1>1, <1>2 DEF DataUnderWay
  <1>4. /\ a \in Nat /\ b \in Nat /\ a <= b /\ b <= a + w /\ w \in 1 .. BlockMod - 1
        /\ b <= LastBlock
    <2>1. WindowNumbers
      BY <1>1, WindowIsNumbered
    <2> DEFINE u == Unacknowledged
               lo == AckedBlocks
    <2>2. /\ lo = b - u /\ u \in Nat /\ u <= w /\ b \in Nat /\ lo \in Nat /\ b <= LastBlock
          /\ w \in 1 .. BlockMod - 1 /\ lo <= a /\ a <= b /\ a \in Nat
      BY <1>1, <2>1, LastIsPositive DEF WindowNumbers, NeverAhead, ClientTypes
    <2> HIDE DEF a, b, w, lo, u
    <2> QED BY <2>2, BlockModAssumption
  <1>5. PICK i \in Arriving(s2c) :
          /\ ClientReceives(s2c[i])
          /\ \E rest \in Remaining(s2c, i) : s2c' = rest
    BY DEF ClientRuns
  <1>6. i = 1 /\ 1 \in 1 .. Len(s2c) /\ Len(s2c) \in Nat \ {0}
    BY <1>3, <1>5, FirstArrives
  <1> DEFINE p == s2c[1]
  <1>7. /\ ClientReceives(p) /\ ClientSends /\ UNCHANGED sessionVars
        /\ s2c' = s2c \/ s2c' = RemoveAt(s2c, 1)
    BY <1>5, <1>6 DEF ClientRuns, Remaining
  <1>8. p \in ServerPackets(b, o)
    BY <1>3, <1>6
  <1>9. p.op = "OACK" => o
    BY <1>8 DEF ServerPackets, Error, DataPacket, Packet
  <1>10. OnlyNextExpected(p)
    <2>1. CASE p.op = "DATA"
      <3>1. PICK k \in 1 .. b : p = DataPacket(k)
        BY <1>8, <2>1 DEF ServerPackets, Error, Oack, Packet
      <3>2. a < k + w
        BY <1>3, <1>6, <3>1 DEF InWindow
      <3> HIDE DEF a, b, w, p
      <3>3. k \in 1 .. LastBlock /\ k <= a + w /\ k \in Nat
        BY <1>4, LastIsPositive
      <3>4. k % BlockMod = (a + 1) % BlockMod => k = a + 1
        BY <1>4, <3>2, <3>3, BlockIsNext
      <3> QED BY <3>1, <3>3, <3>4 DEF OnlyNextExpected, a
    <2> QED BY <2>1 DEF OnlyNextExpected
  <1>11. /\ ClientFacts(o)' /\ SendsLast /\ ClientProgress
         /\ c_blocks' = c_blocks \/ (c_blocks' = c_blocks + 1 /\ p = DataPacket(c_blocks + 1))
    <2>1. ClientFacts(o)
      BY <1>1, <1>2, Zenon
    <2> HIDE DEF p
    <2> QED BY <1>7, <1>9, <1>10, <2>1, ClientReceivesStep
  <1>12. ClientFacts(valid_options_required)'
    BY <1>2, <1>7, <1>11, ClientKeepsFacts
  <1>13. UNCHANGED <<blocks, valid_options_required, window_size>>
    BY <1>7 DEF sessionVars, windowVars, valid_options_required, window_size
  <1> DEFINE a2 == c_blocks'
  <1>14. a2 \in Nat /\ a2 <= LastBlock
    BY <1>11, LastIsPositive DEF ClientFacts, ClientTypes
  <1> HIDE DEF a, b, w, p, a2
  <1>15. InWindow(s2c, w, a2, b) /\ a2 <= b /\ (a2 = a \/ a2 = a + 1)
    <2>1. CASE a2 = a
      BY <1>3, <1>4, <2>1
    <2>2. CASE a2 = a + 1 /\ p = DataPacket(a + 1)
      <3>1. p # Error /\ p # Oack
        BY <2>2 DEF DataPacket, Error, Oack, Packet
      <3>2. PICK k \in 1 .. b : p = DataPacket(k)
        BY <1>8, <3>1 DEF ServerPackets
      <3>3. k \in 1 .. LastBlock /\ a + 1 \in 1 .. LastBlock
        BY <1>4, <1>14, <2>2, LastIsPositive
      <3>4. k = a + 1
        BY <2>2, <3>2, <3>3, BlockUnique
      <3>5. a + 1 \in 1 .. b /\ w \in Nat \ {0}
        BY <1>4, <3>4
      <3> QED BY <1>3, <1>4, <1>6, <2>2, <3>5, WindowTaken DEF p
    <2> QED BY <1>11, <2>1, <2>2 DEF a, a2
  <1>16. s2c' \in Seq(ServerPackets(b, o)) /\ InWindow(s2c', w, a2, b) /\ Len(s2c') <= ChanCap
    BY <1>3, <1>4, <1>6, <1>7, <1>14, <1>15, WindowThinned
  <1>17. DataUnderWay'
    BY <1>2, <1>13, <1>16 DEF DataUnderWay, b, w, a2
  <1> QED BY <1>7, <1>11, <1>12, <1>15, <1>17, ClientMoves DEF a, a2, b

\* Before the first packet nothing is under way.
LEMMA InitGetInv ==
  ASSUME InOrder, GetInit
  PROVE  GetInv
  <1>1. SessionInit /\ ClientInit /\ request.type = "read" /\ request.valid
        /\ s2c = <<>> /\ c2s = <<>>
    BY DEF GetInit
  <1>2. SessionFacts
    <2>1. SessionInv /\ ReadFacts /\ TransferFacts
      BY <1>1, InitInv, InitReads, InitBlocks
    <2>2. LastHasFile /\ CanFetch
      BY <1>1 DEF SessionInit, LastHasFile, CanFetch
    <2> QED BY <2>1, <2>2 DEF SessionFacts
  <1>3. /\ window_begin = 1 /\ next_data_packet_to_send = 1 /\ blocks = 0
    BY <1>1 DEF SessionInit
  <1>4. AckedBlocks = 0
    BY <1>3 DEF AckedBlocks, Dist, Minus
  <1>5. /\ c_options \in ClientOptionSet /\ c_tsize = 0 /\ c_status = "receiving"
        /\ is_first_receive = TRUE /\ c_expected_sequence_number = 1 /\ c_file = <<>>
        /\ last_packet_sent = Rrq /\ retransmissions = 0
        /\ server_may_not_support_options = FALSE /\ c_blocks = 0
    BY <1>1, ClientAssumption DEF ClientInit
  <1>6. 0 + 1 = 1 /\ 1 = 1 % BlockMod /\ 1 \in Block
    <2>1. BlockMod \in Nat \ {0} /\ 1 \in 0 .. BlockMod - 1 /\ 1 = BlockMod * 0 + 1
      BY BlockModAssumption
    <2> QED BY <2>1, RemainderUnique DEF Block
  <1>7. 0 * BlockSize = 0 /\ FileLen \in Nat /\ LastBlock >= 1 /\ LastBlock \in Nat
    BY PacketAssumption, LastIsPositive
  <1>8. ClientFacts(valid_options_required)
    <2>1. ClientTypes
      <3>1. 0 \in 0 .. FileLen /\ 0 \in 0 .. ClientRetries /\ 0 \in 0 .. LastBlock
        BY <1>7, ClientAssumption
      <3> QED BY <1>5, <1>6, <3>1, Zenon DEF ClientTypes
    <2>2. ClientStores
      <3>1. 0 \in 0 .. FileLen /\ c_file = FilePrefix(0)
        BY <1>5, <1>7, EmptyPrefix
      <3>2. c_blocks # LastBlock /\ c_blocks * BlockSize = 0
        BY <1>5, <1>7
      <3>3. c_expected_sequence_number = (c_blocks + 1) % BlockMod
        BY <1>5, <1>6
      <3> QED BY <1>5, <1>7, <3>1, <3>2, <3>3 DEF ClientStores
    <2> QED
      BY <1>5, <2>1, <2>2 DEF ClientFacts, ClientResends, FirstIsClean, UnsupportedMeansUntouched
  <1>9. NeverAhead
    BY <1>3, <1>4, <1>5 DEF NeverAhead
  <1>10. \A S : <<>> \in Seq(S) /\ Len(<<>>) = 0
    OBVIOUS
  <1>11. 0 <= ChanCap /\ ~ \E i \in 1 .. 0 : TRUE
    BY NetworkAssumption
  <1>12. DataUnderWay
    BY <1>1, <1>10, <1>11 DEF DataUnderWay, InWindow
  <1>13. AcksUnderWay
    BY <1>1, <1>10, <1>11 DEF AcksUnderWay, AcksRise
  <1> QED BY <1>1, <1>2, <1>8, <1>9, <1>12, <1>13 DEF GetInv

\* Every step of a get keeps the invariant; it is one that the session's own
\* specification allows, or one of the client.
LEMMA GetStep ==
  ASSUME InOrder, GetInv, [GetNext]_vars
  PROVE  /\ GetInv' /\ [SessionNext]_sessionVars
         /\ UNCHANGED clientVars \/ (UNCHANGED sessionVars /\ ClientProgress)
  <1>1. CASE ServerRuns
    BY <1>1, ServerRunsStep DEF ServerRuns
  <1>2. CASE ServerReceives
    BY <1>2, ServerReceivesStep DEF ServerReceives
  <1>3. CASE ServerFails \/ KernelTimer \/ Lose \/ GetOver \/ UNCHANGED vars
    <2>1. /\ SyscallFailure \/ TimerFires \/ UNCHANGED sessionVars
          /\ UNCHANGED clientVars
          /\ s2c' = s2c \/ s2c' \in Losing(s2c)
          /\ c2s' = c2s \/ c2s' \in Losing(c2s)
      <3>1. CASE ServerFails \/ KernelTimer
        BY <3>1 DEF ServerFails, KernelTimer
      <3>2. CASE Lose
        BY <3>2 DEF Lose
      <3>3. CASE GetOver \/ UNCHANGED vars
        BY <3>3 DEF GetOver, vars
      <3> QED BY <1>3, <3>1, <3>2, <3>3
    <2> QED BY <2>1, SessionRests
  <1>4. CASE ClientRuns
    BY <1>4, ClientRunsStep
  <1>5. CASE ClientTimesOut \/ ClientCrashes
    BY <1>5, ClientTimesOutStep
  <1>6. CASE StrangerReachesClient
    BY <1>6, StrangerReachesClientStep
  <1>7. CASE StrangerReachesSession
    BY <1>7, StrangerReachesSessionStep DEF StrangerReachesSession
  <1> QED BY <1>1, <1>2, <1>3, <1>4, <1>5, <1>6, <1>7 DEF GetNext

\* The invariant always holds.
LEMMA GetInvariant ==
  ASSUME InOrder
  PROVE  GetSpec => []GetInv
  <1>1. GetInit => GetInv
    BY InitGetInv
  <1>2. GetInv /\ [GetNext]_vars => GetInv'
    BY GetStep
  <1> QED BY <1>1, <1>2, PTL DEF GetSpec

-----------------------------------------------------------------------------
(* What a get promises. *)

\* The session of a get behaves as ServerSession says: no packet reaches it that the
\* model of its clients leaves out.  All that is proved of every session holds of it.
THEOREM SessionOfAGet ==
  ASSUME InOrder
  PROVE  GetSpec => SessionSpec
  <1>1. GetInit => SessionInit
    BY DEF GetInit
  <1>2. GetInv /\ [GetNext]_vars => [SessionNext]_sessionVars
    BY GetStep
  <1> QED BY <1>1, <1>2, GetInvariant, PTL DEF GetSpec, SessionSpec

\* Neither side leaves its types, its retry limit or the network's bound.
THEOREM GetTypesHold ==
  ASSUME InOrder
  PROVE  GetSpec => []GetTypeOK
  <1>1. GetInv => GetTypeOK
    BY DEF GetInv, SessionFacts, SessionInv, ClientFacts, ClientTypes, DataUnderWay,
       AcksUnderWay, GetTypeOK
  <1> QED BY <1>1, GetInvariant, PTL

\* What the client has stored is always a prefix of the server's file, although blocks
\* are lost, resent and delivered twice, their numbers wrap and their buffers are reused.
THEOREM ClientFileIsPrefix ==
  ASSUME InOrder
  PROVE  GetSpec => []FileIsPrefix
  <1>1. GetInv => FileIsPrefix
    <2> SUFFICES ASSUME GetInv PROVE FileIsPrefix
      OBVIOUS
    <2>1. PICK n \in 0 .. FileLen : c_file = FilePrefix(n)
      BY DEF GetInv, ClientFacts, ClientStores
    <2>2. Len(c_file) = n
      BY <2>1, PacketAssumption, PrefixIsSequence
    <2> QED BY <2>1, <2>2 DEF FileIsPrefix
  <1> QED BY <1>1, GetInvariant, PTL

\* A client that reports success has the whole file.
THEOREM ClientSuccessIsComplete ==
  ASSUME InOrder
  PROVE  GetSpec => []SuccessIsComplete
  <1>1. GetInv => SuccessIsComplete
    BY DEF GetInv, ClientFacts, ClientStores, SuccessIsComplete
  <1> QED BY <1>1, GetInvariant, PTL

\* The session takes for acknowledged only what the client has stored, and the client
\* stores only what was sent: neither runs ahead of the other.
THEOREM SessionNeverAhead ==
  ASSUME InOrder
  PROVE  GetSpec => []NeverAhead
  <1>1. GetInv => NeverAhead
    BY DEF GetInv
  <1> QED BY <1>1, GetInvariant, PTL

\* A session that closes without an error leaves a client that has the whole file: the
\* ACK that closed it was sent for the last block and for no earlier one of its number.
THEOREM CleanCloseDelivers ==
  ASSUME InOrder
  PROVE  GetSpec => []CleanCloseMeansDelivered
  <1>1. GetInv => CleanCloseMeansDelivered
    <2> SUFFICES ASSUME GetInv, status = "closed", ~error_occurred
                 PROVE  c_file = FilePrefix(FileLen)
      BY DEF CleanCloseMeansDelivered
    <2>1. /\ request.type = "read" /\ request.valid /\ SessionFacts /\ NeverAhead
          /\ ReadFacts /\ ClientStores /\ ClientTypes
      BY DEF GetInv, SessionFacts, ClientFacts
    <2>2. last_packet # -1 /\ window_begin = next_data_packet_to_send
      BY <2>1 DEF ReadFacts, ClosedIsClosing, ClosedCleanly
    <2>3. WindowNumbers
      BY <2>1, WindowIsNumbered
    <2>4. blocks = LastBlock /\ AckedBlocks = blocks - Unacknowledged
      BY <2>2, <2>3 DEF WindowNumbers
    <2>5. Unacknowledged = 0
      <3>1. window_begin \in Block
        BY <2>1, Zenon DEF SessionFacts, SessionInv, TypeOK
      <3> QED BY <2>2, <3>1, BlockModAssumption DEF Unacknowledged, Dist, Minus, Block
    <2>6. c_blocks = LastBlock
      <3>1. AckedBlocks <= c_blocks /\ c_blocks <= blocks /\ c_blocks \in Nat
            /\ AckedBlocks \in Nat
        BY <2>1, <2>3, LastIsPositive DEF NeverAhead, ClientTypes, WindowNumbers
      <3>2. AckedBlocks = LastBlock
        BY <2>4, <2>5, LastIsPositive
      <3> QED BY <2>4, <3>1, <3>2, LastIsPositive
    <2> QED BY <2>1, <2>6 DEF ClientStores
  <1> QED BY <1>1, GetInvariant, PTL

\* A client that suspects the options of its request has stored nothing: trying again
\* without them repeats no part of a transfer.
THEOREM SuspicionIsUntouched ==
  ASSUME InOrder
  PROVE  GetSpec => []UnsupportedMeansUntouched
  <1>1. GetInv => UnsupportedMeansUntouched
    BY DEF GetInv, ClientFacts
  <1> QED BY <1>1, GetInvariant, PTL

-----------------------------------------------------------------------------
(* A get implements a reliable transfer. *)

\* A prefix of a prefix of the file.
LEMMA PrefixOfPrefix ==
  ASSUME NEW n \in 0 .. FileLen
  PROVE  SubSeq(FilePrefix(FileLen), 1, n) = FilePrefix(n)
  <1>1. FileLen \in Nat /\ n \in Nat /\ n <= FileLen
    BY PacketAssumption
  <1>2. /\ FilePrefix(FileLen) \in Seq(Nat) /\ Len(FilePrefix(FileLen)) = FileLen
        /\ \A i \in 1 .. FileLen : FilePrefix(FileLen)[i] = i
    BY <1>1, PrefixIsSequence
  <1> DEFINE s == FilePrefix(FileLen)
  <1> HIDE DEF s
  <1>3. /\ DOMAIN SubSeq(s, 1, n) = 1 .. n
        /\ SubSeq(s, 1, n) = [i \in 1 .. n |-> SubSeq(s, 1, n)[i]]
        /\ \A i \in 1 .. n : SubSeq(s, 1, n)[i] = i
    BY <1>1, <1>2 DEF s
  <1> QED BY <1>3 DEF FilePrefix, s

\* The abstract transfer has as many blocks as the file.
LEMMA TransferBlocks == Transfer!Blocks = LastBlock
  BY PacketAssumption, PrefixIsSequence DEF Transfer!Blocks, LastBlock

\* The first k blocks of it.
LEMMA TransferUpTo ==
  ASSUME NEW k, k * BlockSize \in Nat
  PROVE  /\ k * BlockSize <= FileLen => Transfer!UpTo(k) = FilePrefix(k * BlockSize)
         /\ k * BlockSize >= FileLen => Transfer!UpTo(k) = FilePrefix(FileLen)
  <1> DEFINE c == k * BlockSize
             n == IF c <= FileLen THEN c ELSE FileLen
  <1>1. FileLen \in Nat /\ Len(FilePrefix(FileLen)) = FileLen /\ c \in Nat
    BY PacketAssumption, PrefixIsSequence
  <1>2. Transfer!UpTo(k) = SubSeq(FilePrefix(FileLen), 1, n)
    BY <1>1 DEF Transfer!UpTo
  <1> HIDE DEF c
  <1>3. n \in 0 .. FileLen
    BY <1>1
  <1>4. Transfer!UpTo(k) = FilePrefix(n)
    BY <1>2, <1>3, PrefixOfPrefix
  <1> QED BY <1>1, <1>4 DEF c

\* The session has the ACK of its last block; it closes or has ended.
SenderDone == last_packet # -1 /\ AckedBlocks = LastBlock
SenderEnds == should_close \/ Terminal

\* A step of the session takes nothing for acknowledged and ends or goes on, or it takes
\* an ACK, perhaps the last.
SessionProgress ==
  \/ AckedBlocks' = AckedBlocks /\ (SenderDone' <=> SenderDone)
     /\ (SenderEnds => SenderEnds')
  \/ AckedBlocks' \in Nat /\ AckedBlocks <= AckedBlocks' /\ ~SenderDone /\ ~SenderEnds
     /\ (SenderEnds' => SenderDone')

\* A step that leaves the window alone.
LEMMA WindowRests ==
  ASSUME UNCHANGED windowVars, SenderEnds => SenderEnds'
  PROVE  SessionProgress
  BY DEF SessionProgress, SenderDone, AckedBlocks, windowVars

\* A block that is sent is not the last one acknowledged.
LEMMA BlockProgress ==
  ASSUME InOrder, SessionFacts, SessionFacts', request.type = "read", request' = request,
         BlockReady, DataAvailable
  PROVE  SessionProgress
  <1>1. /\ blocks' = blocks + 1 /\ blocks \in Nat /\ is_fetching_data /\ ~Terminal
        /\ should_close' = should_close
    <2>1. SessionInv /\ ReadFacts /\ TransferFacts
      BY DEF SessionFacts
    <2>2. PICK f \in FetchRecord : SendBlock(f)
      BY <2>1, BlockIsReady
    <2> QED BY <2>1, <2>2, BlockIsSent, ReadInFlight DEF SendBlock, Terminal, BlockReady
  <1>2. AckedBlocks' = AckedBlocks
    BY RingAdvances DEF RingEvent
  <1>3. ~SenderDone
    BY <1>1 DEF SessionFacts, ReadFacts, LastPacketSent, SenderDone
  <1>4. WindowNumbers /\ WindowNumbers'
    BY WindowIsNumbered, FactsNext
  <1>5. AckedBlocks <= blocks /\ blocks' <= LastBlock /\ AckedBlocks \in Nat
    BY <1>4 DEF WindowNumbers
  <1>6. AckedBlocks # LastBlock
    BY <1>1, <1>5, LastIsPositive
  <1>7. ~SenderDone'
    BY <1>2, <1>6, Zenon DEF SenderDone
  <1>8. SenderEnds => SenderEnds'
    BY <1>1 DEF SenderEnds
  <1> QED BY <1>2, <1>3, <1>7, <1>8 DEF SessionProgress

\* An ACK is taken only by an open session; it closes the session if it is the last.
LEMMA AckProgress ==
  ASSUME InOrder, GetInv, SessionFacts', NEW p \in ClientPackets, Receiving, AckReceived(p)
  PROVE  SessionProgress
  <1>1. /\ request.type = "read" /\ request.valid /\ SessionFacts /\ SessionInv /\ ReadFacts
        /\ CanFetch /\ Fifo /\ status = "idle" /\ ~should_close /\ request' = request
        /\ fd' = fd
    BY DEF GetInv, SessionFacts, Receiving, InOrder
  <1> DEFINE u == Dist(Succ(p.block), next_data_packet_to_send)
  <1>2. /\ AckedBlocks' = blocks - u /\ blocks' = blocks /\ last_packet' = last_packet
        /\ window_begin' = Succ(p.block) /\ should_close' = IsLastAck(p.block)
        /\ next_data_packet_to_send' = next_data_packet_to_send /\ p.op = "ACK"
    BY DEF AckReceived, AckedBlocks
  <1>3. u \in Nat /\ u <= Unacknowledged /\ p.block \in Block
    BY <1>1, <1>2, AckShortens
  <1>4. WindowNumbers
    BY <1>1, WindowIsNumbered
  <1>5. AckedBlocks' \in Nat /\ AckedBlocks <= AckedBlocks'
    <2> DEFINE v == Unacknowledged
    <2>1. AckedBlocks = blocks - v /\ v \in Nat /\ v <= blocks /\ blocks \in Nat /\ u <= v
      BY <1>3, <1>4 DEF WindowNumbers
    <2> HIDE DEF u, v
    <2> QED BY <1>2, <1>3, <2>1
  <1>6. ~SenderEnds
    BY <1>1 DEF SenderEnds, Terminal
  <1>7. ~SenderDone
    <2> SUFFICES ASSUME SenderDone PROVE FALSE
      OBVIOUS
    <2>1. last_packet # -1 /\ blocks = LastBlock /\ blocks - Unacknowledged = LastBlock
      BY <1>4 DEF SenderDone, WindowNumbers
    <2>2. Unacknowledged = 0
      BY <1>4, <2>1 DEF WindowNumbers
    <2>3. window_begin \in Block /\ next_data_packet_to_send \in Block
      BY <1>1, Zenon DEF SessionInv, TypeOK
    <2>4. window_begin = next_data_packet_to_send
      BY <2>2, <2>3, BlockModAssumption DEF Unacknowledged, Dist, Minus, Block
    <2> QED BY <1>1, <2>1, <2>4 DEF ReadFacts, LastPacketSent
  <1>8. SenderEnds' => should_close'
    <2>1. PICK jobs : Epilogue(jobs, FetchState)
      BY DEF AckReceived
    <2>2. ~FetchFails(FetchState)
      <3>1. request.mode = "octet" \/ (request.mode = "netascii" /\ fd' = "file")
        BY <1>1 DEF CanFetch
      <3> QED BY <3>1, Zenon DEF FetchFails
    <2>3. status' \in {"idle", "closed"} /\ (status' = "closed" => should_close')
      BY <2>1, <2>2 DEF Epilogue, NoFetch
    <2> QED BY <2>3 DEF SenderEnds, Terminal
  <1>9. should_close' => SenderDone'
    <2> SUFFICES ASSUME should_close' PROVE SenderDone'
      OBVIOUS
    <2>1. last_packet # -1 /\ p.block = last_packet
      BY <1>2, Zenon DEF IsLastAck
    <2>2. last_packet = Pred(next_data_packet_to_send) /\ next_data_packet_to_send \in Block
      BY <1>1, <2>1, Zenon DEF ReadFacts, LastPacketSent, SessionInv, TypeOK
    <2>3. u = 0
      BY <2>1, <2>2, BlockModAssumption DEF Dist, Minus, Succ, Pred, Plus, Block
    <2>4. blocks = LastBlock /\ blocks \in Nat
      BY <1>4, <2>1 DEF WindowNumbers
    <2>5. AckedBlocks' = LastBlock
      <3> HIDE DEF u
      <3> QED BY <1>2, <2>3, <2>4
    <2> QED BY <1>2, <2>1, <2>5, Zenon DEF SenderDone
  <1> QED BY <1>5, <1>6, <1>7, <1>8, <1>9 DEF SessionProgress

\* Every step of the session is one or the other.
LEMMA SessionProgresses ==
  ASSUME InOrder, GetInv, [SessionNext]_sessionVars
  PROVE  SessionProgress
  <1>1. /\ request.type = "read" /\ SessionFacts /\ SessionFacts' /\ SessionInv
        /\ SessionInv' /\ ReadFacts /\ TransferFacts
    BY SessionStep DEF GetInv, SessionFacts
  <1>2. request' = request
    BY <1>1, StepFrame
  <1>3. CASE Untouched
    BY <1>3, WindowRests DEF Untouched, SenderEnds, Terminal
  <1>4. CASE Start
    <2>1. ~SenderEnds
      BY <1>1, <1>4 DEF Start, SessionInv, NewIsFresh, SenderEnds, Terminal
    <2> QED BY <1>4, <2>1, WindowRests DEF Start
  <1>5. CASE KeepsBuffers \/ ReadsOn
    BY <1>5, WindowRests DEF KeepsBuffers, ReadsOn, Quiet, SenderEnds, Terminal
  <1>6. CASE BlockReady
    <2>1. DataAvailable
      BY <1>6 DEF BlockReady, Reading, DataAvailable, writeVars, recvVars
    <2> QED BY <1>1, <1>2, <1>6, <2>1, BlockProgress
  <1>7. ASSUME NEW p \in ClientPackets, Receiving, AckReceived(p) \/ DataReceived(p)
        PROVE  SessionProgress
    BY <1>1, <1>7, AckProgress DEF DataReceived
  <1> QED BY <1>1, <1>3, <1>4, <1>5, <1>6, <1>7, StepKinds

\* How the two sides of the abstract transfer stand.
LEMMA Outcomes ==
  /\ SessionOutcome = IF SenderDone THEN "ok" ELSE IF SenderEnds THEN "failed" ELSE "running"
  /\ c_status = "receiving" => ClientOutcome = "running"
  /\ c_status = "success" => ClientOutcome = "ok"
  /\ c_status = "failed" => ClientOutcome = "failed"
  BY DEF SessionOutcome, SenderDone, SenderEnds, ClientOutcome

\* They stand as much in the next state.
LEMMA OutcomesNext ==
  /\ SessionOutcome' =
       IF SenderDone' THEN "ok" ELSE IF SenderEnds' THEN "failed" ELSE "running"
  /\ c_status' = "receiving" => ClientOutcome' = "running"
  /\ c_status' = "success" => ClientOutcome' = "ok"
  /\ c_status' = "failed" => ClientOutcome' = "failed"
  BY DEF SessionOutcome, SenderDone, SenderEnds, ClientOutcome

\* A step of the session confirms blocks, gives up or shows nothing.
LEMMA SessionMaps ==
  ASSUME InOrder, GetInv, GetInv', [SessionNext]_sessionVars, UNCHANGED clientVars
  PROVE  [Transfer!Next]_(Transfer!transferVars)
  <1>1. UNCHANGED <<c_file, c_blocks, c_status>>
    BY DEF clientVars
  <1>2. ClientOutcome' = ClientOutcome
    BY <1>1 DEF ClientOutcome
  <1>3. CASE AckedBlocks' = AckedBlocks /\ (SenderDone' <=> SenderDone)
             /\ (SenderEnds => SenderEnds')
    <2>1. CASE SessionOutcome' = SessionOutcome
      BY <1>1, <1>2, <1>3, <2>1 DEF Transfer!transferVars
    <2>2. CASE SessionOutcome' # SessionOutcome
      <3>1. SessionOutcome = "running" /\ SessionOutcome' = "failed"
        BY <1>3, <2>2, Outcomes, OutcomesNext
      <3> QED BY <1>1, <1>2, <1>3, <3>1 DEF Transfer!Next, Transfer!SenderFails
    <2> QED BY <2>1, <2>2
  <1>4. CASE AckedBlocks' \in Nat /\ AckedBlocks <= AckedBlocks' /\ ~SenderDone
             /\ ~SenderEnds /\ (SenderEnds' => SenderDone')
    <2>1. SessionOutcome = "running"
      BY <1>4, Outcomes
    <2>2. SessionOutcome' = "running" \/ (SessionOutcome' = "ok" /\ SenderDone')
      BY <1>4, OutcomesNext
    <2>3. AckedBlocks' \in AckedBlocks .. c_blocks
      <3>1. c_blocks \in Nat /\ AckedBlocks' <= c_blocks /\ AckedBlocks \in Nat
        <4>1. AckedBlocks' <= c_blocks'
          BY DEF GetInv, NeverAhead
        <4>2. c_blocks \in Nat
          BY LastIsPositive DEF GetInv, ClientFacts, ClientTypes
        <4>3. WindowNumbers
          BY WindowIsNumbered DEF GetInv
        <4> QED BY <1>1, <4>1, <4>2, <4>3 DEF WindowNumbers
      <3> QED BY <1>4, <3>1
    <2>4. SessionOutcome' \in {"running"} \cup
            (IF AckedBlocks' = Transfer!Blocks THEN {"ok"} ELSE {})
      <3>1. SenderDone' => AckedBlocks' = Transfer!Blocks
        BY TransferBlocks, Zenon DEF SenderDone
      <3> QED BY <2>2, <3>1
    <2> QED BY <1>1, <1>2, <2>1, <2>3, <2>4 DEF Transfer!Next, Transfer!Confirm
  <1> QED BY <1>3, <1>4, SessionProgresses DEF SessionProgress

\* A step of the client stores a block, gives up or shows nothing.
LEMMA ClientMaps ==
  ASSUME InOrder, GetInv, GetInv', UNCHANGED sessionVars, ClientProgress
  PROVE  [Transfer!Next]_(Transfer!transferVars)
  <1>1. SessionOutcome' = SessionOutcome /\ AckedBlocks' = AckedBlocks
    BY DEF sessionVars, controlVars, windowVars, SessionOutcome, AckedBlocks, Terminal
  <1> DEFINE a == c_blocks
             c == a * BlockSize
             a2 == c_blocks'
             c2 == a2 * BlockSize
  <1>2. a \in Nat /\ a <= LastBlock /\ a2 \in Nat /\ a2 <= LastBlock
    BY LastIsPositive DEF GetInv, ClientFacts, ClientTypes
  <1>3. c_status = "receiving" =>
          /\ c \in Nat /\ c <= FileLen /\ c_file = FilePrefix(c) /\ a < LastBlock
          /\ (a + 1) * BlockSize = c + BlockSize
    <2> SUFFICES ASSUME c_status = "receiving"
                 PROVE  /\ c \in Nat /\ c <= FileLen /\ c_file = FilePrefix(c)
                        /\ a < LastBlock /\ (a + 1) * BlockSize = c + BlockSize
      OBVIOUS
    <2>1. c <= FileLen /\ c_file = FilePrefix(c)
      BY DEF GetInv, ClientFacts, ClientStores
    <2>2. a + 1 \in 1 .. LastBlock /\ c \in Nat /\ (a + 1) * BlockSize = c + BlockSize
      BY <1>2, <2>1, OnlyLastIsShort
    <2> HIDE DEF a, c
    <2> QED BY <1>2, <2>1, <2>2, LastIsPositive
  <1>4. /\ c_status' = "receiving" =>
             c2 <= FileLen /\ c_file' = FilePrefix(c2)
        /\ a2 = LastBlock => c_file' = FilePrefix(FileLen)
        /\ c_status' \in {"receiving", "success", "failed"}
    BY DEF GetInv, ClientFacts, ClientTypes, ClientStores
  <1>5. CASE UNCHANGED <<c_status, c_file, c_blocks>>
    <2>1. ClientOutcome' = ClientOutcome
      BY <1>5 DEF ClientOutcome
    <2> QED BY <1>1, <1>5, <2>1 DEF Transfer!transferVars
  <1>6. CASE /\ c_status = "receiving" /\ c_status' = "failed" /\ c_blocks' = c_blocks
             /\ \E n \in 0 .. FileLen :
                  /\ c_blocks * BlockSize <= n /\ n <= (c_blocks + 1) * BlockSize
                  /\ c_file' = FilePrefix(n)
    <2>1. PICK n \in 0 .. FileLen : c <= n /\ n <= (a + 1) * BlockSize
                                    /\ c_file' = FilePrefix(n)
      BY <1>6
    <2>2. ClientOutcome = "running" /\ ClientOutcome' = "failed"
      BY <1>6, Outcomes, OutcomesNext
    <2>3. n \in Len(c_file) .. Len(Transfer!UpTo(c_blocks + 1))
      <3> DEFINE d == (a + 1) * BlockSize
      <3>1. d = c + BlockSize /\ c \in Nat /\ d \in Nat /\ FileLen \in Nat
        BY <1>3, <1>6, PacketAssumption
      <3>2. Len(c_file) = c
        BY <1>3, <1>6, <3>1, PrefixIsSequence
      <3>3. d <= FileLen => Len(Transfer!UpTo(a + 1)) = d
        BY <3>1, TransferUpTo, PrefixIsSequence
      <3>4. d >= FileLen => Len(Transfer!UpTo(a + 1)) = FileLen
        BY <3>1, TransferUpTo, PrefixIsSequence
      <3>5. c <= n /\ n <= d
        BY <2>1
      <3> DEFINE m == Len(Transfer!UpTo(a + 1))
      <3>6. d <= FileLen => m = d
        BY <3>3
      <3>7. d >= FileLen => m = FileLen
        BY <3>4
      <3> HIDE DEF c, d, m
      <3>8. n \in c .. m
        BY <3>1, <3>5, <3>6, <3>7
      <3> QED BY <3>2, <3>8 DEF m
    <2>4. c_file' = SubSeq(FilePrefix(FileLen), 1, n)
      BY <2>1, PrefixOfPrefix
    <2>5. Transfer!ReceiverFails
      BY <1>1, <1>6, <2>2, <2>3, <2>4 DEF Transfer!ReceiverFails
    <2> QED BY <2>5 DEF Transfer!Next
  <1>7. CASE /\ c_status = "receiving" /\ c_blocks' = c_blocks + 1
             /\ c_status' # "receiving" => c_blocks' = LastBlock
    <2>1. ClientOutcome = "running" /\ c_blocks < Transfer!Blocks
      BY <1>3, <1>7, Outcomes, TransferBlocks
    <2>2. a2 = a + 1 /\ c2 = c + BlockSize /\ c2 \in Nat
      BY <1>3, <1>7, PacketAssumption
    <2>3. c_file' = Transfer!UpTo(c_blocks')
      <3>1. CASE c_status' = "receiving"
        <4>1. Transfer!UpTo(a2) = FilePrefix(c2)
          BY <1>4, <2>2, <3>1, TransferUpTo
        <4> QED BY <1>4, <3>1, <4>1
      <3>2. CASE c_status' # "receiving"
        <4>1. a2 = LastBlock
          BY <1>7, <3>2
        <4>2. c2 >= FileLen
          <5>1. ~(FileLen - c >= BlockSize)
            <6>1. a + 1 = LastBlock /\ c <= FileLen
              BY <1>3, <1>7, <2>2, <4>1
            <6> QED BY <1>2, <6>1, LastIsPositive, OnlyLastIsShort
          <5>2. c \in Nat /\ FileLen \in Nat /\ BlockSize \in Nat
            BY <1>3, <1>7, PacketAssumption
          <5> HIDE DEF c, c2
          <5> QED BY <2>2, <5>1, <5>2
        <4>3. Transfer!UpTo(a2) = FilePrefix(FileLen)
          BY <2>2, <4>2, TransferUpTo
        <4> QED BY <1>4, <4>1, <4>3
      <3> QED BY <3>1, <3>2
    <2>4. ClientOutcome' \in IF c_blocks' = Transfer!Blocks THEN {"ok", "failed"}
                             ELSE {"running"}
      <3>1. CASE c_status' = "receiving"
        <4>1. a2 + 1 \in 1 .. LastBlock
          BY <1>2, <1>4, <3>1, OnlyLastIsShort
        <4>2. a2 # LastBlock
          <5> HIDE DEF a2
          <5> QED BY <1>2, <4>1, LastIsPositive
        <4> QED BY <3>1, <4>2, OutcomesNext, TransferBlocks
      <3>2. CASE c_status' # "receiving"
        BY <1>4, <1>7, <3>2, OutcomesNext, TransferBlocks
      <3> QED BY <3>1, <3>2
    <2>5. Transfer!Receive
      BY <1>1, <1>7, <2>1, <2>3, <2>4 DEF Transfer!Receive
    <2> QED BY <2>5 DEF Transfer!Next
  <1> QED BY <1>5, <1>6, <1>7 DEF ClientProgress

\* A get that has not begun.
LEMMA TransferBegins ==
  ASSUME InOrder, GetInit
  PROVE  Transfer!Init
  <1>1. c_file = <<>> /\ c_blocks = 0 /\ c_status = "receiving"
    BY DEF GetInit, ClientInit
  <1>2. /\ window_begin = 1 /\ next_data_packet_to_send = 1 /\ blocks = 0
        /\ last_packet = -1 /\ ~should_close /\ status = "new"
    BY DEF GetInit, SessionInit
  <1>3. AckedBlocks = 0
    BY <1>2 DEF AckedBlocks, Dist, Minus
  <1>4. SessionOutcome = "running" /\ ClientOutcome = "running"
    BY <1>1, <1>2, Outcomes DEF SenderDone, SenderEnds, Terminal
  <1> QED BY <1>1, <1>3, <1>4 DEF Transfer!Init

\* The whole exchange is a reliable transfer: the client stores the file block by block
\* and nothing else, the session takes a block for delivered only after the client has
\* stored it and never takes that back, and neither is wrong about success.
THEOREM GetImplementsTransfer ==
  ASSUME InOrder
  PROVE  GetSpec => GetIsReliable
  <1>1. GetInit => Transfer!Init
    BY TransferBegins
  <1>2. GetInv /\ GetInv' /\ [GetNext]_vars => [Transfer!Next]_(Transfer!transferVars)
    <2> SUFFICES ASSUME GetInv, GetInv', [GetNext]_vars
                 PROVE  [Transfer!Next]_(Transfer!transferVars)
      OBVIOUS
    <2>1. CASE UNCHANGED clientVars
      BY <2>1, GetStep, SessionMaps
    <2>2. CASE UNCHANGED sessionVars /\ ClientProgress
      BY <2>2, ClientMaps
    <2> QED BY <2>1, <2>2, GetStep
  <1> QED
    BY <1>1, <1>2, GetInvariant, PTL DEF GetSpec, GetIsReliable, Transfer!Spec
=============================================================================
