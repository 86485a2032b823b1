----------------------------- MODULE ClientPut ------------------------------
(***************************************************************************)
(* The client's side of a put: handle_put_request, which repeats the       *)
(* request until something answers, and send_file.  A step is one turn of  *)
(* the loop of either: an answer, a packet or a timeout, with what the     *)
(* loop sends before it waits again.                                       *)
(*                                                                         *)
(* The client never asks for a window when it puts, so the window is one   *)
(* block and there is one packet buffer.                                   *)
(***************************************************************************)
EXTENDS Packets

CONSTANTS
  PutOptions,    \* what tftp_client_write may be given as options
  PutLens,       \* lengths of the files that are put, at most FileLen
  PutRetries,    \* retries
  RetryMod,      \* modulus of the uint8_t retransmissions (256)
  PutFaults      \* TRUE: the client's system calls may fail

\* "some": an option is requested; "default": none is; "null": no options at all,
\* which leaves window_size, block_size and timeout_s zero.
ASSUME PutAssumption ==
  /\ PutOptions \subseteq {"some", "default", "null"}
  /\ PutLens \subseteq 0 .. FileLen
  /\ PutRetries \in Nat /\ RetryMod \in Nat /\ PutRetries < RetryMod
  /\ PutFaults \in BOOLEAN

VARIABLES
  p_options,            \* options, as above
  p_use,                \* use_options
  p_len,                \* length of the file
  p_status,             \* "requesting" in handle_put_request, "sending" in send_file,
                        \* "success", "failed", "crashed" or "hung"
  p_begin, p_next,      \* window_begin, next_sequence_number
  p_eof, p_last_size,   \* end_of_file, last_packet_size without its header
  p_packet,             \* data_packets
  p_blocks,             \* blocks read so far, not wrapped
  p_retransmissions,
  p_unsupported,        \* server_may_not_support_options
  p_sent                \* packets the last step sent to the server

putVars == <<p_options, p_use, p_len, p_status, p_begin, p_next, p_eof, p_last_size,
             p_packet, p_blocks, p_retransmissions, p_unsupported, p_sent>>
windowVarsOfPut == <<p_begin, p_next, p_eof, p_last_size, p_packet, p_blocks>>

Wrq == Packet("WRQ", 0, <<>>)

\* The k-th block of the file that is put, and how many blocks it has.
PutBlock(k) == [i \in 1 .. Least(BlockSize, p_len - (k - 1) * BlockSize)
                  |-> (k - 1) * BlockSize + i]
PutBlocks == p_len \div BlockSize + 1

PutInit ==
  /\ p_options \in PutOptions /\ p_use = (p_options = "some")
  /\ p_len \in PutLens
  /\ p_status = "requesting"
  /\ p_begin = 1 /\ p_next = 1 /\ p_eof = FALSE /\ p_last_size = 0
  /\ p_packet = [i \in 1 .. BlockSize |-> 0] /\ p_blocks = 0
  /\ p_retransmissions = 0 /\ p_unsupported = FALSE
  /\ p_sent = <<Wrq>>

-----------------------------------------------------------------------------
\* The put ends.
PutStops(status, unsupported) ==
  /\ p_status' = status
  /\ p_unsupported' = unsupported
  /\ p_sent' = <<>>
  /\ UNCHANGED <<p_options, p_use, p_len, windowVarsOfPut, p_retransmissions>>

PutFails == PutStops("failed", p_unsupported)

\* The options were not taken up: the client suspects that the server knows none.
PutRefused == PutStops("failed", p_use)

\* The sending phase of the loop, for a window that begins at begin: the next block
\* is read into the buffer and sent, unless the file is at its end.
FillWindow(begin) ==
  LET room == ~p_eof /\ is_in_range(p_next, begin, begin)
      data == IF room THEN PutBlock(p_blocks + 1) ELSE <<>>
  IN  \/ /\ room
         /\ p_packet' = [i \in 1 .. BlockSize |->
                           IF i <= Len(data) THEN data[i] ELSE p_packet[i]]
         /\ p_eof' = (Len(data) < BlockSize)
         /\ p_last_size' = Len(data)
         /\ p_next' = Succ(p_next)
         /\ p_blocks' = p_blocks + 1
         /\ p_sent' = <<Packet("DATA", p_next, data)>>
      \/ /\ ~room
         /\ p_sent' = <<>>
         /\ UNCHANGED <<p_packet, p_eof, p_last_size, p_next, p_blocks>>

-----------------------------------------------------------------------------
(* handle_put_request *)

\* send_file begins.  Without a window size the index of the buffer is a remainder
\* by zero.
StartSending(use) ==
  /\ p_options # "null"
  /\ p_status' = "sending"
  /\ p_use' = use
  /\ p_retransmissions' = 0
  /\ FillWindow(p_begin)
  /\ UNCHANGED <<p_options, p_len, p_begin, p_unsupported>>

\* The first packet, from wherever it comes, settles who the server is.  An OACK or
\* an ACK, with whatever it says, starts the transfer.
PutAnswered(p) ==
  /\ p_status = "requesting"
  /\ \/ /\ p.op = "OACK" /\ p_use
        /\ StartSending(TRUE)
     \/ /\ p.op = "ACK"
        /\ StartSending(FALSE) \/ (p_options = "null" /\ PutStops("crashed", FALSE))
     \/ p.op = "OACK" /\ ~p_use /\ PutFails
     \/ p.op = "ERROR" /\ PutRefused

\* recvfrom times out, unless there is no timeout: the request is sent again.
RequestTimeout ==
  /\ p_status = "requesting" /\ p_options # "null"
  /\ \/ /\ p_retransmissions = PutRetries
        /\ PutRefused
     \/ /\ p_retransmissions < PutRetries
        /\ p_retransmissions' = p_retransmissions + 1
        /\ p_sent' = <<Wrq>>
        /\ UNCHANGED <<p_options, p_use, p_len, p_status, p_unsupported,
                       windowVarsOfPut>>

-----------------------------------------------------------------------------
(* send_file *)

\* Mutant: no limit.
PutGivesUpNever == FALSE

\* One retransmission more than handle_put_request allows; never for 255 retries,
\* which the counter cannot exceed.
PutGivesUp == p_retransmissions > PutRetries

\* Mutant: the last packet is resent at full size.
ResentSizeFull(n) == BlockSize

\* The size at which packet n is resent.  p_next - 1 is an int, which is no block
\* number when next_sequence_number has wrapped to 0.
ResentSize(n) == IF n = p_next - 1 THEN p_last_size ELSE BlockSize

\* The window, all of it from the one buffer.
PutWindow ==
  [i \in 1 .. Dist(p_begin, p_next) |->
     Packet("DATA", Pred(p_next), SubSeq(p_packet, 1, ResentSize(Plus(p_begin, i - 1))))]

\* The window is resent.  The loop over an empty window comes round to its start and
\* never ends.
SendTimeout ==
  /\ p_status = "sending"
  /\ \/ PutGivesUp /\ PutFails
     \/ /\ ~PutGivesUp
        /\ p_retransmissions' = (p_retransmissions + 1) % RetryMod
        /\ p_status' = IF p_begin = p_next THEN "hung" ELSE "sending"
        /\ p_sent' = PutWindow
        /\ UNCHANGED <<p_options, p_use, p_len, p_unsupported, windowVarsOfPut>>

AckInWindow(n) == is_in_range(n, p_begin, Pred(p_next))

\* Mutant: off by one.
CompletedOffByOne(n) == p_eof /\ n = p_next

\* Again p_next - 1 is an int.
Completed(n) == p_eof /\ n = p_next - 1

\* An ACK in the window: slide it and send the next block, or end.
SendAcked(p) ==
  /\ p.op = "ACK" /\ AckInWindow(p.block)
  /\ p_begin' = Succ(p.block)
  /\ p_retransmissions' = 0
  /\ p_status' = IF Completed(p.block) THEN "success" ELSE "sending"
  /\ FillWindow(p_begin')
  /\ UNCHANGED <<p_options, p_use, p_len, p_unsupported>>

\* A stale ACK, or the packet of another peer, which is told so.
SendIgnores(p) ==
  /\ p.op = "STRANGER" \/ (p.op = "ACK" /\ ~AckInWindow(p.block))
  /\ p_sent' = <<>>
  /\ UNCHANGED <<p_options, p_use, p_len, p_status, windowVarsOfPut,
                 p_retransmissions, p_unsupported>>

\* An ERROR ends the transfer, and so does any other packet: an OACK that the server
\* repeats, too.
SendAborted(p) == p.op \in {"ERROR", "OACK", "DATA", "OTHER"} /\ PutFails

PutReceives(p) ==
  \/ PutAnswered(p)
  \/ /\ p_status = "sending"
     /\ SendAcked(p) \/ SendIgnores(p) \/ SendAborted(p)

PutTimeout == RequestTimeout \/ SendTimeout

\* A system call, or a read of the file, fails.
PutFault == PutFaults /\ p_status \in {"requesting", "sending"} /\ PutFails

PutDone == p_status \in {"success", "failed", "crashed", "hung"}
=============================================================================
