----------------------------- MODULE ClientGet ------------------------------
(***************************************************************************)
(* The client's side of a get or a list: tftp_client_read, from the        *)
(* request it sends to the result it returns.  Each action is one turn of  *)
(* the loop of receive_file, or one timeout of the loop of receive_packet  *)
(* inside it.                                                              *)
(***************************************************************************)
EXTENDS Packets

CONSTANTS
  ClientOptions,   \* the sets of options a client may ask for
  ClientRetries,   \* retransmissions of one packet before the client gives up
  ClientFaults     \* TRUE: the client's system calls may fail

\* use: some option is requested; list: a directory is to be listed; tsize: the
\* size of the file is to be checked; timed: options were given, be it only to ask for
\* nothing.  A null pointer instead leaves timeout_s zero and the socket without a
\* timeout.
ClientOptionSet == [use: BOOLEAN, list: BOOLEAN, tsize: BOOLEAN, timed: BOOLEAN]

ASSUME ClientAssumption ==
  /\ ClientRetries \in Nat /\ ClientFaults \in BOOLEAN
  /\ ClientOptions \subseteq { o \in ClientOptionSet :
                              (o.list \/ o.tsize => o.use) /\ (o.use => o.timed) }

VARIABLES
  c_options,                       \* request->options and use_options
  c_tsize,                         \* options.tsize, 0 until the server announces it
  c_status,                        \* "receiving", then "success" or "failed"
  is_first_receive,
  c_expected_sequence_number,
  c_file,                          \* what was written to the destination
  last_packet_sent,
  retransmissions,
  server_may_not_support_options,
  c_sent,                          \* packets the last step sent to the server
  c_blocks                         \* blocks accepted so far, not wrapped

clientVars == <<c_options, c_tsize, c_status, is_first_receive, c_expected_sequence_number,
                c_file, last_packet_sent, retransmissions,
                server_may_not_support_options, c_sent, c_blocks>>

Rrq == Packet("RRQ", 0, <<>>)

\* tftp_client_read sets the timeout of the socket, sends the request and waits.
ClientInit ==
  /\ c_options \in ClientOptions /\ c_tsize = 0
  /\ c_status = "receiving" /\ is_first_receive = TRUE
  /\ c_expected_sequence_number = 1 /\ c_file = <<>>
  /\ last_packet_sent = Rrq /\ retransmissions = 0
  /\ server_may_not_support_options = FALSE
  /\ c_sent = <<Rrq>> /\ c_blocks = 0

-----------------------------------------------------------------------------
\* What a step that accepts no block leaves alone.
NoBlock == UNCHANGED <<c_expected_sequence_number, c_file, c_blocks>>

\* receive_file returns false; pkts is what it sends before.
ClientFails(pkts, unsupported) ==
  /\ c_status' = "failed"
  /\ c_sent' = pkts
  /\ server_may_not_support_options' = unsupported
  /\ UNCHANGED <<is_first_receive, last_packet_sent>>

\* The next call of receive_packet starts, with pkts sent meanwhile.
KeepReceiving(pkts) ==
  /\ c_sent' = pkts
  /\ retransmissions' = 0
  /\ UNCHANGED <<c_status, server_may_not_support_options>>

\* Mutant: options are suspected even after they were accepted.
SuspectOptionsAlways == c_options.use

\* Nothing but silence or an error in answer to a request with options.
SuspectOptions == is_first_receive /\ c_options.use

\* A packet of another peer is answered there and ignored here.
handle_unexpected_peer(p) ==
  /\ p.op = "STRANGER" /\ ~is_first_receive
  /\ KeepReceiving(<<>>)
  /\ NoBlock
  /\ UNCHANGED <<c_options, c_tsize, is_first_receive, last_packet_sent>>

\* The first OACK is acknowledged.  A server that cannot tell the size of the file
\* leaves tsize out.
OackAccepted ==
  /\ is_first_receive /\ c_options.use
  /\ c_tsize' \in (IF c_options.tsize THEN {c_tsize, FileLen} ELSE {c_tsize})
  /\ KeepReceiving(<<Ack(0)>>)
  /\ last_packet_sent' = Ack(0)
  /\ is_first_receive' = FALSE
  /\ UNCHANGED c_options

\* It is refused if no option was asked for, or if it lacks the option without which
\* a listing makes no sense.
OackRefused ==
  /\ is_first_receive /\ (c_options.use => c_options.list)
  /\ c_options' = [c_options EXCEPT !.list = FALSE]
  /\ ClientFails(<<Error>>, server_may_not_support_options)
  /\ UNCHANGED <<c_tsize, retransmissions>>

\* Later ones are ignored, and not acknowledged again.
OackIgnored ==
  /\ ~is_first_receive
  /\ KeepReceiving(<<>>)
  /\ UNCHANGED <<c_options, c_tsize, is_first_receive, last_packet_sent>>

OackReceived(p) ==
  /\ p.op = "OACK"
  /\ NoBlock
  /\ OackAccepted \/ OackRefused \/ OackIgnored

\* Options in effect when the server answers with DATA at once.  timeout_s gets its
\* default, which does not reach the socket.
OptionsAfterData ==
  IF is_first_receive THEN [c_options EXCEPT !.use = FALSE, !.tsize = FALSE]
                      ELSE c_options

\* A listing needs a server that knows the option.
ListUnsupported(p) ==
  /\ p.op = "DATA" /\ is_first_receive /\ c_options.use /\ c_options.list
  /\ c_options' = [c_options EXCEPT !.use = FALSE]
  /\ ClientFails(<<Error>>, TRUE)
  /\ NoBlock
  /\ UNCHANGED <<c_tsize, retransmissions>>

\* Mutant: blocks are taken in any order.
AnyBlock(p) == p.op = "DATA"

IsExpected(p) == p.op = "DATA" /\ p.block = c_expected_sequence_number

\* Mutant: a full block ends the transfer too.
FullBlockIsLast(p) == Len(p.data) <= BlockSize

IsLast(p) == Len(p.data) < BlockSize

\* Mutant: the ACK names the block that is expected next.
AckNext(p) == Ack(Succ(p.block))

AckOf(p) == Ack(p.block)

\* A block that is not the next one: the last packet is sent again.
UnexpectedBlock(p) ==
  /\ p.op = "DATA" /\ ~IsExpected(p)
  /\ KeepReceiving(<<last_packet_sent>>)
  /\ c_options' = OptionsAfterData
  /\ is_first_receive' = FALSE
  /\ NoBlock
  /\ UNCHANGED <<c_tsize, last_packet_sent>>

\* The next block is written and acknowledged.  A short one ends the transfer;
\* handle_get_request then compares the size with the one announced.
NextBlock(p) ==
  /\ IsExpected(p)
  /\ c_options' = OptionsAfterData
  /\ c_expected_sequence_number' = Succ(c_expected_sequence_number)
  /\ c_file' = c_file \o p.data
  /\ c_blocks' = c_blocks + 1
  /\ c_sent' = <<AckOf(p)>>
  /\ last_packet_sent' = AckOf(p)
  /\ retransmissions' = 0
  /\ is_first_receive' = FALSE
  /\ c_status' = CASE ~IsLast(p) -> "receiving"
                   [] IsLast(p) /\ c_options'.tsize /\ Len(c_file') # c_tsize
                        -> "failed"
                   [] OTHER -> "success"
  /\ UNCHANGED <<c_tsize, server_may_not_support_options>>

\* fwrite stores less than the block: the server is told if the disk is full.
WriteFailed(p) ==
  /\ ClientFaults
  /\ IsExpected(p)
  /\ c_options' = OptionsAfterData
  /\ c_expected_sequence_number' = Succ(c_expected_sequence_number)
  /\ \E n \in 0 .. Len(p.data) - 1 : c_file' = c_file \o SubSeq(p.data, 1, n)
  /\ \E pkts \in {<<>>, <<Error>>} : ClientFails(pkts, server_may_not_support_options)
  /\ UNCHANGED <<c_tsize, retransmissions, c_blocks>>

DataReceivedByClient(p) ==
  \/ ListUnsupported(p)
  \/ /\ ~(is_first_receive /\ c_options.use /\ c_options.list)
     /\ UnexpectedBlock(p) \/ NextBlock(p) \/ WriteFailed(p)

ErrorReceived(p) ==
  /\ p.op = "ERROR"
  /\ ClientFails(<<>>, SuspectOptions)
  /\ NoBlock
  /\ UNCHANGED <<c_options, c_tsize, retransmissions>>

\* An empty packet, whoever sent it, or one that has no place here.
OtherReceived(p) ==
  /\ p.op \in {"EMPTY", "ACK", "OTHER"}
  /\ ClientFails(<<>>, server_may_not_support_options)
  /\ NoBlock
  /\ UNCHANGED <<c_options, c_tsize, retransmissions>>

\* receive_packet returns p to receive_file.
ClientReceives(p) ==
  /\ c_status = "receiving"
  /\ \/ handle_unexpected_peer(p) \/ OackReceived(p) \/ DataReceivedByClient(p)
     \/ ErrorReceived(p) \/ OtherReceived(p)

-----------------------------------------------------------------------------
\* Mutants: one retransmission too many, or none counted.
ClientRetriesLeftOffByOne == retransmissions <= ClientRetries

ClientRetriesLeft == retransmissions < ClientRetries

NextRetransmissionForgotten == retransmissions

NextRetransmission == retransmissions + 1

\* recvfrom times out, unless there is no timeout: the last packet is sent again, at
\* most ClientRetries times.
ClientTimeout ==
  /\ c_status = "receiving" /\ c_options.timed
  /\ \/ /\ ClientRetriesLeft
        /\ retransmissions' = NextRetransmission
        /\ c_sent' = <<last_packet_sent>>
        /\ UNCHANGED <<c_status, server_may_not_support_options, is_first_receive,
                       last_packet_sent>>
     \/ /\ ~ClientRetriesLeft
        /\ ClientFails(<<>>, server_may_not_support_options \/ SuspectOptions)
        /\ UNCHANGED retransmissions
  /\ NoBlock
  /\ UNCHANGED <<c_options, c_tsize>>

\* A system call of the client fails.
ClientFault ==
  /\ ClientFaults /\ c_status = "receiving"
  /\ ClientFails(<<>>, server_may_not_support_options)
  /\ NoBlock
  /\ UNCHANGED <<c_options, c_tsize, retransmissions>>

ClientDone == c_status \in {"success", "failed"}
=============================================================================
