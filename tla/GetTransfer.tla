---------------------------- MODULE GetTransfer -----------------------------
(***************************************************************************)
(* A get: the client of ClientGet, the server session of ServerSession and *)
(* the network between them.  The session is the one whose packet is the   *)
(* first the client receives; the sessions that its retransmitted requests *)
(* may have started besides, and everyone else, are strangers: they reach  *)
(* the client and the session as packets of an unexpected peer.  A request *)
(* of the client goes to the listening socket and so not to the session,   *)
(* until the client has received something.                                *)
(***************************************************************************)
EXTENDS ServerSession, ClientGet, Network

CONSTANT Strangers     \* TRUE: packets of other peers arrive

ASSUME StrangersAssumption == Strangers \in BOOLEAN

VARIABLES s2c, c2s     \* packets under way to the client and to the session

vars == <<sessionVars, clientVars, s2c, c2s>>

-----------------------------------------------------------------------------
\* The request is the one the client sends: a well-formed RRQ.
GetInit ==
  /\ SessionInit /\ ClientInit
  /\ request.type = "read" /\ request.valid /\ (request.options => c_options.use)
  /\ s2c = <<>> /\ c2s = <<>>

ServerSends == s2c' = Transmit(s2c, sent')

\* A request that is sent again goes where the client thinks the server is.
ClientSends ==
  c2s' = Transmit(c2s, IF is_first_receive' /\ c_sent' = <<Rrq>> THEN <<>>
                       ELSE c_sent')

ServerRuns ==
  /\ Start \/ RingEvent
  /\ ServerSends
  /\ UNCHANGED <<clientVars, c2s>>

ServerReceives ==
  \E i \in Arriving(c2s) :
    /\ \/ PacketReceived([c2s[i] EXCEPT !.op = IF @ = "RRQ" THEN "OTHER" ELSE @])
       \/ PacketDropped
    /\ \E rest \in Remaining(c2s, i) : c2s' = rest
    /\ ServerSends
    /\ UNCHANGED clientVars

ServerFails == SyscallFailure /\ UNCHANGED <<clientVars, s2c, c2s>>

KernelTimer == TimerFires /\ UNCHANGED <<clientVars, s2c, c2s>>

ClientRuns ==
  \E i \in Arriving(s2c) :
    /\ ClientReceives(s2c[i])
    /\ \E rest \in Remaining(s2c, i) : s2c' = rest
    /\ ClientSends
    /\ UNCHANGED sessionVars

ClientTimesOut == ClientTimeout /\ ClientSends /\ UNCHANGED <<sessionVars, s2c>>

ClientCrashes == ClientFault /\ ClientSends /\ UNCHANGED <<sessionVars, s2c>>

StrangerReachesClient ==
  /\ Strangers
  /\ \E op \in {"STRANGER", "EMPTY"} : ClientReceives(Packet(op, 0, <<>>))
  /\ ClientSends
  /\ UNCHANGED <<sessionVars, s2c>>

StrangerReachesSession ==
  /\ Strangers
  /\ PacketReceived(Packet("STRANGER", 0, <<>>))
  /\ UNCHANGED <<clientVars, c2s, s2c>>

Lose ==
  /\ \/ s2c' \in Losing(s2c) /\ UNCHANGED c2s
     \/ c2s' \in Losing(c2s) /\ UNCHANGED s2c
  /\ UNCHANGED <<sessionVars, clientVars>>

\* Nothing is left to happen.  A client whose socket has no timeout may wait for ever.
GetOver ==
  /\ Terminal
  /\ ClientDone \/ (~c_options.timed /\ s2c = <<>>)
  /\ UNCHANGED vars

GetNext ==
  \/ ServerRuns \/ ServerReceives \/ ServerFails \/ KernelTimer
  \/ ClientRuns \/ ClientTimesOut \/ ClientCrashes
  \/ StrangerReachesClient \/ StrangerReachesSession
  \/ Lose \/ GetOver

GetSpec == GetInit /\ [][GetNext]_vars

\* The worker and the client run, and time passes; the network owes nothing.  Time
\* does nothing for a client whose socket has no timeout: ClientTimesOut is disabled.
GetFairness == WF_vars(ServerRuns) /\ WF_vars(KernelTimer)
               /\ WF_vars(DataAvailable /\ ServerRuns)
               /\ WF_vars(ClientTimesOut) /\ WF_vars(ClientRuns)

FairGetSpec == GetSpec /\ GetFairness

-----------------------------------------------------------------------------
(* Properties. *)

\* Both sides keep their types, the client its retry limit and the network its bound.
GetTypeOK ==
  /\ TypeOK
  /\ c_options \in ClientOptionSet /\ c_tsize \in 0 .. FileLen
  /\ c_status \in {"receiving", "success", "failed"}
  /\ is_first_receive \in BOOLEAN /\ server_may_not_support_options \in BOOLEAN
  /\ c_expected_sequence_number \in Block
  /\ retransmissions \in 0 .. ClientRetries
  /\ Len(s2c) <= ChanCap /\ Len(c2s) <= ChanCap

\* What the client has stored is always a prefix of the server's file: no block is
\* stored twice, skipped or cut from the wrong buffer, whatever was lost or resent.
FileIsPrefix == c_file = FilePrefix(Len(c_file))

\* When the client reports success it has the whole file.
SuccessIsComplete == c_status = "success" => c_file = FilePrefix(FileLen)

\* Blocks the session takes for acknowledged.
AckedBlocks == blocks - Dist(window_begin, next_data_packet_to_send)

\* The session never takes for acknowledged a block that the client has not stored,
\* so that no buffer is reused for a block that may have to be resent; and the client
\* never stores a block the session has not sent.
NeverAhead == AckedBlocks <= c_blocks /\ c_blocks <= blocks

\* A session that closes without an error leaves a client that has the whole file.
CleanCloseMeansDelivered ==
  status = "closed" /\ ~error_occurred => c_file = FilePrefix(FileLen)

\* The client reports that options may be unsupported only if it has received
\* nothing but an error: a retry without options cannot repeat a running transfer.
UnsupportedMeansUntouched ==
  server_may_not_support_options => c_status = "failed" /\ c_file = <<>>

\* How the session stands: done when the ACK of the last block has come, and failed when
\* it closes or ends without.
SessionOutcome ==
  IF last_packet # -1 /\ AckedBlocks = LastBlock THEN "ok"
  ELSE IF should_close \/ Terminal THEN "failed" ELSE "running"

ClientOutcome ==
  CASE c_status = "receiving" -> "running"
    [] c_status = "success" -> "ok"
    [] c_status = "failed" -> "failed"

\* The whole exchange is a reliable transfer from the session to the client: the
\* client stores the file block by block, the window of the session moves forward
\* only over blocks that are stored, and neither end is wrong about success.
Transfer == INSTANCE ReliableTransfer WITH
  file <- FilePrefix(FileLen), stored <- c_file, received <- c_blocks,
  confirmed <- AckedBlocks, sender <- SessionOutcome, receiver <- ClientOutcome

GetIsReliable == Transfer!Spec

\* Whatever the network loses the session comes to an end, and so does the client, if
\* it was given options: without, its socket has no timeout, and a lost last block or a
\* session that dies leaves it waiting.
TransferEnds == <>Terminal /\ (c_options.timed => <>ClientDone)
=============================================================================
