---------------------------- MODULE PutTransfer -----------------------------
(***************************************************************************)
(* A put: the client of ClientPut, a write session of ServerSession and    *)
(* the network between them.  The session is the one whose packet is the   *)
(* first the client receives.  A request that was sent again may start     *)
(* another session, whose packets are those of a stranger to the client    *)
(* but which opens, and truncates, the same file.                          *)
(***************************************************************************)
EXTENDS ServerSession, ClientPut, Network

CONSTANTS
  Reopens,      \* bound on the other sessions that retransmitted requests start
  Timely,       \* TRUE: a timer runs out only when nothing is under way, the client's
                \* not more often than the session's, and losses are counted
  MaxLosses     \* losses the network is allowed when they count

ASSUME PutNetworkAssumption ==
  Reopens \in Nat /\ Timely \in BOOLEAN /\ MaxLosses \in Nat

VARIABLES
  s2c, c2s,     \* packets under way to the client and to the session
  wrqs,         \* repeated requests under way to the listening socket
  disk,         \* the file on the server
  clobbered,    \* another session truncated what this one had stored
  losses

transferVars == <<s2c, c2s, wrqs, disk, clobbered, losses>>
vars == <<sessionVars, putVars, transferVars>>

PutTransferInit ==
  /\ SessionInit /\ PutInit
  /\ request.type = "write" /\ request.mode # "invalid" /\ (request.options => p_use)
  /\ s2c = <<>> /\ c2s = <<>> /\ wrqs = 0
  /\ disk = <<>> /\ clobbered = FALSE /\ losses = 0

-----------------------------------------------------------------------------
\* write() puts data at the offset of the session's descriptor; a gap reads as zeros.
WriteAt(f, offset, data) ==
  [i \in 1 .. offset + Len(data) |->
     CASE i > offset -> data[i - offset]
       [] i <= offset /\ i <= Len(f) -> f[i]
       [] OTHER -> 0]

\* What the session does to the file: open it with O_TRUNC, append a block.
SessionStores ==
  disk' = CASE fd = "zero" /\ fd' = "file" -> <<>>
            [] Len(written') > Len(written) ->
                 WriteAt(disk, Len(written),
                         SubSeq(written', Len(written) + 1, Len(written')))
            [] OTHER -> disk

ServerSends == s2c' = Transmit(s2c, sent') /\ SessionStores

\* Nothing is under way and both sides wait.
Silence ==
  s2c = <<>> /\ c2s = <<>> /\ wrqs = 0 /\ timers_fired = 0 /\ status # "new"

ServerRuns ==
  /\ Start \/ RingEvent
  /\ ServerSends
  /\ UNCHANGED <<putVars, c2s, wrqs, clobbered, losses>>

ServerReceives ==
  \E i \in Arriving(c2s) :
    /\ PacketReceived(c2s[i]) \/ PacketDropped
    /\ \E rest \in Remaining(c2s, i) : c2s' = rest
    /\ ServerSends
    /\ UNCHANGED <<putVars, wrqs, clobbered, losses>>

ServerFails == SyscallFailure /\ UNCHANGED <<putVars, transferVars>>

KernelTimer ==
  /\ Timely => Silence
  /\ TimerFires
  /\ UNCHANGED <<putVars, transferVars>>

\* A request that is sent again goes to the listening socket.
ClientSends ==
  /\ c2s' = Transmit(c2s, IF p_sent' = <<Wrq>> THEN <<>> ELSE p_sent')
  /\ wrqs' = IF p_sent' = <<Wrq>> /\ wrqs < Reopens THEN wrqs + 1 ELSE wrqs

ClientRuns ==
  \E i \in Arriving(s2c) :
    /\ PutReceives(s2c[i])
    /\ \E rest \in Remaining(s2c, i) : s2c' = rest
    /\ ClientSends
    /\ UNCHANGED <<sessionVars, disk, clobbered, losses>>

ClientTimesOut ==
  /\ Timely => /\ Silence
               /\ timers_armed > 0 => p_retransmissions <= current_retransmission
  /\ PutTimeout /\ ClientSends
  /\ UNCHANGED <<sessionVars, s2c, disk, clobbered, losses>>

ClientCrashes ==
  /\ PutFault /\ ClientSends
  /\ UNCHANGED <<sessionVars, s2c, disk, clobbered, losses>>

\* A repeated request arrives and starts a session of its own, which opens the file.
AnotherSession ==
  /\ wrqs > 0 /\ wrqs' = wrqs - 1
  /\ disk' = <<>>
  /\ clobbered' = (clobbered \/ disk # <<>>)
  /\ UNCHANGED <<sessionVars, putVars, s2c, c2s, losses>>

\* The OACK or ACK of another session reaches the client.
StrangerReachesClient ==
  /\ PutReceives(Packet("STRANGER", 0, <<>>))
  /\ ClientSends
  /\ UNCHANGED <<sessionVars, s2c, disk, clobbered, losses>>

Lose ==
  /\ Timely => losses < MaxLosses
  /\ losses' = IF Timely THEN losses + 1 ELSE losses
  /\ \/ s2c' \in Losing(s2c) /\ UNCHANGED <<c2s, wrqs>>
     \/ c2s' \in Losing(c2s) /\ UNCHANGED <<s2c, wrqs>>
     \/ wrqs > 0 /\ wrqs' = wrqs - 1 /\ UNCHANGED <<s2c, c2s>>
  /\ UNCHANGED <<sessionVars, putVars, disk, clobbered>>

\* When the client is gone a session without options waits for ever.
PutOver ==
  /\ PutDone /\ (Terminal \/ status = "idle")
  /\ UNCHANGED vars

PutNext ==
  \/ ServerRuns \/ ServerReceives \/ ServerFails \/ KernelTimer
  \/ ClientRuns \/ ClientTimesOut \/ ClientCrashes
  \/ AnotherSession \/ StrangerReachesClient \/ Lose \/ PutOver

PutSpec == PutTransferInit /\ [][PutNext]_vars

\* The worker and the client run, and time passes; the network owes nothing.
PutFairness == WF_vars(ServerRuns) /\ WF_vars(KernelTimer)
               /\ WF_vars(ClientTimesOut) /\ WF_vars(ClientRuns)

FairPutSpec == PutSpec /\ PutFairness

-----------------------------------------------------------------------------
(* Properties. *)

\* Both sides keep their types, the counters their limits and the network its bounds.
PutTypeOK ==
  /\ TypeOK
  /\ p_status \in {"requesting", "sending", "success", "failed", "crashed", "hung"}
  /\ p_begin \in Block /\ p_next \in Block /\ p_eof \in BOOLEAN
  /\ p_last_size \in 0 .. BlockSize
  /\ p_retransmissions \in 0 .. PutRetries + 1
  /\ p_use \in BOOLEAN /\ p_unsupported \in BOOLEAN
  /\ Len(s2c) <= ChanCap /\ Len(c2s) <= ChanCap /\ wrqs \in 0 .. Reopens

\* A put that reports success has stored the whole file on the server, unless a session
\* started by a repeated request truncated it meanwhile.
PutSuccessIsStored ==
  p_status = "success" =>
    /\ written = FilePrefix(p_len)
    /\ clobbered \/ disk = FilePrefix(p_len)

\* The file on the server is at all times a prefix of the client's, with the same
\* exception.
DiskIsPrefix == clobbered \/ disk = FilePrefix(Len(disk))

\* The number of the last block is the greatest there is: 65535 in the code.  Then the
\* client cannot see that it was acknowledged and resends it at the wrong size.
LastNumberIsMaximal == PutBlocks % BlockMod = BlockMod - 1

\* The client never waits with nothing to resend: the resending loop would not end.
PutNeverHangs ==
  /\ p_status = "hung" => LastNumberIsMaximal
  /\ p_status = "sending" /\ p_begin = p_next => LastNumberIsMaximal

\* The exchange is a reliable transfer from the client to the session, for files whose
\* last block is not the one above.
AckedByClient == p_blocks - Dist(p_begin, p_next)
ClientOutcome ==
  CASE p_status \in {"requesting", "sending"} -> "running"
    [] p_status = "success" -> "ok"
    [] OTHER -> "failed"
SessionOutcome ==
  CASE blocks = PutBlocks -> "ok"
    [] blocks # PutBlocks /\ (error_occurred \/ Terminal) -> "failed"
    [] OTHER -> "running"
Transfer == INSTANCE ReliableTransfer WITH
  file <- FilePrefix(p_len), stored <- written, received <- blocks,
  confirmed <- AckedByClient, sender <- ClientOutcome, receiver <- SessionOutcome

PutIsReliable == Transfer!Spec

\* The client comes to an end, whatever the network loses, if it was given options:
\* without, its socket has no timeout.
PutEnds == p_options # "null" => <>PutDone

\* The network lost no more packets than the client may resend: the put succeeds.
LossIsRepaired == p_status = "failed" => losses > PutRetries
=============================================================================
