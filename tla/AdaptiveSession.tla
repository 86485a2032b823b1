--------------------------- MODULE AdaptiveSession --------------------------
(***************************************************************************)
(* A session of ServerSession with the measurements of its adaptive        *)
(* timeout.  The values it computes are left out: a timer of ServerSession *)
(* fires at any time, which covers them all.  What is kept is which round  *)
(* trips are measured.  Every session with options is taken to have asked  *)
(* for the adaptive timeout.                                               *)
(***************************************************************************)
EXTENDS ServerSession

VARIABLES
  measuring,                \* adaptive_timeout.is_timer_active
  starting_block_number,
  sampled,                  \* the block whose round trip the last call measured, or -1
  resent                    \* unacknowledged blocks, 0 for the OACK, sent more than once

measureVars == <<measuring, starting_block_number, sampled, resent>>
adaptiveVars == <<sessionVars, measureVars>>

AdaptiveInit ==
  /\ SessionInit
  /\ measuring = FALSE /\ starting_block_number = 0
  /\ sampled = -1 /\ resent = {}

-----------------------------------------------------------------------------
(* What a step of the session was. *)

SendsFirstOack == status = "new" /\ sent' = <<Oack>>
Retransmits == current_retransmission' > current_retransmission
SendsBlock == request.type = "read" /\ blocks' > blocks
TakesAck == timeout_removes' > timeout_removes

AckTaken == Pred(window_begin')

\* send_oack starts the measurement with number 0.
OackMeasured ==
  /\ SendsFirstOack
  /\ measuring' = TRUE /\ starting_block_number' = 0
  /\ sampled' = -1 /\ UNCHANGED resent

\* Mutant: the measurement goes on over a retransmission.
MeasurementKept == measuring

\* adaptive_timeout_cancel_timer, when on_timeout resends.
MeasurementAfterTimeout == FALSE

RetransmissionMeasured ==
  /\ Retransmits
  /\ measuring' = MeasurementAfterTimeout
  /\ resent' = resent \cup
                 (IF OptionsPending THEN {0}
                  ELSE { Plus(window_begin, i - 1) :
                           i \in 1 .. Dist(window_begin, next_data_packet_to_send) })
  /\ sampled' = -1 /\ UNCHANGED starting_block_number

\* on_data_available starts a measurement unless one is running.
BlockMeasured ==
  /\ SendsBlock
  /\ measuring' = valid_options_required
  /\ starting_block_number' = IF measuring THEN starting_block_number
                              ELSE next_data_packet_to_send
  /\ resent' = resent \ {next_data_packet_to_send}
  /\ sampled' = -1

\* An ACK at or after the block that is measured ends the measurement.
EndsMeasurement(n) ==
  measuring /\ is_in_range(n, starting_block_number, Pred(next_data_packet_to_send))

AckMeasured ==
  /\ TakesAck
  /\ measuring' = (measuring /\ ~EndsMeasurement(AckTaken))
  /\ sampled' = IF EndsMeasurement(AckTaken) THEN starting_block_number ELSE -1
  /\ UNCHANGED <<starting_block_number, resent>>

NothingMeasured ==
  /\ ~SendsFirstOack /\ ~Retransmits /\ ~SendsBlock /\ ~TakesAck
  /\ sampled' = -1
  /\ UNCHANGED <<measuring, starting_block_number, resent>>

AdaptiveNext ==
  /\ SessionNext
  /\ OackMeasured \/ RetransmissionMeasured \/ BlockMeasured \/ AckMeasured
     \/ NothingMeasured

FairAdaptiveSpec ==
  AdaptiveInit /\ [][AdaptiveNext]_adaptiveVars /\ RingFairness

-----------------------------------------------------------------------------
(* Properties. *)

\* Karn's rule, which the report claims for the server: the round trip of a packet that
\* was sent more than once is never measured, whichever timers and ACKs, also old ones,
\* come in between.
NoResentSample == sampled \notin resent
=============================================================================
