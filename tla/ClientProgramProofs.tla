------------------------- MODULE ClientProgramProofs ------------------------
(***************************************************************************)
(* For every command line, every server and every size of the file: both   *)
(* ends of a transfer agree on its terms, the exit status is the truth,    *)
(* and the second attempt repeats nothing.                                 *)
(***************************************************************************)
EXTENDS ClientProgram, OptionsProofs

(* The inductive invariant. *)

\* The request is what the call was given; a retry asks for nothing.
RequestIsAsGiven ==
  pc = "request" =>
    /\ asked = IF GivesOptions THEN requested(args, command) ELSE NoOptions
    /\ terms = IF GivesOptions THEN options_init(args, command) ELSE no_options_init

\* Only gets and puts are tried again, and a retry, which has no options to suspect, is
\* the last attempt.
RetryIsLast ==
  /\ is_retry \in BOOLEAN /\ unsupported \in BOOLEAN
  /\ is_retry => command # "list"
  /\ is_retry /\ pc \in {"returned", "main"} => ~unsupported

\* Bytes are delivered by the transfer only; one that is suspected never began.
DeliveredInTransfer ==
  /\ pc \in {"open", "request", "transfer"} => delivered = 0
  /\ unsupported /\ pc \in {"returned", "main"} => delivered = 0
  /\ response = "success" /\ pc \in {"returned", "main", "exit"} => delivered = Total

\* The output of a get is there while the call runs, and afterwards if it was there
\* before or is complete.
OutputFollowsCall ==
  /\ preexisting \in BOOLEAN /\ existed = preexisting
  /\ command # "get" => output = IF preexisting THEN "old" ELSE "absent"
  /\ pc = "open" => (output = "absent" <=> ~preexisting)
  /\ command = "get" /\ pc \in {"request", "transfer", "returned"} /\ ~io_failed =>
       output = "empty"
  /\ pc \in {"main", "exit"} /\ response = "failed" /\ ~io_failed =>
       (output = "absent" <=> ~preexisting)
  /\ pc \in {"main", "exit"} /\ response = "success" /\ command = "get" =>
       output = "complete"

\* What the exit status and a failure of the local files say of the last call.
OutcomeIsKnown ==
  /\ io_failed => pc \in {"returned", "main", "exit"} /\ response = "failed" /\ ~unsupported
  /\ exit # "none" => pc = "exit"
  /\ exit = "success" => response = "success"
  /\ exit = "failure" => response = "failed"

ProgramInv ==
  /\ ProgramTypeOK /\ TermsAgree
  /\ RequestIsAsGiven /\ RetryIsLast /\ DeliveredInTransfer /\ OutputFollowsCall
  /\ OutcomeIsKnown

-----------------------------------------------------------------------------
(* Assumptions, and what the request leaves behind. *)

\* The arguments are those of the command line, and the server is one of those modelled.
LEMMA CallFacts ==
  ASSUME ProgramTypeOK
  PROVE  /\ command \in {"list", "get", "put"} /\ args \in ClientArgs
         /\ server.timeout \in Timeouts
         /\ FileSize \in Nat /\ ListSize \in Nat
  <1>1. [command |-> command, args |-> args] \in
          [command: {"list", "get", "put"}, args: ClientArgs]
    BY ProgramAssumption DEF ProgramTypeOK
  <1>2. server \in ServerSet
    BY ProgramAssumption DEF ProgramTypeOK
  <1> QED
    BY <1>1, <1>2, ProgramAssumption DEF ServerSet

\* A request without options is acknowledged without options.
LEMMA OackNeedsOptions ==
  ASSUME SendsOack
  PROVE  asked # NoOptions
  BY NothingRecognized DEF SendsOack

\* What the first answer can be, and from which server.
LEMMA FirstAnswers ==
  /\ FirstAnswer = "OACK" => SendsOack
  /\ FirstAnswer = "ACK" => writing
  /\ FirstAnswer \in {"none", "OACK", "ACK", "DATA", "ERROR"}
  BY DEF FirstAnswer, SessionAnswer, PlainAnswer

\* A call that is given no options has the zero structure, one that is given some has
\* values in range.
LEMMA BegunTerms ==
  ASSUME ProgramTypeOK, pc = "request", RequestIsAsGiven
  PROVE  \/ asked = NoOptions /\ terms = no_options_init /\ is_retry
         \/ asked = requested(args, command) /\ terms = options_init(args, command)
  BY DEF RequestIsAsGiven, GivesOptions

\* The types that the negotiation is about.
NegotiationTyped ==
  /\ terms \in [block_size: {0} \cup BlockSizes, window_size: Uint16, timeout: Uint8,
                adaptive: BOOLEAN, use_tsize: BOOLEAN, tsize: Nat]
  /\ server_terms \in [block_size: BlockSizes, window_size: WindowSizes,
                       timeout: Timeouts, adaptive: BOOLEAN]
  /\ rcvtimeo \in Uint8

\* Terms in the ranges of the options are terms.
LEMMA TermsInRange ==
  /\ [block_size: BlockSizes, window_size: WindowSizes, timeout: Timeouts,
      adaptive: BOOLEAN, use_tsize: BOOLEAN, tsize: Nat] \subseteq
     [block_size: {0} \cup BlockSizes, window_size: Uint16, timeout: Uint8,
      adaptive: BOOLEAN, use_tsize: BOOLEAN, tsize: Nat]
  /\ no_options_init \in
       [block_size: {0} \cup BlockSizes, window_size: Uint16, timeout: Uint8,
        adaptive: BOOLEAN, use_tsize: BOOLEAN, tsize: Nat]
  <1>1. WindowSizes \subseteq Uint16 /\ Timeouts \subseteq Uint8
    BY DEF WindowSizes, Timeouts
  <1>2. 0 \in Uint16 /\ 0 \in Uint8
    BY DEF Uint8, Uint16
  <1>3. ASSUME NEW t \in [block_size: BlockSizes, window_size: WindowSizes, timeout: Timeouts,
                          adaptive: BOOLEAN, use_tsize: BOOLEAN, tsize: Nat]
        PROVE  t \in [block_size: {0} \cup BlockSizes, window_size: Uint16, timeout: Uint8,
                      adaptive: BOOLEAN, use_tsize: BOOLEAN, tsize: Nat]
    BY <1>1
  <1> QED
    BY <1>2, <1>3 DEF no_options_init

\* An OACK that is accepted leaves both ends with the same terms.
LEMMA OackKeepsAgreement ==
  ASSUME ProgramTypeOK, pc = "request", RequestIsAsGiven, OackAnswered,
         UNCHANGED fixedVars
  PROVE  NegotiationTyped' /\ TermsAgree'
  <1>0. /\ command \in {"list", "get", "put"} /\ args \in ClientArgs
        /\ server.timeout \in Timeouts /\ FileSize \in Nat
        /\ UNCHANGED <<command, args, server, asked>>
    BY CallFacts DEF fixedVars, OackAnswered
  <1> DEFINE q == requested(args, command)
             size == AnnouncedSize
             acked == acked_options(asked, server, size)
             unrequested == UnrequestedOptions(acked, terms, command, asked)
             refused == ~writing /\ (unrequested \/ ListRefused)
  <1>1. CASE refused
    <2>1. pc' = "returned" /\ UNCHANGED <<terms, server_terms, rcvtimeo>>
      BY <1>1 DEF OackAnswered, Returns
    <2> QED BY <2>1 DEF NegotiationTyped, TermsAgree, ProgramTypeOK
  <1>2. CASE ~refused
    <2>1. asked = q /\ terms = options_init(args, command)
      BY BegunTerms, FirstAnswers, OackNeedsOptions DEF OackAnswered
    <2>2. /\ terms' = IF unrequested THEN terms ELSE handle_oack_packet(acked, terms, command)
          /\ server_terms' = parse_options(asked, server)
          /\ rcvtimeo' = IF terms'.adaptive THEN rcvtimeo ELSE terms'.timeout
      BY <1>2 DEF OackAnswered, Transfers
    <2>3. size \in Nat \cup {Absent}
      BY <1>0 DEF AnnouncedSize
    <2> HIDE DEF size
    <2> DEFINE oacked == handle_oack_packet(acked, terms, command)
    <2>4. /\ oacked \in [block_size: BlockSizes, window_size: WindowSizes,
                         timeout: Timeouts, adaptive: BOOLEAN, use_tsize: BOOLEAN, tsize: Nat]
          /\ oacked.block_size = server_terms'.block_size
          /\ terms.block_size = server_terms'.block_size
          /\ command # "put" => oacked.window_size = server_terms'.window_size
                                /\ oacked.adaptive = server_terms'.adaptive
      BY <1>0, <2>1, <2>2, <2>3, OackAgrees
    <2>5. terms \in [block_size: BlockSizes, window_size: WindowSizes, timeout: Timeouts,
                     adaptive: BOOLEAN, use_tsize: BOOLEAN, tsize: Nat]
      BY <1>0, <2>1, InitialTerms
    <2>6. server_terms' \in [block_size: BlockSizes, window_size: WindowSizes,
                             timeout: Timeouts, adaptive: BOOLEAN]
      BY <1>0, <2>2, SessionTerms
    <2>7. command = "list" => reads_directory'
      <3> SUFFICES ASSUME command = "list" PROVE reads_directory'
        OBVIOUS
      <3> DEFINE r == recognized_options(asked, server)
      <3>1. r = [o \in Option |-> r[o]] /\ r.read_type \in {Absent, Directory}
        BY RecognizedOptions
      <3>2. acked_options(asked, server, 0) = [r EXCEPT !.tsize = IF @ # Absent THEN 0 ELSE Absent]
        BY DEF acked_options
      <3>3. acked_options(asked, server, 0).read_type # Absent
        BY <1>2 DEF ListRefused, writing
      <3> HIDE DEF r
      <3>4. r.read_type = Directory
        BY <3>1, <3>2, <3>3 DEF Option
      <3> QED BY <1>0, <3>4 DEF r, reads_directory, writing
    <2> HIDE DEF oacked, unrequested, refused
    <2>8. terms' = terms \/ (terms' = oacked /\ ~unrequested)
      BY <2>2 DEF oacked
    <2>9. ~writing => terms' = oacked
      BY <1>2, <2>2 DEF refused, oacked
    <2>10. NegotiationTyped'
      <3>1. terms' \in [block_size: BlockSizes, window_size: WindowSizes, timeout: Timeouts,
                        adaptive: BOOLEAN, use_tsize: BOOLEAN, tsize: Nat]
        BY <2>4, <2>5, <2>8
      <3>2. terms'.timeout \in Uint8
        BY <3>1 DEF Timeouts
      <3>3. rcvtimeo' \in Uint8
        BY <2>2, <3>2 DEF ProgramTypeOK
      <3> QED BY <2>6, <3>1, <3>3, TermsInRange DEF NegotiationTyped
    <2> QED
      BY <1>0, <2>4, <2>7, <2>8, <2>9, <2>10 DEF TermsAgree, writing
  <1> QED
    BY <1>1, <1>2

\* So does a server that ignores the options.
LEMMA OtherAnswersAgree ==
  ASSUME ProgramTypeOK, pc = "request", RequestIsAsGiven,
         DataAnswered \/ AckAnswered \/ ErrorAnswered,
         UNCHANGED fixedVars
  PROVE  NegotiationTyped' /\ TermsAgree'
  <1>0. /\ command \in {"list", "get", "put"} /\ args \in ClientArgs
        /\ server.timeout \in Timeouts
        /\ UNCHANGED <<command, args, server>>
    BY CallFacts DEF fixedVars
  <1>1. NegotiationTyped
    BY DEF ProgramTypeOK, NegotiationTyped
  <1>2. CASE UNCHANGED <<terms, server_terms, rcvtimeo>> /\ pc' # "transfer"
    BY <1>1, <1>2 DEF NegotiationTyped, TermsAgree
  <1>3. /\ default_terms \in [block_size: BlockSizes, window_size: WindowSizes,
                              timeout: Timeouts, adaptive: BOOLEAN]
        /\ default_terms.block_size = DefaultBlockSize /\ default_terms.window_size = 1
        /\ default_terms.adaptive = FALSE
    BY <1>0, SessionTerms, DefaultTerms DEF default_terms
  <1>4. CASE DataAnswered /\ pc' = "transfer"
    <2>1. /\ command # "list" /\ terms' = options_after_data(terms)
          /\ server_terms' = default_terms /\ UNCHANGED rcvtimeo
      BY <1>4 DEF DataAnswered, Returns, Transfers
    <2>2. /\ terms'.block_size = DefaultBlockSize /\ terms'.window_size = 1
          /\ terms'.adaptive = FALSE
          /\ NegotiationTyped'
      BY <1>1, <1>3, <2>1, DefaultsInRange
         DEF options_after_data, NegotiationTyped, WindowSizes, Timeouts
    <2> QED BY <1>0, <1>3, <2>1, <2>2 DEF TermsAgree
  <1>5. CASE AckAnswered /\ pc' = "transfer"
    <2>1. /\ writing /\ terms' = options_after_ack(terms, use_options)
          /\ terms.window_size # 0
          /\ server_terms' = default_terms /\ UNCHANGED rcvtimeo
      BY <1>5, FirstAnswers DEF AckAnswered, Transfers
    <2>2. asked = requested(args, command) /\ terms = options_init(args, command)
      BY <2>1, BegunTerms DEF no_options_init
    <2>3. terms'.block_size = DefaultBlockSize /\ NegotiationTyped'
      <3>1. CASE use_options
        BY <1>1, <1>3, <2>1, <3>1, DefaultsInRange
           DEF options_after_ack, NegotiationTyped, Timeouts
      <3>2. CASE ~use_options
        <4>1. asked.blksize = Absent
          BY <3>2 DEF use_options, Active, Option
        <4>2. terms.block_size = DefaultBlockSize
          BY <1>0, <2>2, <4>1, InitialTerms
        <4> QED BY <1>1, <1>3, <2>1, <3>2, <4>2 DEF options_after_ack, NegotiationTyped
      <3> QED BY <3>1, <3>2
    <2> QED BY <1>0, <1>3, <2>1, <2>3 DEF TermsAgree, writing
  <1> QED
    BY <1>2, <1>4, <1>5
       DEF DataAnswered, AckAnswered, ErrorAnswered, Returns, Transfers, callVars

-----------------------------------------------------------------------------
(* The invariant is inductive. *)

\* A client that has not begun.
LEMMA InitEstablishesProgramInv == ProgramInit => ProgramInv
  <1> SUFFICES ASSUME ProgramInit PROVE ProgramInv
    OBVIOUS
  <1>1. PICK c \in Calls : command = c.command /\ args = c.args
    BY DEF ProgramInit
  <1>2. c \in [command: {"list", "get", "put"}, args: ClientArgs]
    BY ProgramAssumption
  <1>3. [command |-> command, args |-> args] \in Calls
    BY <1>1, <1>2
  <1>4. server \in Servers /\ server.timeout \in Timeouts
    BY ProgramAssumption DEF ProgramInit, ServerSet
  <1>5. server_terms \in [block_size: BlockSizes, window_size: WindowSizes,
                          timeout: Timeouts, adaptive: BOOLEAN]
    BY <1>4, SessionTerms DEF ProgramInit, default_terms
  <1>6. rcvtimeo \in Uint8
    BY DEF ProgramInit, Uint8
  <1>7. ProgramTypeOK
    BY <1>3, <1>4, <1>5, <1>6, TermsInRange DEF ProgramInit, ProgramTypeOK
  <1> QED
    BY <1>7 DEF ProgramInit, ProgramInv, TermsAgree, RequestIsAsGiven, RetryIsLast,
       DeliveredInTransfer, OutputFollowsCall, OutcomeIsKnown

\* Every phase keeps the invariant.
LEMMA NextKeepsProgramInv == ProgramInv /\ [ProgramNext]_programVars => ProgramInv'
  <1> SUFFICES ASSUME ProgramInv, [ProgramNext]_programVars PROVE ProgramInv'
    OBVIOUS
  <1>0. /\ ProgramTypeOK /\ TermsAgree /\ RequestIsAsGiven /\ RetryIsLast
        /\ DeliveredInTransfer /\ OutputFollowsCall /\ OutcomeIsKnown
        /\ NegotiationTyped
    BY DEF ProgramInv, ProgramTypeOK, NegotiationTyped
  <1>1. CASE UNCHANGED programVars
    BY <1>0, <1>1 DEF programVars, fixedVars, callVars, fileVars, ProgramInv, ProgramTypeOK,
       TermsAgree, RequestIsAsGiven, RetryIsLast, DeliveredInTransfer, OutputFollowsCall,
       OutcomeIsKnown, GivesOptions, writing, reads_directory, Total
  <1>2. ASSUME UNCHANGED fixedVars, NegotiationTyped',
               pc' \in {"open", "request", "transfer", "returned", "main", "exit", "crashed"},
               output' \in {"absent", "old", "empty", "part", "complete"}
        PROVE  ProgramTypeOK'
    BY <1>0, <1>2 DEF ProgramTypeOK, NegotiationTyped, fixedVars
  <1>3. CASE OpenFiles
    <2>1. /\ pc = "open" /\ pc' = "request"
          /\ UNCHANGED fixedVars /\ UNCHANGED <<is_retry, delivered, io_failed, exit>>
          /\ UNCHANGED <<server_terms, response, unsupported>>
          /\ existed' = (output # "absent")
          /\ output' = IF command = "get" THEN "empty" ELSE output
          /\ asked' = IF GivesOptions THEN requested(args, command) ELSE NoOptions
          /\ terms' = IF GivesOptions THEN options_init(args, command) ELSE no_options_init
          /\ rcvtimeo' = terms'.timeout
      BY <1>3 DEF OpenFiles, Begins
    <2>2. terms' \in [block_size: {0} \cup BlockSizes, window_size: Uint16, timeout: Uint8,
                      adaptive: BOOLEAN, use_tsize: BOOLEAN, tsize: Nat]
      BY <1>0, <2>1, CallFacts, InitialTerms, TermsInRange
    <2>3. NegotiationTyped'
      BY <1>0, <2>1, <2>2 DEF NegotiationTyped
    <2>4. ProgramTypeOK'
      BY <1>0, <1>2, <2>1, <2>3 DEF ProgramTypeOK
    <2>5. RequestIsAsGiven'
      BY <2>1 DEF RequestIsAsGiven, GivesOptions, fixedVars
    <2>6. TermsAgree' /\ RetryIsLast' /\ DeliveredInTransfer' /\ OutcomeIsKnown'
      BY <1>0, <2>1 DEF TermsAgree, RetryIsLast, DeliveredInTransfer, OutcomeIsKnown,
         fixedVars
    <2>7. OutputFollowsCall'
      BY <1>0, <2>1 DEF OutputFollowsCall, OutcomeIsKnown, fixedVars
    <2> QED BY <2>4, <2>5, <2>6, <2>7 DEF ProgramInv
  <1>4. CASE OpenFails
    <2>1. /\ pc = "open" /\ pc' = "returned" /\ response' = "failed" /\ unsupported' = FALSE
          /\ command # "list" /\ io_failed' = TRUE
          /\ output' \in {output} \cup (IF command = "get" THEN {"empty"} ELSE {})
          /\ UNCHANGED fixedVars /\ UNCHANGED callVars
          /\ UNCHANGED <<is_retry, delivered, existed, exit>>
      BY <1>4 DEF OpenFails, Returns
    <2>2. ProgramTypeOK'
      BY <1>0, <1>2, <2>1 DEF ProgramTypeOK, NegotiationTyped, callVars
    <2> QED
      BY <1>0, <2>1, <2>2 DEF ProgramInv, TermsAgree, RequestIsAsGiven, RetryIsLast,
         DeliveredInTransfer, OutputFollowsCall, OutcomeIsKnown, fixedVars
  <1>5. CASE CallFails \/ Unanswered
    <2>1. /\ pc = "request" /\ pc' = "returned" /\ response' = "failed"
          /\ unsupported' \in {FALSE, use_options}
          /\ UNCHANGED fixedVars /\ UNCHANGED callVars /\ UNCHANGED fileVars
          /\ UNCHANGED <<is_retry, delivered, exit>>
      BY <1>5 DEF CallFails, Unanswered, Returns
    <2>2. ProgramTypeOK'
      BY <1>0, <1>2, <2>1 DEF ProgramTypeOK, NegotiationTyped, callVars, fileVars
    <2>3. is_retry => ~use_options
      BY <1>0, <2>1, NothingRecognized
         DEF RetryIsLast, RequestIsAsGiven, GivesOptions, use_options
    <2>4. use_options \in BOOLEAN
      BY DEF use_options
    <2>5. RetryIsLast'
      <3>1. unsupported' \in BOOLEAN /\ (is_retry => ~unsupported')
        <4>1. CASE unsupported' = FALSE
          BY <4>1
        <4>2. CASE unsupported' = use_options
          BY <2>3, <2>4, <4>2, Zenon
        <4> QED BY <2>1, <4>1, <4>2
      <3> QED BY <1>0, <2>1, <3>1 DEF RetryIsLast, fixedVars
    <2>6. ~io_failed
      BY <1>0, <2>1 DEF OutcomeIsKnown
    <2> QED
      BY <1>0, <2>1, <2>2, <2>5, <2>6 DEF ProgramInv, TermsAgree, RequestIsAsGiven,
         DeliveredInTransfer, OutputFollowsCall, OutcomeIsKnown, fixedVars, fileVars
  <1>6. CASE Answered
    <2>1. /\ pc = "request" /\ UNCHANGED fixedVars /\ UNCHANGED fileVars
          /\ UNCHANGED <<is_retry, delivered, exit>>
      BY <1>6 DEF Answered
    <2>2. NegotiationTyped' /\ TermsAgree'
      BY <1>0, <1>6, <2>1, OackKeepsAgreement, OtherAnswersAgree DEF Answered
    <2>3. \/ pc' = "returned" /\ response' = "failed" /\ unsupported' \in {FALSE, use_options}
          \/ pc' \in {"transfer", "crashed"} /\ UNCHANGED <<response, unsupported>>
      BY <1>6 DEF Answered, OackAnswered, DataAnswered, AckAnswered, ErrorAnswered, Returns,
         Transfers
    <2>4. ProgramTypeOK'
      BY <1>0, <1>2, <2>1, <2>2, <2>3 DEF ProgramTypeOK, fileVars
    <2>5. is_retry => ~use_options
      BY <1>0, <2>1, NothingRecognized
         DEF RetryIsLast, RequestIsAsGiven, GivesOptions, use_options
    <2>6. use_options \in BOOLEAN
      BY DEF use_options
    <2>7. RetryIsLast'
      <3>1. CASE pc' = "returned"
        <4>1. unsupported' \in BOOLEAN /\ (is_retry => ~unsupported')
          <5>1. CASE unsupported' = FALSE
            BY <5>1
          <5>2. CASE unsupported' = use_options
            BY <2>5, <2>6, <5>2, Zenon
          <5> QED BY <2>3, <3>1, <5>1, <5>2
        <4> QED BY <1>0, <2>1, <3>1, <4>1 DEF RetryIsLast, fixedVars
      <3>2. CASE pc' \in {"transfer", "crashed"}
        BY <1>0, <2>1, <2>3, <3>2 DEF RetryIsLast, fixedVars
      <3> QED BY <2>3, <3>1, <3>2
    <2>8. ~io_failed /\ exit = "none"
      BY <1>0, <2>1 DEF OutcomeIsKnown
    <2> QED
      BY <1>0, <2>1, <2>2, <2>3, <2>4, <2>7, <2>8 DEF ProgramInv, RequestIsAsGiven,
         DeliveredInTransfer, OutputFollowsCall, OutcomeIsKnown, fixedVars, fileVars
  <1>7. CASE TransferCompletes
    <2>1. /\ pc = "transfer" /\ pc' = "returned" /\ response' \in {"success", "failed"}
          /\ unsupported' = FALSE /\ delivered' = delivered + Delivered
          /\ UNCHANGED fixedVars /\ UNCHANGED callVars /\ UNCHANGED fileVars
          /\ UNCHANGED <<is_retry, exit>>
      BY <1>7 DEF TransferCompletes, Returns
    <2>2. ProgramTypeOK'
      BY <1>0, <1>2, <2>1 DEF ProgramTypeOK, NegotiationTyped, callVars, fileVars
    <2>3. Total' = Total /\ Total \in Nat
      BY <1>0, <2>1, CallFacts DEF Total, reads_directory, writing, fixedVars, callVars
    <2>4. delivered' = Total
      BY <1>0, <2>1, <2>3 DEF DeliveredInTransfer, Delivered, TermsAgree
    <2>5. DeliveredInTransfer'
      BY <2>1, <2>3, <2>4 DEF DeliveredInTransfer
    <2>6. ~io_failed /\ exit = "none"
      BY <1>0, <2>1 DEF OutcomeIsKnown
    <2> QED
      BY <1>0, <2>1, <2>2, <2>5, <2>6 DEF ProgramInv, TermsAgree, RequestIsAsGiven,
         RetryIsLast, OutputFollowsCall, OutcomeIsKnown, fixedVars, fileVars
  <1>8. CASE TransferTimesOut \/ TransferAborts
    <2>1. /\ pc = "transfer" /\ pc' = "returned" /\ response' = "failed"
          /\ unsupported' = FALSE
          /\ UNCHANGED fixedVars /\ UNCHANGED callVars /\ UNCHANGED fileVars
          /\ UNCHANGED <<is_retry, exit>>
      BY <1>8 DEF TransferTimesOut, TransferAborts, Returns
    <2>2. ProgramTypeOK'
      BY <1>0, <1>2, <2>1 DEF ProgramTypeOK, NegotiationTyped, callVars, fileVars
    <2>3. ~io_failed /\ exit = "none"
      BY <1>0, <2>1 DEF OutcomeIsKnown
    <2> QED
      BY <1>0, <2>1, <2>2, <2>3 DEF ProgramInv, TermsAgree, RequestIsAsGiven,
         RetryIsLast, DeliveredInTransfer, OutputFollowsCall, OutcomeIsKnown, fixedVars,
         fileVars
  <1>9. CASE Finishes
    <2>1. /\ pc = "returned" /\ pc' = "main" /\ exit = "none"
          /\ UNCHANGED fixedVars /\ UNCHANGED callVars
          /\ UNCHANGED <<is_retry, delivered, existed, io_failed, exit>>
      BY <1>9 DEF Finishes
    <2>2. \/ /\ command # "get" \/ io_failed
             /\ UNCHANGED <<output, response, unsupported>>
          \/ /\ command = "get" /\ ~io_failed /\ response = "success"
             /\ output' = copy_file_contents
             /\ UNCHANGED <<response, unsupported>>
          \/ /\ command = "get" /\ ~io_failed /\ response = "success"
             /\ output' = Cleanup("part")
             /\ response' = "failed" /\ unsupported' = FALSE
          \/ /\ command = "get" /\ ~io_failed /\ response = "failed"
             /\ output' = Cleanup(output)
             /\ UNCHANGED <<response, unsupported>>
      BY <1>9 DEF Finishes
    <2>3. ProgramTypeOK'
      <3>1. output' \in {"absent", "old", "empty", "part", "complete"}
        BY <1>0, <2>2 DEF ProgramTypeOK, copy_file_contents, Cleanup
      <3> QED BY <1>0, <1>2, <2>1, <3>1 DEF NegotiationTyped, callVars
    <2>4. DeliveredInTransfer'
      BY <1>0, <2>1, <2>2
         DEF DeliveredInTransfer, Total, reads_directory, writing, fixedVars, callVars
    <2>5. RetryIsLast'
      <3>1. CASE UNCHANGED unsupported
        BY <1>0, <2>1, <3>1 DEF RetryIsLast, fixedVars
      <3>2. CASE unsupported' = FALSE
        BY <1>0, <2>1, <3>2 DEF RetryIsLast, fixedVars
      <3> QED BY <2>2, <3>1, <3>2
    <2>6. OutcomeIsKnown'
      BY <1>0, <2>1, <2>2 DEF OutcomeIsKnown
    <2>7. TermsAgree' /\ RequestIsAsGiven'
      BY <2>1 DEF TermsAgree, RequestIsAsGiven
    <2>8. OutputFollowsCall'
      BY <1>0, <2>1, <2>2 DEF OutputFollowsCall, OutcomeIsKnown, DeliveredInTransfer,
         copy_file_contents, Cleanup, fixedVars
    <2> QED BY <2>3, <2>4, <2>5, <2>6, <2>7, <2>8 DEF ProgramInv
  <1>10. CASE MainDecides
    <2>1. /\ pc = "main" /\ UNCHANGED fixedVars /\ UNCHANGED callVars /\ UNCHANGED fileVars
          /\ UNCHANGED <<delivered, response, unsupported>>
          /\ \/ /\ response = "failed" /\ (command = "list" \/ ~unsupported)
                /\ pc' = "exit" /\ exit' = "failure" /\ UNCHANGED is_retry
             \/ /\ response = "success" \/ (is_retry /\ command # "list" /\ unsupported)
                /\ pc' = "exit" /\ exit' = "success" /\ UNCHANGED is_retry
             \/ /\ response = "failed" /\ command # "list" /\ unsupported /\ ~is_retry
                /\ is_retry' = TRUE /\ pc' = "open" /\ UNCHANGED exit
      BY <1>10 DEF MainDecides
    <2>2. ProgramTypeOK'
      BY <1>0, <1>2, <2>1 DEF ProgramTypeOK, NegotiationTyped, callVars, fileVars
    <2>3. Total' = Total
      BY <2>1 DEF Total, reads_directory, writing, fixedVars, callVars
    <2>4. DeliveredInTransfer'
      BY <1>0, <2>1, <2>3 DEF DeliveredInTransfer
    <2>5. RetryIsLast'
      <3>1. CASE UNCHANGED is_retry /\ pc' = "exit"
        BY <1>0, <2>1, <3>1 DEF RetryIsLast, fixedVars
      <3>2. CASE is_retry' = TRUE /\ command # "list" /\ pc' = "open"
        BY <1>0, <2>1, <3>2 DEF RetryIsLast, fixedVars
      <3> QED BY <2>1, <3>1, <3>2
    <2>6. OutcomeIsKnown'
      BY <1>0, <2>1 DEF OutcomeIsKnown, RetryIsLast, fileVars
    <2>7. TermsAgree' /\ RequestIsAsGiven'
      BY <2>1 DEF TermsAgree, RequestIsAsGiven
    <2>8. OutputFollowsCall'
      BY <1>0, <2>1 DEF OutputFollowsCall, OutcomeIsKnown, RetryIsLast, fixedVars, fileVars
    <2> QED BY <2>2, <2>4, <2>5, <2>6, <2>7, <2>8 DEF ProgramInv
  <1> QED
    BY <1>1, <1>3, <1>4, <1>5, <1>6, <1>7, <1>8, <1>9, <1>10
       DEF ProgramNext, ProgramOver, WaitsForEver

-----------------------------------------------------------------------------
(* The theorems. *)

\* The inductive invariant holds for every set of command lines and of servers and every
\* size of the file and of the listing.
THEOREM ProgramInvAlways == ProgramSpec => []ProgramInv
  BY InitEstablishesProgramInv, NextKeepsProgramInv, PTL DEF ProgramSpec

\* Every variable has its type and every timeout its range: what the options say never
\* leaves the range of uint8_t and uint16_t.
THEOREM ProgramTypesAlways == ProgramSpec => []ProgramTypeOK
  <1>1. ProgramInv => ProgramTypeOK
    BY DEF ProgramInv
  <1> QED
    BY <1>1, ProgramInvAlways, PTL

\* When the transfer begins both ends agree on its terms, whatever was asked for, switched
\* off at the server, refused or ignored.
THEOREM TermsAgreeAlways == ProgramSpec => []TermsAgree
  <1>1. ProgramInv => TermsAgree
    BY DEF ProgramInv
  <1> QED
    BY <1>1, ProgramInvAlways, PTL

\* The exit status of the program is the truth: after success everything was delivered,
\* once, and the output of a get is complete.
THEOREM ExitIsHonestAlways == ProgramSpec => []ExitIsHonest
  <1>1. ProgramInv => ExitIsHonest
    BY DEF ProgramInv, ExitIsHonest, OutcomeIsKnown, DeliveredInTransfer, OutputFollowsCall
  <1> QED
    BY <1>1, ProgramInvAlways, PTL

\* A program that fails removes the output that it has created.
THEOREM NoDebrisAlways == ProgramSpec => []NoDebris
  <1>1. ProgramInv => NoDebris
    BY DEF ProgramInv, NoDebris, OutcomeIsKnown, OutputFollowsCall
  <1> QED
    BY <1>1, ProgramInvAlways, PTL

\* The second attempt without options begins as the first: nothing was delivered, and the
\* output file is there only if it was before.
THEOREM RetryRepeatsNothingAlways == ProgramSpec => []RetryRepeatsNothing
  <1>1. ProgramInv => RetryRepeatsNothing
    BY DEF ProgramInv, RetryRepeatsNothing, DeliveredInTransfer, OutputFollowsCall
  <1> QED
    BY <1>1, ProgramInvAlways, PTL
=============================================================================
