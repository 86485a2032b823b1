---------------------------- MODULE ClientProgram ---------------------------
(***************************************************************************)
(* The command line client around tftp_client_read and tftp_client_write:  *)
(* the output file, the negotiation of Options with a server, the outcome  *)
(* of the transfer, and the second attempt without options.                *)
(*                                                                         *)
(* The transfer itself is the subject of GetTransfer and PutTransfer; here *)
(* it is one step that ends it in one of the ways they allow.  Its bytes   *)
(* are counted, so that two ends that disagree on the block size show.     *)
(***************************************************************************)
EXTENDS Options

CONSTANTS
  Calls,       \* the command lines: records [command, args]
  Servers,     \* the servers that may be called
  FileSize,    \* size of the file that is transferred
  ListSize     \* size of the listing of a directory, never 0: it names "." and ".."

\* A server of this repository, one without options, one that answers requests with
\* options by an error, or none.  file is what the name stands for at the server.
ServerSet == [kind: {"this", "plain", "refusing", "down"}, list: BOOLEAN,
              adaptive: BOOLEAN, write: BOOLEAN, timeout: Timeouts,
              file: {"regular", "directory", "missing"}]

ASSUME ProgramAssumption ==
  /\ Calls \subseteq [command: {"list", "get", "put"}, args: ClientArgs]
  /\ Servers \subseteq ServerSet
  /\ FileSize \in Nat /\ ListSize \in Nat \ {0}

VARIABLES
  command, args, server, preexisting,   \* fixed by the call and its surroundings
  pc,               \* "open", "request", "transfer", "returned", "main", "exit" or
                    \* "crashed"
  is_retry,
  asked,            \* the options in the request
  terms,            \* the client's options structure
  server_terms,     \* block_size, window_size and timeout of the session
  rcvtimeo,         \* the receive timeout of the socket: 0 for none
  delivered,        \* bytes that reached the receiving end in all attempts
  response,         \* "none", "success" or "failed"
  unsupported,      \* server_may_not_support_options
  existed,          \* output_file_already_exist
  output,           \* the output file: "absent", "old", "empty", "part" or "complete"
  io_failed,        \* an operation on the local files other than the copy failed
  exit              \* "none", "success" or "failure"

fixedVars == <<command, args, server, preexisting>>
callVars == <<asked, terms, server_terms, rcvtimeo>>
fileVars == <<existed, output, io_failed>>
programVars == <<fixedVars, callVars, fileVars, pc, is_retry, delivered, response,
                 unsupported, exit>>

use_options == Active(asked) # {}
default_terms == parse_options(NoOptions, server)

ProgramInit ==
  /\ \E c \in Calls : command = c.command /\ args = c.args
  /\ server \in Servers
  /\ preexisting \in BOOLEAN
  /\ pc = "open" /\ is_retry = FALSE
  /\ asked = NoOptions /\ terms = no_options_init
  /\ server_terms = default_terms
  /\ rcvtimeo = 0 /\ delivered = 0
  /\ response = "none" /\ unsupported = FALSE
  /\ existed = preexisting /\ output = IF preexisting THEN "old" ELSE "absent"
  /\ io_failed = FALSE /\ exit = "none"

-----------------------------------------------------------------------------
\* The call of the library returns.
Returns(result, suspect) ==
  /\ pc' = "returned"
  /\ response' = result
  /\ unsupported' = suspect

\* Mutant: the second attempt asks for the same options.
GivesOptionsAgain == TRUE

\* options_ptr is null in a retry; a list is given its options anyway.
GivesOptions == ~is_retry \/ command = "list"

\* tftp_client_read or tftp_client_write begins, with its timeout set on the socket.
Begins ==
  /\ asked' = IF GivesOptions THEN requested(args, command) ELSE NoOptions
  /\ terms' = IF GivesOptions THEN options_init(args, command) ELSE no_options_init
  /\ rcvtimeo' = terms'.timeout
  /\ pc' = "request"
  /\ UNCHANGED <<server_terms, response, unsupported>>

\* A get creates its output file, or empties the one there is, before it asks.
OpenFiles ==
  /\ pc = "open"
  /\ existed' = (output # "absent")
  /\ output' = IF command = "get" THEN "empty" ELSE output
  /\ Begins
  /\ UNCHANGED <<fixedVars, is_retry, delivered, io_failed, exit>>

\* The output cannot be opened, or no temporary file be made: then the output that
\* was created or emptied is left.  Or the input of a put cannot be opened.
OpenFails ==
  /\ pc = "open" /\ command # "list"
  /\ output' \in {output} \cup (IF command = "get" THEN {"empty"} ELSE {})
  /\ io_failed' = TRUE
  /\ Returns("failed", FALSE)
  /\ UNCHANGED <<fixedVars, callVars, is_retry, delivered, existed, exit>>

\* No connection, no memory or no packet sent.
CallFails ==
  /\ pc = "request"
  /\ Returns("failed", FALSE)
  /\ UNCHANGED <<fixedVars, callVars, fileVars, is_retry, delivered, exit>>

-----------------------------------------------------------------------------
(* The first answer. *)

writing == command = "put"

\* A session that reads a directory, for which no size is announced.
reads_directory ==
  ~writing /\ recognized_options(asked, server).read_type = Directory

\* session_file_init succeeds.
Opens == CASE writing -> server.file # "directory"
           [] reads_directory -> server.file = "directory"
           [] OTHER -> server.file # "missing"

\* A directory that is opened as a file cannot be read.
Readable == reads_directory \/ server.file = "regular"

AnnouncedSize == CASE writing -> 0
                   [] ~writing /\ server.file = "regular" -> FileSize
                   [] OTHER -> Absent

SendsOack == Opens /\ Active(recognized_options(asked, server)) # {}

\* What a session answers; a write that is not allowed is not answered at all.
SessionAnswer ==
  CASE writing /\ ~server.write -> "none"
    [] ~(writing /\ ~server.write) /\ SendsOack -> "OACK"
    [] writing /\ server.write /\ ~SendsOack -> "ACK"
    [] OTHER -> IF Opens /\ Readable THEN "DATA" ELSE "ERROR"

PlainAnswer == CASE writing -> "ACK"
                 [] ~writing /\ server.file = "regular" -> "DATA"
                 [] OTHER -> "ERROR"

FirstAnswer == CASE server.kind = "this" -> SessionAnswer
                 [] server.kind = "refusing" /\ use_options -> "ERROR"
                 [] server.kind = "down" -> "none"
                 [] OTHER -> PlainAnswer

\* The transfer begins on these terms.
Transfers(mine, theirs) ==
  /\ pc' = "transfer"
  /\ terms' = mine
  /\ server_terms' = theirs
  /\ UNCHANGED <<response, unsupported>>

\* A list whose OACK says nothing of a directory has asked a server without lists.
ListRefused == command = "list" /\ acked_options(asked, server, 0).read_type = Absent

\* An OACK with options nobody asked for ends a get; a put goes on as if it had none.
OackAnswered ==
  LET acked == acked_options(asked, server, AnnouncedSize)
      unrequested == UnrequestedOptions(acked, terms, command, asked)
      refused == ~writing /\ (unrequested \/ ListRefused)
  IN  /\ FirstAnswer = "OACK"
      /\ \/ /\ refused
            /\ Returns("failed", FALSE)
            /\ UNCHANGED <<terms, server_terms, rcvtimeo>>
         \/ /\ ~refused
            /\ Transfers(IF unrequested THEN terms
                         ELSE handle_oack_packet(acked, terms, command),
                         parse_options(asked, server))
            /\ rcvtimeo' = IF terms'.adaptive THEN rcvtimeo ELSE terms'.timeout
      /\ UNCHANGED asked

\* The options are dropped; a list cannot do without.
DataAnswered ==
  /\ FirstAnswer = "DATA"
  /\ \/ command = "list" /\ Returns("failed", use_options) /\ UNCHANGED callVars
     \/ /\ command # "list"
        /\ Transfers(options_after_data(terms), default_terms)
        /\ asked' = NoOptions
        /\ UNCHANGED rcvtimeo

\* Without options_init the window is 0, and send_file takes a remainder by it.
AckAnswered ==
  /\ FirstAnswer = "ACK"
  /\ \/ /\ terms.window_size = 0
        /\ pc' = "crashed"
        /\ UNCHANGED <<callVars, response, unsupported>>
     \/ /\ terms.window_size # 0
        /\ Transfers(options_after_ack(terms, use_options), default_terms)
        /\ asked' = NoOptions
        /\ UNCHANGED rcvtimeo

ErrorAnswered ==
  /\ FirstAnswer = "ERROR"
  /\ Returns("failed", use_options)
  /\ UNCHANGED callVars

Answered ==
  /\ pc = "request"
  /\ OackAnswered \/ DataAnswered \/ AckAnswered \/ ErrorAnswered
  /\ UNCHANGED <<fixedVars, fileVars, is_retry, delivered, exit>>

\* Everything sent or answered was lost, or nothing was answered: the retries run
\* out, if the socket has a timeout.
Unanswered ==
  /\ pc = "request" /\ rcvtimeo # 0
  /\ Returns("failed", use_options)
  /\ UNCHANGED <<fixedVars, callVars, fileVars, is_retry, delivered, exit>>

-----------------------------------------------------------------------------
(* The transfer and what get does afterwards. *)

Total == IF reads_directory THEN ListSize ELSE FileSize

Smaller(a, b) == IF a < b THEN a ELSE b

\* The receiver takes the first block that is shorter than its own size for the last.
Delivered ==
  IF terms.block_size = server_terms.block_size THEN Total
  ELSE Smaller(Total, Smaller(terms.block_size, server_terms.block_size))

\* The session stores or reads the file, then the size is compared.
TransferCompletes ==
  /\ pc = "transfer"
  /\ server.kind = "this" => Opens /\ (writing \/ Readable)
  /\ delivered' = delivered + Delivered
  /\ LET mismatch == ~writing /\ terms.use_tsize /\ Delivered # terms.tsize
     IN  Returns(IF mismatch THEN "failed" ELSE "success", FALSE)
  /\ UNCHANGED <<fixedVars, callVars, fileVars, is_retry, exit>>

\* The retries of the client run out in the middle.
TransferTimesOut ==
  /\ pc = "transfer" /\ rcvtimeo # 0
  /\ delivered' \in {delivered, delivered + 1}
  /\ Returns("failed", FALSE)
  /\ UNCHANGED <<fixedVars, callVars, fileVars, is_retry, exit>>

\* An ERROR of the session, or a local failure.
TransferAborts ==
  /\ pc = "transfer"
  /\ delivered' \in {delivered, delivered + 1}
  /\ Returns("failed", FALSE)
  /\ UNCHANGED <<fixedVars, callVars, fileVars, is_retry, exit>>

\* Mutant: what the call left is kept.
Cleanup_forgotten(content) == content

\* fail2: the output is removed only if this call created it.
Cleanup(content) == IF existed THEN content ELSE "absent"

\* The temporary file in the output, if nothing fails.
copy_file_contents == IF delivered = Total THEN "complete" ELSE "part"

\* get copies the temporary file, or gives its output up.  OpenFails has no output to
\* give up.
Finishes ==
  /\ pc = "returned" /\ response # "none" /\ exit = "none"
  /\ \/ /\ command # "get" \/ io_failed
        /\ UNCHANGED <<output, response, unsupported>>
     \/ /\ command = "get" /\ ~io_failed /\ response = "success"
        /\ output' = copy_file_contents
        /\ UNCHANGED <<response, unsupported>>
     \/ /\ command = "get" /\ ~io_failed /\ response = "success"
        /\ output' = Cleanup("part")
        /\ response' = "failed" /\ unsupported' = FALSE
     \/ /\ command = "get" /\ ~io_failed /\ response = "failed"
        /\ output' = Cleanup(output)
        /\ UNCHANGED <<response, unsupported>>
  /\ pc' = "main"
  /\ UNCHANGED <<fixedVars, callVars, is_retry, delivered, existed, io_failed, exit>>

\* The loop of main.  A retry that is suspected to have met a server without options
\* would end the program with success.
MainDecides ==
  /\ pc = "main"
  /\ \/ /\ response = "failed" /\ (command = "list" \/ ~unsupported)
        /\ pc' = "exit" /\ exit' = "failure"
        /\ UNCHANGED is_retry
     \/ /\ response = "success" \/ (is_retry /\ command # "list" /\ unsupported)
        /\ pc' = "exit" /\ exit' = "success"
        /\ UNCHANGED is_retry
     \/ /\ response = "failed" /\ command # "list" /\ unsupported /\ ~is_retry
        /\ is_retry' = TRUE
        /\ pc' = "open" /\ UNCHANGED exit
  /\ UNCHANGED <<fixedVars, callVars, fileVars, delivered, response, unsupported>>

ProgramOver == pc \in {"exit", "crashed"} /\ UNCHANGED programVars

\* recvfrom without a timeout, and nothing will come.
WaitsForEver ==
  /\ pc = "request" /\ rcvtimeo = 0 /\ FirstAnswer = "none"
  /\ UNCHANGED programVars

ProgramNext ==
  \/ OpenFiles \/ OpenFails \/ CallFails \/ Answered \/ Unanswered
  \/ TransferCompletes \/ TransferTimesOut \/ TransferAborts
  \/ Finishes \/ MainDecides \/ ProgramOver \/ WaitsForEver

ProgramSpec == ProgramInit /\ [][ProgramNext]_programVars

\* The program runs and its timeouts pass; answers may be lost.
ProgramFairness ==
  WF_programVars(OpenFiles \/ Unanswered \/ TransferTimesOut \/ Finishes \/ MainDecides)

FairProgramSpec == ProgramSpec /\ ProgramFairness

-----------------------------------------------------------------------------
(* Properties. *)

\* Every variable has its type and every timeout its range.
ProgramTypeOK ==
  /\ [command |-> command, args |-> args] \in Calls /\ server \in Servers
  /\ pc \in {"open", "request", "transfer", "returned", "main", "exit", "crashed"}
  /\ terms \in [block_size: {0} \cup BlockSizes, window_size: Uint16, timeout: Uint8,
                adaptive: BOOLEAN, use_tsize: BOOLEAN, tsize: Nat]
  /\ server_terms \in [block_size: BlockSizes, window_size: WindowSizes,
                       timeout: Timeouts, adaptive: BOOLEAN]
  /\ rcvtimeo \in Uint8
  /\ output \in {"absent", "old", "empty", "part", "complete"}

\* When the transfer begins both ends use the same block size, and in a get the same
\* window and the same kind of timeout, whatever was asked for, switched off at the
\* server, refused or ignored; and a list reads a directory.
TermsAgree ==
  pc = "transfer" =>
    /\ terms.block_size = server_terms.block_size
    /\ ~writing => /\ terms.window_size = server_terms.window_size
                   /\ terms.adaptive = server_terms.adaptive
    /\ command = "list" => reads_directory

\* The exit status is the truth: after success everything has been delivered once, the
\* last call was successful, and the output of a get is complete.
ExitIsHonest ==
  exit = "success" =>
    /\ response = "success" /\ delivered = Total
    /\ command = "get" => output = "complete"

\* A program that fails leaves no output that was not there before, unless the local
\* files themselves failed.
NoDebris ==
  exit = "failure" /\ ~preexisting /\ ~io_failed => output = "absent"

\* The second attempt repeats nothing: no byte was transferred before it, and it
\* finds the files as the first one did.
RetryRepeatsNothing ==
  is_retry /\ pc = "open" =>
    delivered = 0 /\ (output = "absent" <=> ~preexisting)

\* The program ends, except for the second attempt, whose socket has no timeout.
ProgramEnds == <>(pc \in {"exit", "crashed"} \/ (is_retry /\ rcvtimeo = 0))
=============================================================================
