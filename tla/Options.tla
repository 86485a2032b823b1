------------------------------- MODULE Options ------------------------------
(***************************************************************************)
(* The option negotiation: what the client asks for, what the server takes *)
(* up and acknowledges, and what the client makes of the OACK.             *)
(*                                                                         *)
(* A list of options is a function from the recognised names to values; a  *)
(* value that is a number is that number, since both sides print and parse *)
(* decimal numbers within the ranges below.  The terms of one side are its *)
(* block_size, window_size, timeout, use of the adaptive timeout and, for  *)
(* the client, the announced size and whether it will be compared.         *)
(***************************************************************************)
EXTENDS Integers

Option == {"blksize", "timeout", "tsize", "windowsize", "read_type"}

Absent == -1
Adaptive == -2        \* the value "adaptive" of the option timeout
Directory == -3       \* the value "directory" of the option read_type

NoOptions == [o \in Option |-> Absent]
Active(options) == { o \in Option : options[o] # Absent }

MinBlockSize == 8
MaxBlockSize == 65464
DefaultBlockSize == 512
ClientTimeout == 2    \* default_timeout_s

\* The values of a uint8_t and of a uint16_t, and those of the options.
Uint8 == 0 .. 255
Uint16 == 0 .. 65535
BlockSizes == MinBlockSize .. MaxBlockSize
WindowSizes == Uint16 \ {0}
Timeouts == Uint8 \ {0}

-----------------------------------------------------------------------------
(* The client, before the request.  In args 0 stands for an option that was *)
(* not given.                                                                *)

ClientArgs == [timeout: Uint8, block_size: Uint16, window_size: Uint16,
               use_tsize: BOOLEAN, adaptive: BOOLEAN]

requested(args, command) ==
  [blksize |-> IF args.block_size \in BlockSizes THEN args.block_size ELSE Absent,
   timeout |-> CASE args.adaptive /\ command # "put" -> Adaptive
                 [] args.timeout # 0 /\ ~(args.adaptive /\ command # "put") -> args.timeout
                 [] OTHER -> Absent,
   tsize |-> IF args.use_tsize THEN 0 ELSE Absent,
   windowsize |-> IF args.window_size # 0 /\ command # "put" THEN args.window_size
                                                             ELSE Absent,
   read_type |-> IF command = "list" THEN Directory ELSE Absent]

\* Mutant: no default for the timeout.
options_init_untimed(args, command) ==
  LET r == requested(args, command)
  IN  [block_size |-> IF r.blksize # Absent THEN r.blksize ELSE DefaultBlockSize,
       window_size |-> IF r.windowsize # Absent THEN r.windowsize ELSE 1,
       timeout |-> args.timeout,
       adaptive |-> args.adaptive, use_tsize |-> args.use_tsize, tsize |-> 0]

options_init(args, command) ==
  LET r == requested(args, command)
  IN  [block_size |-> IF r.blksize # Absent THEN r.blksize ELSE DefaultBlockSize,
       window_size |-> IF r.windowsize # Absent THEN r.windowsize ELSE 1,
       timeout |-> IF args.timeout # 0 THEN args.timeout ELSE ClientTimeout,
       adaptive |-> args.adaptive, use_tsize |-> args.use_tsize, tsize |-> 0]

\* options_init is given no options: the structure stays zero.
no_options_init ==
  [block_size |-> 0, window_size |-> 0, timeout |-> 0, adaptive |-> FALSE,
   use_tsize |-> FALSE, tsize |-> 0]

-----------------------------------------------------------------------------
(* The server. *)

\* tftp_parse_options keeps the values it understands.
ValidValues == [blksize |-> BlockSizes, timeout |-> Timeouts, tsize |-> Nat,
                windowsize |-> WindowSizes, read_type |-> {Directory}]

tftp_parse_options(options) ==
  [o \in Option |-> IF options[o] \in ValidValues[o] THEN options[o] ELSE Absent]

\* What the server recognises in the request.
recognized_options(options, server) ==
  [tftp_parse_options(options) EXCEPT
     !.read_type = IF server.list THEN @ ELSE Absent,
     !.timeout = IF server.adaptive /\ options.timeout = Adaptive THEN Adaptive ELSE @]

\* The options in the OACK.  Only a regular file has a size to announce; size is
\* Absent for any other.
acked_options(options, server, size) ==
  [recognized_options(options, server) EXCEPT
     !.tsize = IF @ # Absent THEN size ELSE Absent]

\* Mutant: the server acknowledges a block size and keeps its own.
parse_options_deaf(options, server) ==
  LET r == recognized_options(options, server)
  IN  [block_size |-> DefaultBlockSize,
       window_size |-> IF r.windowsize # Absent THEN r.windowsize ELSE 1,
       timeout |-> IF r.timeout \in Timeouts THEN r.timeout ELSE server.timeout,
       adaptive |-> r.timeout = Adaptive]

parse_options(options, server) ==
  LET r == recognized_options(options, server)
  IN  [block_size |-> IF r.blksize # Absent THEN r.blksize ELSE DefaultBlockSize,
       window_size |-> IF r.windowsize # Absent THEN r.windowsize ELSE 1,
       timeout |-> IF r.timeout \in Timeouts THEN r.timeout ELSE server.timeout,
       adaptive |-> r.timeout = Adaptive]

-----------------------------------------------------------------------------
(* The client, after the answer. *)

\* The list of the OACK as the client reads it.  "adaptive" is understood only by a
\* get that asked for it.
oack_options(acked, terms, command) ==
  [tftp_parse_options(acked) EXCEPT
     !.timeout = IF terms.adaptive /\ command # "put" /\ acked.timeout = Adaptive
                 THEN Adaptive ELSE @]

UnrequestedOptions(acked, terms, command, asked) ==
  ~(Active(oack_options(acked, terms, command)) \subseteq Active(asked))

\* Mutant: "adaptive" is read as a number of seconds.
handle_oack_packet_misread(acked, terms, command) ==
  LET a == oack_options(acked, terms, command)
  IN  [terms EXCEPT !.timeout = IF a.timeout # Absent THEN a.timeout ELSE @]

\* What is not acknowledged stays as it was asked for, but for the adaptive timeout.
handle_oack_packet(acked, terms, command) ==
  LET a == oack_options(acked, terms, command)
      adaptive == terms.adaptive /\ (command = "put" \/ a.timeout = Adaptive)
  IN  [terms EXCEPT
         !.block_size = IF a.blksize # Absent THEN a.blksize ELSE @,
         !.window_size = IF a.windowsize # Absent THEN a.windowsize ELSE @,
         !.adaptive = adaptive,
         !.timeout = IF a.timeout # Absent /\ ~adaptive THEN a.timeout ELSE @,
         !.tsize = IF a.tsize # Absent THEN a.tsize ELSE @]

\* The first packet is DATA: the options were ignored.
options_after_data(terms) ==
  [terms EXCEPT !.window_size = 1, !.block_size = DefaultBlockSize,
                !.timeout = ClientTimeout, !.adaptive = FALSE, !.use_tsize = FALSE]

\* The answer to a put is an ACK: the options it asked for were ignored.
options_after_ack(terms, use) ==
  IF use THEN [terms EXCEPT !.block_size = DefaultBlockSize,
                            !.timeout = ClientTimeout, !.use_tsize = FALSE]
         ELSE terms
=============================================================================
