---------------------------- MODULE OptionsProofs ---------------------------
(***************************************************************************)
(* What the negotiation makes of each option, for every list of options,   *)
(* every server and every command line.                                    *)
(***************************************************************************)
EXTENDS Options, TLAPS

-----------------------------------------------------------------------------
(* Values. *)

\* The values that stand for no number are no values of the numeric options.
LEMMA NamesAreNoNumbers ==
  /\ Absent # Adaptive /\ Absent # Directory
  /\ Absent \notin BlockSizes /\ Absent \notin Timeouts /\ Absent \notin WindowSizes
  /\ Adaptive \notin Timeouts
  BY DEF Absent, Adaptive, Directory, BlockSizes, MinBlockSize, Timeouts, WindowSizes, Uint8,
     Uint16

\* The defaults are in the ranges of the options.
LEMMA DefaultsInRange ==
  DefaultBlockSize \in BlockSizes /\ 1 \in WindowSizes /\ ClientTimeout \in Timeouts
  <1>1. /\ MinBlockSize <= DefaultBlockSize /\ DefaultBlockSize <= MaxBlockSize
        /\ MinBlockSize \in Int /\ MaxBlockSize \in Int /\ DefaultBlockSize \in Int
    BY DEF MinBlockSize, MaxBlockSize, DefaultBlockSize
  <1>2. DefaultBlockSize \in BlockSizes
    BY <1>1 DEF BlockSizes
  <1> QED
    BY <1>2 DEF WindowSizes, Uint16, ClientTimeout, Timeouts, Uint8

-----------------------------------------------------------------------------
(* The server. *)

\* tftp_parse_options looks at each option on its own.
LEMMA ParsedOptions ==
  ASSUME NEW options
  PROVE  LET p == tftp_parse_options(options)
         IN  /\ p = [o \in Option |-> p[o]]
             /\ p.blksize = IF options.blksize \in BlockSizes THEN options.blksize ELSE Absent
             /\ p.timeout = IF options.timeout \in Timeouts THEN options.timeout ELSE Absent
             /\ p.tsize = IF options.tsize \in Nat THEN options.tsize ELSE Absent
             /\ p.windowsize = IF options.windowsize \in WindowSizes
                               THEN options.windowsize ELSE Absent
             /\ p.read_type = IF options.read_type = Directory THEN Directory ELSE Absent
  <1>1. /\ ValidValues["blksize"] = BlockSizes
        /\ ValidValues["timeout"] = Timeouts
        /\ ValidValues["tsize"] = Nat
        /\ ValidValues["windowsize"] = WindowSizes
        /\ ValidValues["read_type"] = {Directory}
    BY DEF ValidValues
  <1> QED
    BY <1>1 DEF tftp_parse_options, Option

\* The server takes up what it can parse, a directory only with lists enabled and the
\* adaptive timeout only if it has one.
LEMMA RecognizedOptions ==
  ASSUME NEW options, NEW server
  PROVE  LET r == recognized_options(options, server)
         IN  /\ r = [o \in Option |-> r[o]]
             /\ r.blksize = IF options.blksize \in BlockSizes THEN options.blksize ELSE Absent
             /\ r.timeout = IF server.adaptive /\ options.timeout = Adaptive THEN Adaptive
                            ELSE IF options.timeout \in Timeouts THEN options.timeout
                            ELSE Absent
             /\ r.tsize = IF options.tsize \in Nat THEN options.tsize ELSE Absent
             /\ r.windowsize = IF options.windowsize \in WindowSizes
                               THEN options.windowsize ELSE Absent
             /\ r.read_type = IF server.list /\ options.read_type = Directory
                              THEN Directory ELSE Absent
  <1> DEFINE p == tftp_parse_options(options)
  <1>1. recognized_options(options, server) =
          [p EXCEPT !.read_type = IF server.list THEN @ ELSE Absent,
                    !.timeout = IF server.adaptive /\ options.timeout = Adaptive
                                THEN Adaptive ELSE @]
    BY DEF recognized_options
  <1>2. /\ p = [o \in Option |-> p[o]]
        /\ p.blksize = IF options.blksize \in BlockSizes THEN options.blksize ELSE Absent
        /\ p.timeout = IF options.timeout \in Timeouts THEN options.timeout ELSE Absent
        /\ p.tsize = IF options.tsize \in Nat THEN options.tsize ELSE Absent
        /\ p.windowsize = IF options.windowsize \in WindowSizes
                          THEN options.windowsize ELSE Absent
        /\ p.read_type = IF options.read_type = Directory THEN Directory ELSE Absent
    BY ParsedOptions
  <1> HIDE DEF p
  <1> QED
    BY <1>1, <1>2 DEF Option

\* Without options there is nothing to recognise.
LEMMA NothingRecognized ==
  ASSUME NEW server
  PROVE  /\ Active(recognized_options(NoOptions, server)) = {}
         /\ Active(NoOptions) = {}
         /\ recognized_options(NoOptions, server).read_type = Absent
  <1>1. /\ NoOptions.blksize = Absent /\ NoOptions.timeout = Absent
        /\ NoOptions.tsize = Absent /\ NoOptions.windowsize = Absent
        /\ NoOptions.read_type = Absent
    BY DEF NoOptions, Option
  <1>2. Absent \notin Nat
    BY DEF Absent
  <1> DEFINE r == recognized_options(NoOptions, server)
  <1>3. \A o \in Option : r[o] = Absent
    BY <1>1, <1>2, NamesAreNoNumbers, RecognizedOptions DEF Option
  <1> QED
    BY <1>3 DEF Active, NoOptions, Option

\* The terms of a session are within the ranges of the options.
LEMMA SessionTerms ==
  ASSUME NEW options, NEW server, server.timeout \in Timeouts
  PROVE  parse_options(options, server) \in
           [block_size: BlockSizes, window_size: WindowSizes, timeout: Timeouts,
            adaptive: BOOLEAN]
  <1> DEFINE r == recognized_options(options, server)
  <1>1. /\ r.blksize # Absent => r.blksize \in BlockSizes
        /\ r.windowsize # Absent => r.windowsize \in WindowSizes
    BY RecognizedOptions
  <1> HIDE DEF r
  <1> QED
    BY <1>1, DefaultsInRange DEF parse_options, r

\* A session that got no options keeps to the defaults.
LEMMA DefaultTerms ==
  ASSUME NEW server
  PROVE  LET t == parse_options(NoOptions, server)
         IN  t.block_size = DefaultBlockSize /\ t.window_size = 1 /\ ~t.adaptive
  <1> DEFINE r == recognized_options(NoOptions, server)
  <1>1. \A o \in Option : r[o] = Absent
    BY NothingRecognized DEF Active
  <1>2. r.blksize = Absent /\ r.windowsize = Absent /\ r.timeout = Absent
    BY <1>1 DEF Option
  <1> HIDE DEF r
  <1> QED
    BY <1>2, NamesAreNoNumbers DEF parse_options, r

-----------------------------------------------------------------------------
(* The client. *)

\* What the client asks for is in the ranges of the options.
LEMMA RequestedOptions ==
  ASSUME NEW args \in ClientArgs, NEW command
  PROVE  LET q == requested(args, command)
         IN  /\ q.blksize \in BlockSizes \cup {Absent}
             /\ q.timeout \in Timeouts \cup {Absent, Adaptive}
             /\ q.timeout = Adaptive <=> args.adaptive /\ command # "put"
             /\ q.tsize \in {0, Absent}
             /\ q.windowsize \in WindowSizes \cup {Absent}
             /\ q.read_type = IF command = "list" THEN Directory ELSE Absent
  BY NamesAreNoNumbers DEF requested, ClientArgs, Timeouts, WindowSizes

\* The structure of the client begins with what it asks for, or the defaults.
LEMMA InitialTerms ==
  ASSUME NEW args \in ClientArgs, NEW command
  PROVE  LET q == requested(args, command)
             t == options_init(args, command)
         IN  /\ t \in [block_size: BlockSizes, window_size: WindowSizes, timeout: Timeouts,
                       adaptive: BOOLEAN, use_tsize: BOOLEAN, tsize: Nat]
             /\ t.block_size = IF q.blksize # Absent THEN q.blksize ELSE DefaultBlockSize
             /\ t.window_size = IF q.windowsize # Absent THEN q.windowsize ELSE 1
             /\ t.adaptive = args.adaptive
  <1> DEFINE q == requested(args, command)
  <1>1. q.blksize \in BlockSizes \cup {Absent} /\ q.windowsize \in WindowSizes \cup {Absent}
    BY RequestedOptions
  <1>2. /\ args.adaptive \in BOOLEAN /\ args.use_tsize \in BOOLEAN
        /\ (IF args.timeout # 0 THEN args.timeout ELSE ClientTimeout) \in Timeouts
    BY DefaultsInRange DEF ClientArgs, Timeouts
  <1> HIDE DEF q
  <1> QED
    BY <1>1, <1>2, DefaultsInRange DEF options_init, q

\* What the client reads in the OACK of a session.
LEMMA OackOptions ==
  ASSUME NEW options, NEW server, NEW size \in Nat \cup {Absent}, NEW terms, NEW command
  PROVE  LET r == recognized_options(options, server)
             a == oack_options(acked_options(options, server, size), terms, command)
         IN  /\ a.blksize = r.blksize
             /\ a.windowsize = r.windowsize
             /\ a.timeout = IF r.timeout # Adaptive THEN r.timeout
                            ELSE IF terms.adaptive /\ command # "put" THEN Adaptive
                            ELSE Absent
             /\ a.tsize \in Nat \cup {Absent}
             /\ a.read_type = r.read_type
  <1> DEFINE r == recognized_options(options, server)
             k == acked_options(options, server, size)
             p == tftp_parse_options(k)
  <1>1. /\ r = [o \in Option |-> r[o]]
        /\ r.blksize \in BlockSizes \cup {Absent}
        /\ r.timeout \in Timeouts \cup {Adaptive, Absent}
        /\ r.windowsize \in WindowSizes \cup {Absent}
        /\ r.read_type \in {Directory, Absent}
    BY RecognizedOptions
  <1>2. k = [r EXCEPT !.tsize = IF @ # Absent THEN size ELSE Absent]
    BY DEF acked_options
  <1>3. /\ p = [o \in Option |-> p[o]]
        /\ p.blksize = IF k.blksize \in BlockSizes THEN k.blksize ELSE Absent
        /\ p.timeout = IF k.timeout \in Timeouts THEN k.timeout ELSE Absent
        /\ p.tsize = IF k.tsize \in Nat THEN k.tsize ELSE Absent
        /\ p.windowsize = IF k.windowsize \in WindowSizes THEN k.windowsize ELSE Absent
        /\ p.read_type = IF k.read_type = Directory THEN Directory ELSE Absent
    BY ParsedOptions
  <1> HIDE DEF r
  <1>4. /\ k.blksize = r.blksize /\ k.timeout = r.timeout /\ k.windowsize = r.windowsize
        /\ k.read_type = r.read_type
    BY <1>1, <1>2 DEF Option
  <1> HIDE DEF k, p
  <1>5. oack_options(k, terms, command) =
          [p EXCEPT !.timeout = IF terms.adaptive /\ command # "put" /\ k.timeout = Adaptive
                                THEN Adaptive ELSE @]
    BY DEF oack_options, p
  <1>6. LET a == oack_options(k, terms, command)
        IN  /\ a.blksize = p.blksize /\ a.tsize = p.tsize /\ a.windowsize = p.windowsize
            /\ a.read_type = p.read_type
            /\ a.timeout = IF terms.adaptive /\ command # "put" /\ k.timeout = Adaptive
                           THEN Adaptive ELSE p.timeout
    BY <1>3, <1>5 DEF Option
  <1> QED
    BY <1>1, <1>3, <1>4, <1>6, NamesAreNoNumbers DEF r, k

\* When a client that asked for what it was given has taken in the OACK of a session,
\* both ends have the same block size; those of a get have the same window and the same
\* kind of timeout, too.
THEOREM OackAgrees ==
  ASSUME NEW args \in ClientArgs, NEW command, NEW server, NEW size \in Nat \cup {Absent}
  PROVE  LET q == requested(args, command)
             t == options_init(args, command)
             mine == handle_oack_packet(acked_options(q, server, size), t, command)
             theirs == parse_options(q, server)
         IN  /\ mine \in [block_size: BlockSizes, window_size: WindowSizes,
                          timeout: Timeouts, adaptive: BOOLEAN, use_tsize: BOOLEAN,
                          tsize: Nat]
             /\ mine.block_size = theirs.block_size /\ t.block_size = theirs.block_size
             /\ command # "put" => mine.window_size = theirs.window_size
                                   /\ mine.adaptive = theirs.adaptive
  <1> DEFINE q == requested(args, command)
             t == options_init(args, command)
             a == oack_options(acked_options(q, server, size), t, command)
             r == recognized_options(q, server)
             mine == handle_oack_packet(acked_options(q, server, size), t, command)
             theirs == parse_options(q, server)
  <1>1. /\ q.blksize \in BlockSizes \cup {Absent}
        /\ q.timeout \in Timeouts \cup {Absent, Adaptive}
        /\ q.timeout = Adaptive <=> args.adaptive /\ command # "put"
        /\ q.windowsize \in WindowSizes \cup {Absent}
    BY RequestedOptions
  <1>2. /\ t \in [block_size: BlockSizes, window_size: WindowSizes, timeout: Timeouts,
                  adaptive: BOOLEAN, use_tsize: BOOLEAN, tsize: Nat]
        /\ t.block_size = IF q.blksize # Absent THEN q.blksize ELSE DefaultBlockSize
        /\ t.window_size = IF q.windowsize # Absent THEN q.windowsize ELSE 1
        /\ t.adaptive = args.adaptive
    BY InitialTerms
  <1>3. /\ r.blksize = IF q.blksize \in BlockSizes THEN q.blksize ELSE Absent
        /\ r.timeout = IF server.adaptive /\ q.timeout = Adaptive THEN Adaptive
                       ELSE IF q.timeout \in Timeouts THEN q.timeout ELSE Absent
        /\ r.windowsize = IF q.windowsize \in WindowSizes THEN q.windowsize ELSE Absent
    BY RecognizedOptions
  <1>4. /\ a.blksize = r.blksize /\ a.windowsize = r.windowsize
        /\ a.timeout = IF r.timeout # Adaptive THEN r.timeout
                       ELSE IF t.adaptive /\ command # "put" THEN Adaptive ELSE Absent
        /\ a.tsize \in Nat \cup {Absent}
    BY OackOptions
  <1> HIDE DEF q, t, r, a
  <1>5. r.blksize = q.blksize /\ r.windowsize = q.windowsize
    BY <1>1, <1>3
  <1>6. /\ theirs.block_size = IF r.blksize # Absent THEN r.blksize ELSE DefaultBlockSize
        /\ theirs.window_size = IF r.windowsize # Absent THEN r.windowsize ELSE 1
        /\ theirs.adaptive = (r.timeout = Adaptive)
    BY DEF parse_options, r
  <1> DEFINE adaptive == t.adaptive /\ (command = "put" \/ a.timeout = Adaptive)
  <1>7. mine = [t EXCEPT
                  !.block_size = IF a.blksize # Absent THEN a.blksize ELSE @,
                  !.window_size = IF a.windowsize # Absent THEN a.windowsize ELSE @,
                  !.adaptive = adaptive,
                  !.timeout = IF a.timeout # Absent /\ ~adaptive THEN a.timeout ELSE @,
                  !.tsize = IF a.tsize # Absent THEN a.tsize ELSE @]
    BY DEF handle_oack_packet, a
  <1>8. a.timeout # Absent /\ ~adaptive => a.timeout \in Timeouts
    BY <1>1, <1>2, <1>3, <1>4
  <1>9. adaptive \in BOOLEAN /\ (command # "put" => (adaptive <=> r.timeout = Adaptive))
    BY <1>1, <1>2, <1>3, <1>4, NamesAreNoNumbers
  <1> HIDE DEF adaptive, mine, theirs
  <1>10. /\ mine.block_size = IF a.blksize # Absent THEN a.blksize ELSE t.block_size
         /\ mine.window_size = IF a.windowsize # Absent THEN a.windowsize ELSE t.window_size
         /\ mine.adaptive = adaptive
    BY <1>2, <1>7
  <1>11. mine \in [block_size: BlockSizes, window_size: WindowSizes, timeout: Timeouts,
                   adaptive: BOOLEAN, use_tsize: BOOLEAN, tsize: Nat]
    BY <1>1, <1>2, <1>4, <1>5, <1>7, <1>8, <1>9
  <1>12. /\ mine.block_size = theirs.block_size /\ t.block_size = theirs.block_size
         /\ command # "put" => mine.window_size = theirs.window_size
    BY <1>2, <1>4, <1>5, <1>6, <1>10
  <1>13. command # "put" => mine.adaptive = theirs.adaptive
    BY <1>6, <1>9, <1>10
  <1> QED
    BY <1>11, <1>12, <1>13, Zenon DEF mine, theirs, q, t
=============================================================================
