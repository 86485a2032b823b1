---------------------------- MODULE MCGetTransfer ---------------------------
EXTENDS GetTransfer

Rq(options, window) ==
  [valid |-> TRUE, type |-> "read", mode |-> "octet", file |-> TRUE,
   seekable |-> TRUE, options |-> options, window |-> window]

MCPlain == { Rq(FALSE, 1) }
MCWindow2 == { Rq(TRUE, 2) }
MCBoth == MCPlain \cup MCWindow2

\* What a client of this repository is given: nothing, as in a second attempt; options
\* that ask for nothing; those of a get; and those of a list that asks for the size too.
MCNull == [use |-> FALSE, list |-> FALSE, tsize |-> FALSE, timed |-> FALSE]
MCDefault == [MCNull EXCEPT !.timed = TRUE]
MCWindow == [MCDefault EXCEPT !.use = TRUE]
MCGetOptions == { MCNull, MCDefault, [MCWindow EXCEPT !.tsize = TRUE] }
MCListOptions == { MCNull, MCDefault, [MCWindow EXCEPT !.list = TRUE, !.tsize = TRUE] }
MCWindowOptions == { MCWindow }
=============================================================================
