---------------------------- MODULE MCPutTransfer ---------------------------
EXTENDS PutTransfer

Rq(options) ==
  [valid |-> TRUE, type |-> "write", mode |-> "octet", file |-> TRUE,
   seekable |-> TRUE, options |-> options, window |-> 1]

MCWithOptions == { Rq(TRUE) }
MCBoth == { Rq(TRUE), Rq(FALSE) }

MCAllOptions == {"some", "default", "null"}
MCSome == {"some"}

\* An empty file, a last block that is short, one that is empty, and block numbers that
\* wrap.
MCLens == {0, 3, 6, 7}
MCTwoBlocks == {3}
=============================================================================
