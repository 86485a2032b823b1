--------------------------- MODULE MCServerSession --------------------------
EXTENDS ServerSession

Req(type, mode, options, window) ==
  [valid |-> TRUE, type |-> type, mode |-> mode, file |-> TRUE,
   seekable |-> TRUE, options |-> options, window |-> window]

\* Requests whose file opens.
MCReadRequests ==
  { Req("read", "octet", FALSE, 1), Req("read", "octet", TRUE, 2),
    [Req("read", "octet", TRUE, 2) EXCEPT !.seekable = FALSE],
    Req("read", "netascii", TRUE, 2) }

MCWriteRequests == { Req("write", "octet", FALSE, 1), Req("write", "octet", TRUE, 2) }

\* Requests that cannot be served.
MCBadRequests ==
  { [Req("read", "octet", TRUE, 2) EXCEPT !.valid = FALSE] }
  \cup { [Req(t, m, FALSE, 1) EXCEPT !.file = FALSE] :
           t \in {"read", "write"}, m \in {"octet", "netascii"} }
  \cup { Req(t, "invalid", FALSE, 1) : t \in {"read", "write"} }

\* A window that does not divide the number of block numbers.
MCUnevenRequests == { Req("read", "octet", TRUE, 3) }

MCAllRequests == MCReadRequests \cup MCWriteRequests \cup MCBadRequests
                 \cup MCUnevenRequests
=============================================================================
