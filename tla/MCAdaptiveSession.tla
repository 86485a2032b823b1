-------------------------- MODULE MCAdaptiveSession -------------------------
EXTENDS AdaptiveSession

Req(type, mode, options, window) ==
  [valid |-> TRUE, type |-> type, mode |-> mode, file |-> TRUE,
   seekable |-> TRUE, options |-> options, window |-> window]

\* Requests whose file opens.
MCServedRequests ==
  { Req("read", "octet", FALSE, 1), Req("read", "octet", TRUE, 2),
    Req("read", "netascii", TRUE, 2),
    Req("write", "octet", FALSE, 1), Req("write", "octet", TRUE, 2) }
=============================================================================
