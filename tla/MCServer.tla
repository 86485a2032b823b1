------------------------------ MODULE MCServer ------------------------------
EXTENDS Server

\* One worker with two slots, which loses none.
MCSlots ==
  { [workers |-> 1, jobs |-> 2, requests |-> 3, events |-> 2,
     metrics |-> FALSE, bad_requests |-> FALSE, faults |-> FALSE] }

\* Two workers with one slot each, and all that may go wrong.
MCFaulty ==
  { [workers |-> 2, jobs |-> 1, requests |-> 2, events |-> 1,
     metrics |-> TRUE, bad_requests |-> TRUE, faults |-> TRUE] }

MCServers == MCSlots \cup MCFaulty

\* The smallest servers that show the end of the callback and of a worker.
MCMetrics ==
  { [workers |-> 1, jobs |-> 2, requests |-> 1, events |-> 1,
     metrics |-> TRUE, bad_requests |-> FALSE, faults |-> FALSE] }
MCShutdown ==
  { [workers |-> 1, jobs |-> 2, requests |-> 2, events |-> 2,
     metrics |-> FALSE, bad_requests |-> FALSE, faults |-> FALSE] }
=============================================================================
