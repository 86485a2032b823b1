-------------------------- MODULE MCClientProgram ---------------------------
EXTENDS ClientProgram

\* No option, each kind of option alone and all of them, within the ranges that the
\* command line accepts and at their ends; the file has more than one block of each.
MCArgs ==
  [timeout: {0, 3}, block_size: {0, 8, 65464}, window_size: {0, 4},
   use_tsize: BOOLEAN, adaptive: BOOLEAN]

MCCalls == [command: {"list", "get", "put"}, args: MCArgs]

MCServers ==
  [kind: {"this"}, list: BOOLEAN, adaptive: BOOLEAN, write: BOOLEAN, timeout: {5},
   file: {"regular", "directory", "missing"}]
  \cup [kind: {"plain", "refusing", "down"}, list: {FALSE}, adaptive: {FALSE},
        write: {TRUE}, timeout: {5}, file: {"regular", "directory"}]
=============================================================================
