CONSTANTS
  Calls <- MCCalls
  Servers <- MCServers
  FileSize = 100000
  ListSize = 20
SPECIFICATION FairProgramSpec
INVARIANTS
  ProgramTypeOK
  TermsAgree
  ExitIsHonest
  NoDebris
  RetryRepeatsNothing
PROPERTY
  ProgramEnds
