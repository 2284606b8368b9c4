\* Two generations, and a panel that ends twice, by a crash or by SIGTERM. The
\* last panel may be left exited: then nothing has to happen any more.
CONSTANTS
  Requests = {r1, r2}
  MaxRestarts = 2
SPECIFICATION FairSpec
INVARIANT TypeOK
INVARIANT JobsCountGenerations
INVARIANT DoneIsSaved
INVARIANT CleanExitSettles
PROPERTY SettledOnce
PROPERTY RunsSettle
PROPERTY ShutdownCompletes
