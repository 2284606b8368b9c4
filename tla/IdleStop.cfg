CONSTANTS
  Jobs = {j1}
  Limits = {2, 3}
  Grace = 2
  SessionCap = 7
  BootTime = 2
  RequestTime = 1
  ProbeTime = 2
  StopWait = 2
  Top = 6
SPECIFICATION FairSpec
INVARIANTS
  TypeOK
  EndsByItself

  
  
  
  
