SPECIFICATION ReadsSpec
CONSTANTS
  Nil = Nil
  Request <- Three
  Command <- WriterCommands
  BatchSize = {1, 2, 3}
  Relay = {rl1}
  Fault = {"reject", "read"}
  MaxFaults = 0
  Client = {c1}
  Url <- WriterUrls
INVARIANTS FollowedIsShown MembersSeeTheirThreads ListingsAreCausal 
PROPERTIES ViewsExtend
