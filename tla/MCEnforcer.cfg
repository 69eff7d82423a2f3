SPECIFICATION FairSpec
CONSTANTS
  s1 = s1
  s2 = s2
  shell = shell
  search = search
  NoTotal = NoTotal
  Streams <- MCStreams
  Events <- MCEvents
  Tools = {shell, search}
  Blocked = {shell}
  MaxTokens = 4
  MaxEvents <- MCMaxEvents
INVARIANTS TypeOK ExactlyOneEvent ForwardedInOrder GrantedWithinLimit ChargedCoversRecorded BlockedToolsStopped
PROPERTIES KeepsContract EventuallyReported 
