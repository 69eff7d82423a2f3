SPECIFICATION Spec
CONSTANTS
  LF = LF
  CR = CR
  Other = Other
  Unreadable = Unreadable
  NoTotal = NoTotal
  search = search
  shell = shell
  Payloads <- MCPayloads
  Upstreams <- MCUpstreams
  Tools = {search, shell}
  Blocked = {shell}
  MaxTokens = 4
INVARIANT LedgerCorrected
