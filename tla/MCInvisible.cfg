SPECIFICATION Spec
CONSTANTS
  r1 = r1
  r2 = r2
  gpt = gpt
  shell = shell
  NoModel = NoModel
  NoTenant = NoTenant
  NoUsage = NoUsage
  Requests <- MCRequests
  Models = {gpt}
  Tools = {shell}
  Configs <- MCConfigs
  Costs = {2}
  MaxReloads = 1
SYMMETRY MCSymmetry
INVARIANT NoRequestInvisible
