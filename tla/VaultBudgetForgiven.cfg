SPECIFICATION AccountSpec
CONSTANTS
  api = api
  worker = worker
  c1 = c1
  c2 = c2
  Calls = {c1, c2}
  Programs = {api, worker}
  Homes <- BothHomes
  Maintainers = {api}
  NoProgram = NoProgram
  NoCall = NoCall
  Estimate = 2
  Costs <- MCCosts
  MaxCrashes <- MCCrashes
INVARIANT
  NoneForgiven
