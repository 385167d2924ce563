SPECIFICATION SyncSpec
CONSTANTS
  Machine = {pc, mac}
  Winpc = pc
  Mac = mac
  Relay = relay
  Candidates <- MCCandidates
  File = {f, g}
  Clash = {f}
  Attempts = 2
  MaxEdit = 2
 
PROPERTIES OkIsCarried
