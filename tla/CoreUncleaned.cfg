CONSTANTS
  good = good
  twin = twin
  mute = mute
  client = client
  snd = snd
  sync = sync
  NoLib = NoLib
  Lib = {good, twin, mute, client}
  Command = {snd, sync}
  Offers <- Offered
  Lacks <- Missing
  Relocks = {client}
  Capacity = 1
SPECIFICATION Spec
INVARIANTS
  EveryInitialisedIsCleaned
CHECK_DEADLOCK FALSE
