\* Every call of the DESFire half of CardIO against every fault.
CONSTANTS
  app = app
  picc = picc
  k1 = k1
  k2 = k2
  badkey = badkey
  nokey = nokey
  garbled = garbled
  AIDs = {app}
  Picc = picc
  BadKey = badkey
  NoKey = nokey
  Garbled = garbled
  CardKeys <- MCCardKeys
  HostKeyTypes = {"TwoDES"}
  Calls = {"select", "authenticate", "query", "discover", "exec", "setTimeout"}
  Faults = {"error", "garbled", "thrown", "reset"}
  MaxFrames = 2
  Timeouts = {0, 1}
  MaxAge = 1
  Nonces = {1, 2}
  KeyNos = {0, 1}
  Keys = {k1, k2, badkey}
SPECIFICATION FairSpec
INVARIANTS SelectedAppKnown
PROPERTIES OkMeansMutual SessionsPair QueryComplete CallsReturn
