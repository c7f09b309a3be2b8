CONSTANTS
  Configs = {main, dev}
  NoConfig = NoConfig
  Tokens = {w1, w2}
  NoToken = NoToken
  Clients = {c1}
  MaxCalls = 3
  MaxFaults = 1
SPECIFICATION FairSpec
INVARIANTS TypeOK OneLivePreparation OpenGateServesConfig
PROPERTIES ReadyIsPublished PreparationEnds ReadyIsServed
