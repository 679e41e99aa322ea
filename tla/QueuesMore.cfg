SPECIFICATION QueuesSpec
CONSTANTS
  e1 = e1
  w1 = w1
  w2 = w2
  None = None
  Event = {e1}
  Boat = {e1}
  Stray = {}
  Malformed = {}
  Mismatched = {}
  Copy = {1, 2}
  Worker = {w1, w2}
  MaxPublishAttempts = 2
  MaxDeliver = 2
  MaxFaults = 1
  MaxAged = 0
  GigaEvents = {e1}
  Kinds = {ka, kb}
  GigaWorkers = {w1, w2}
  NoWorker = noworker
  MaxAttempts = 2
  MaxReplays = 1
INVARIANTS OneOpenAttempt CandidateKeepsEvent GigaTypeOK
