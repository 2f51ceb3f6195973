SPECIFICATION FairSpec
CONSTANTS
  MaxFetches = 2
  MaxJobs = 2
  MaxEvents = 1
  MaxLost = 1
  Polls = {q1}
  Scenes = {{"crowd", "loss", "http"}, {"loss", "http", "worker_error", "elsewhere"}, {"retry", "loss", "http"}}
INVARIANTS TypeOK  NothingStranded
PROPERTIES StepsAreSeen 
CHECK_DEADLOCK FALSE
