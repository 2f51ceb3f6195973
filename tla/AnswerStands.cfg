SPECIFICATION FairSpec
CONSTANTS
  MaxFetches = 2
  MaxJobs = 2
  MaxEvents = 1
  MaxLost = 1
  Polls = {q1}
  Scenes = {{}}
PROPERTIES AnswerStands
CHECK_DEADLOCK FALSE
