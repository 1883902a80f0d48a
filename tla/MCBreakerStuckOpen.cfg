CONSTANTS
  Callers = {h1, h2}
  MaxFailures = 4
SPECIFICATION FairSpec
PROPERTY OpenRecovers
CHECK_DEADLOCK FALSE
