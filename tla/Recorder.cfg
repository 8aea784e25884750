SPECIFICATION RecorderFairSpec
CHECK_DEADLOCK FALSE
CONSTANTS
  Recordings <- Pick
  SegmentDuration = 2
  PartDuration = 1
  MaxBasetime = 1
  DeleteAfter = 3
  MaxTime = 5
  MaxFaults = 1
  None = None

  
  
PROPERTIES
  RecordingGoesOn
