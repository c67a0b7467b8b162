\* A poll at least every second tick, windows of three ticks every four, and
\* a record that just outlives the longest gap between two writes of it.
CONSTANTS
  CacheWindow = 1
  CacheWindowWhenEmpty = 3
  ForceScaleUpWindow = 3
  ForceScaleUpFrequency = 4
  MaxDelay = 5
  StateCacheTime = 6
  PollGap = 2
SPECIFICATION Spec
PROPERTIES ScheduleSurvives ForcedAgain ForcingEnds
