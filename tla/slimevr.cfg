SPECIFICATION FairSpec
CONSTANTS
    Statuses = {1, 3}
    MaxFaults = 2
    MaxPresses = 2
INVARIANTS TypeOK TapsArePresses SilentTrackerGone
PROPERTIES ActiveTrackerShown
