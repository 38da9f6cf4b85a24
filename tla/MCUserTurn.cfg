\* Three frames, a transport loss, a recording sent twice, a mute and an unmute or a stop; a
\* turn is cut off by its length when a part of it was repeated by the recording.
SPECIFICATION FairSpec
CONSTANTS
    EndSilence = 1
    MaxTurn = 4
    MaxFrames = 3
    MaxDrops = 1
    MaxControls = 2
    MaxSends = 2
    Preroll = 2
    MinOverlap = 1
    MaxOverlap = 2
    Sounds <- LowVoiceLoudNoise
    KeepQuiet = 1
    None = None
CHECK_DEADLOCK FALSE
PROPERTIES TurnIsWhole StaleInputIsRefused HearingResumes
