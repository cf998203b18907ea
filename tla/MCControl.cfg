CONSTANTS
    Programs <- MCPrograms
    MaxLoopDepth = 5
SPECIFICATION FairSpec
INVARIANTS FollowsProgram EspFollowsText FlagsSurvive OldPaired BlocksCoverCode
PROPERTIES EdgesKnown Returns
