SPECIFICATION FairSpec
CONSTANTS
    s1 = s1
    s2 = s2
    Sources <- MCSources
    CiaSources <- MCCiaSources
    Saved <- MCSaved
INVARIANTS NoSpuriousIrq NmiOpens
PROPERTIES ResetTaken
