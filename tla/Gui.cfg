CONSTANTS
    NoNumber <- MCNoNumber
    Empty <- MCEmpty
    NoKey = ""
    GLJob = TRUE
    KeyOrder <- MCKeyOrder
    Elements <- MCElements
    Offers <- MCOffers
    Operated <- MCOperated
    Values <- MCValues
    Ranges <- MCRanges
    OptionSets <- MCOptionSets
    MaxActs = 3
SPECIFICATION Spec
INVARIANTS
    AcceptedIsBuildable
    DeskSettles
    SidesAgree
CHECK_DEADLOCK FALSE
