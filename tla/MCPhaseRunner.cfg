\* The phases of default_phases and short lists of three, with every set of seeds.
SPECIFICATION FairSpec
CONSTANTS
    Names <- DefaultNames
    PhaseLists <- MCLists
INVARIANTS RunIsSound
PROPERTIES OrderSpec Ends
CHECK_DEADLOCK FALSE
