\* A family of repositories for each kind of extractor.
SPECIFICATION ExtractorsSpec
CONSTANTS
    Digits = {"42"}
    LowerCase <- MCLowerCase
    VerbOf <- MCVerbOf
    MaxSubresourceDepth = 1
    FanoutCap = 2
    Repos <- MCRepos
INVARIANTS
    KeysAgree
    ServedIsEmitted
    MethodsAreServed
    ResourcesAreReached
    RoutesAreServed
    CallersAgree
    CallsMeetServices
    NamesMeet
    ChannelsMeet
CHECK_DEADLOCK FALSE
