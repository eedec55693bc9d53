SPECIFICATION TreeSpec
VIEW View
CONSTANTS
    Server = {"dm", "dm2"}
    Within <- MCWithin
    Target <- MCTarget
    Base <- MCBase
    BaseACL <- SharedACL
    Plugins <- MCPlugins
    NewACL <- MCNewACL
    Value = {"v1", "v2"}
    MaxDepth = 4
INVARIANTS TreeTypeOK
PROPERTIES OnlyGranted NoSelfPromotion CreatorMayReplace FailureChangesNothing
CHECK_DEADLOCK FALSE
