SPECIFICATION TreeSpec
VIEW View
CONSTANTS
    Server = {"dm", "dm2"}
    Within <- MCWithin
    Target <- MCTarget
    Base <- MCBase
    BaseACL <- StockACL
    Plugins <- MCMemory
    NewACL <- PlainACL
    Value = {"v1", "v2"}
    MaxDepth = 4
INVARIANT ListedIsLetIn
CHECK_DEADLOCK FALSE
