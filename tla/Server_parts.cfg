SPECIFICATION ServerSpec
CONSTANTS
    Characters = {1, 2, 3}
    MaxGroups = 2
    MaxChanges = 3
    Realms = {1, 2}
    NoRealm = 0
    Unknown = 9
    MaxLogins = 2
    MaxJoins = 2
    MaxConns = 3
    MaxSaves = 4
    MaxCrashes = 2
    Senders = {alice, bob}
    MaxHeld = 2
    MaxWhispers = 3
    MaxEvents = 3
    Members = {alice, bob}
    Starters = {alice, bob}
    MaxChecks = 3
    Corpses = {orc, wolf}
    NoCorpse = none
    Items = {sword, ring}
    MaxRolls = 3
    MaxMaps = 1
    MaxCompleted = 2
    MaxOpens = 2
    MaxRequests = 2
    Names = {alice, bob}
    NoName = none
    MaxLists = 2
    MaxBreaks = 2
    Nodes = {1, 2, 3, 4}
    Graphs <- SomePaths
    Masks <- SomeMasks
    MaxMenus = 2
    MaxSegments = 2
    Carried = {gem}
    Bags = {sack}
    Main = main
    None = nothing
    MainSlots = {0, 19, 38, 74}
    BagSlots = {31}
    Kinds = {"SwapItem", "SwapInvItem", "SplitItem", "WrapItem",
             "AutoEquipItem", "AutoEquipItemSlot", "AutoStoreBagItem",
             "DestroyItem", "OpenItem", "ReadItem", "BuyBackItem"}
INVARIANTS
    TypesOK
    OneOrder
    InitialOrder
    RealmServesJoin
    ProfileSurvives
    WhispersInOrder
    DialogsFollowRolls
    GiftsAsShown
    AnswersMatch
    RouteCheapest
    FlightStartsOnce
    ActsOnNamed
    LandsWhereNamed
    CountFollows
PROPERTIES
    WhispersShown
    CheckEnds
CHECK_DEADLOCK FALSE
