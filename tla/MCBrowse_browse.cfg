SPECIFICATION ScreensSpec
CONSTANTS
    Absent = Absent
    AccessKeys <- Keys
    Versions <- Supported
    Nota = {1, 2, 3}
    Before = {1, 2}
    Xml <- Documents
    SortKeys = {"valorTotal"}
    Statuses = {"", "ativa"}
    Filtros <- Maximum
    Texts = {0, 2}
    Buscas = {"", "A"}
    PageSize = 1
    OtherSize = 2
    MaxTurns = 5
    Depths = {1, 2}
    Entered <- Stored
    MaxLoads = 3
    MaxAtOnce = 2
    Tipos = {"importada", "consultada"}
    Instants = {1, 2, 3, 4, 5}
    Recorded <- Start
    MaxEvents = 3
    FeedSizes = {1, 2}
    FeedSize = 1
    MaxFeedTurns = 3
INVARIANTS
    WalkSkipsNothing
    FeedSkipsNothing
    RankingShowsEveryMatch
    DrawingIsWhole
CHECK_DEADLOCK FALSE
