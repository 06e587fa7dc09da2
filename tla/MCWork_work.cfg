SPECIFICATION Spec
CONSTANTS
    a = a
    b = b
    Rows <- RowsUsed
    RowSets <- RowSetsUsed
    Kinds = {"agents", "containers", "history", "traffic"}
    Searches = {"", "a"}
    NoSearch = ""
    Found <- FoundUsed
    Statuses = {"running"}
    OfStatus <- OfStatusUsed
    Favorites = {3}
    Sizes = {1, 2}
    GoodNames = {"a"}
    Listed = {"c"}
    Custom = {"x"}
    MaxSpawns = 2
    Agents = {a, b}
    NoAgent = NoAgent
    MaxWaiting = 2
    MaxEvents = 2
    MaxLog = 2
    MaxDispatches = 3
SYMMETRY Symmetry
INVARIANTS WorkTypeOK
    
    SpawnsAreValid SpawningIsTrue
    WaitsAreTrue LiveIsConnected
    LoggedOnce OneAtATime
