SPECIFICATION Spec
CONSTANTS
    MaxAttempts = 2
    Favorable = {a1}
    a1 = a1
    ToastTypes = {success, error}
    success = success
    error = error
    MaxNotifications = 2
    MaxToasts = 3
    Paths <- PathsUsed
    Commands <- CommandsUsed
    Queries <- AgreeingQueries
    EmptyQuery <- NoQuery
    MaxAsked = 2
    i1 = i1
    Ids = {i1}
    NoId = NoId
    MaxCalls = 2
    p1 = p1
    Participants = {p1}
    txt = txt
    Texts = {txt}
    c1 = c1
    ChatCaps = {c1}
    SentLimit = 2
    MaxTasks = 2
    MaxFeed = 4
INVARIANTS ConsoleTypeOK
    ConsoleIsSignedIn CopiesAgree HistoryIsLatest
    KillAllOnce NoticesAreTrue
PROPERTIES LastAttemptWins OpenListCatchesUp
