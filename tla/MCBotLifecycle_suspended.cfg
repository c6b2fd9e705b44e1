SPECIFICATION LifecycleSpec
CONSTANTS
    k1 = k1  k2 = k2  u1 = u1
    Bots = {k1}
    Users = {u1}
    UserOf <- OneUser
    None = None
    DayLength = 2
    TwoDays = 2
    OneWeek = 4
    TrialEnd = 2
    Modes = {"NORMAL"}
    RealPnL = FALSE
    SettingsChange = FALSE
    InputSizes = {"full"}
    InputLimits = {"loss"}
    InputFacts = {}
    MaxTime = 4
INVARIANT
    SuspendedUserHasNoActiveBot
