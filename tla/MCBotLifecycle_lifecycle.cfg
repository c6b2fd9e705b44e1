SPECIFICATION LifecycleSpec
VIEW Relevant
CONSTANTS
    k1 = k1  k2 = k2  u1 = u1
    Bots = {k1}
    Users = {u1}
    UserOf <- OneUser
    None = None
    DayLength = 2
    TwoDays = 2
    OneWeek = 2
    TrialEnd = 1
    Modes = {"NORMAL", "MORE_CONSERVATIVE_2D", "STAND_DOWN_1W"}
    RealPnL = TRUE
    SettingsChange = TRUE
    InputSizes = {"half"}
    InputLimits = {"loss"}
    InputFacts = {"breached"}
    MaxTime = 3
INVARIANTS
    LifecycleTypeOK
    ActiveMeansRecovered
    HoldStands
PROPERTIES
    WindowNeverMoves
    OneWeekServed
