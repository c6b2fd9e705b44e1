SPECIFICATION Spec
CONSTANTS
    x1 = x1  x2 = x2  tech = tech  energy = energy
    chips = chips  drones = drones  gone = gone
    small = small  large = large
    None = None
    Symbols = {x1, x2}
    Sectors = {tech, energy}
    Labels = {chips, drones, gone}
    ParentSector <- MCParentSector
    TierB = {drones}
    CapTiers = {small, large}
    Band <- MCBand
    MinCap = 2
    LiquidityTiers = {"LOW", "HIGH"}
    MinVolumeOf <- MCMinVolumeOf
    MinVolume = 1
    Today = 4
    StandDownWindow = 1
    HighShort = 2
    Listing <- MCListing
    VendorFacts <- VendorKnows
    InitialFacts <- Starts
    Limit = 2
    BotSettings <- Bots
    MaxMoves = 1
    MaxFetches = 1
INVARIANTS
    SelectionTypeOK
    StoredIsVendors
    SeenTwiceHasMoved
    ChainMeetsCriteria
    UnreadBucketsUseless
CHECK_DEADLOCK FALSE
