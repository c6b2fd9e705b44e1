------------------------ MODULE MCCandidateSelection -------------------------
(* Instances of CandidateSelection for TLC: two sectors, two adjacent bands, one
   label of each tier and a stale one. *)
EXTENDS CandidateSelection

CONSTANTS x1, x2, tech, energy, chips, drones, gone, small, large

MCListing == <<x1, x2>>
MCParentSector ==
    [l \in Labels |-> CASE l = chips -> tech [] l = drones -> energy [] OTHER -> None]
MCBand == [t \in CapTiers |-> IF t = small THEN [min |-> 0, max |-> 4]
                              ELSE [min |-> 4, max |-> None]]
MCMinVolumeOf == [l \in LiquidityTiers |-> IF l = "HIGH" THEN 2 ELSE 0]

\* A chip maker at the edge between the bands, and what may become of it.
Edge == [sector |-> tech, label |-> chips, cap |-> 4, capShown |-> TRUE, volume |-> 2,
         dividend |-> 1, short |-> 3, earnings |-> 6]
VendorKnows ==
    {Edge,
     [Edge EXCEPT !.cap = 3, !.volume = 1, !.dividend = 0, !.short = 2, !.earnings = 3],
     [Edge EXCEPT !.capShown = FALSE, !.earnings = 5],
     [Edge EXCEPT !.cap = 1, !.volume = 0],
     [Edge EXCEPT !.sector = energy, !.label = None, !.cap = 2, !.dividend = None,
                  !.short = None, !.earnings = None]}
Starts == {f \in [Symbols -> VendorKnows] : f[x2] = Edge}

Anything == [subSectors |-> {}, tiers |-> {small, large}, liquidity |-> "LOW",
             watchlist |-> {}, exclusion |-> {}, dividend |-> "NO_PREFERENCE",
             short |-> "IGNORE", earnings |-> "NEUTRAL"]
Bots ==
    {Anything,
     [Anything EXCEPT !.subSectors = {chips, gone}, !.watchlist = {x2},
                      !.short = "AVOID_HIGH_SHORT_INTEREST"],
     [Anything EXCEPT !.subSectors = {drones}, !.dividend = "EXCLUDE_DIVIDEND"],
     [Anything EXCEPT !.subSectors = {gone}],
     [Anything EXCEPT !.tiers = {small}, !.short = "TARGET_SHORT_SQUEEZE"],
     [Anything EXCEPT !.subSectors = {chips, drones}, !.liquidity = "HIGH",
                      !.watchlist = {x2}, !.earnings = "STAND_DOWN"],
     [Anything EXCEPT !.tiers = {large}, !.exclusion = {x1}, !.watchlist = {x1, x2},
                      !.dividend = "PREFER_DIVIDEND", !.earnings = "MORE_AGGRESSIVE"]}
=============================================================================
