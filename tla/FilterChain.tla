----------------------------- MODULE FilterChain ------------------------------
(***************************************************************************)
(* The universe filter chain (src/src/lib/universe-filter-chain.ts): a pure *)
(* function from the cached symbols of the relevant buckets to the          *)
(* candidates of one bot.  Each stage is a test of one entry; RunFilterChain*)
(* applies them in the fixed order.  The asset-type stage lets everything   *)
(* through and is left out.                                                 *)
(*                                                                          *)
(* Abstractions: amounts, dates and percentages are naturals; a missing     *)
(* fact is None; a frame is the tiers and the liquidity it stands for; the  *)
(* order of a bot's labels and tiers is left out.                           *)
(***************************************************************************)
EXTENDS Integers, Sequences, FiniteSets

CONSTANTS
    Symbols,
    Sectors,            \* the parent sectors of ALLOWED_SECTORS
    Labels,             \* sub-sector labels that settings or entries may name
    ParentSector,       \* label -> its sector, or None for a stale label
    TierB,              \* TIER_B_SUB_SECTORS: labels no entry is resolved to
    CapTiers,
    Band,               \* MARKET_CAP_TIER_USD_BANDS: [min, max], max None on top
    MinCap,             \* PLATFORM_LIMITS.minMarketCapUsd
    LiquidityTiers,
    MinVolumeOf,        \* LIQUIDITY_TIER_MIN_ADV_USD
    MinVolume,          \* PLATFORM_LIMITS.minAvgDollarVolumeUsd
    Today,              \* the instant the chain runs at, in days
    StandDownWindow,    \* UNIVERSE_FILTER_EARNINGS_STANDDOWN_WINDOW_DAYS
    HighShort,          \* UNIVERSE_FILTER_SHORT_INTEREST_HIGH_THRESHOLD_PCT
    None                \* an unknown fact

ASSUME ChainAssumption ==
    /\ ParentSector \in [Labels -> Sectors \cup {None}]
    /\ None \notin Sectors
    /\ TierB \subseteq Labels
    /\ Band \in [CapTiers -> [min : Nat, max : Nat \cup {None}]]
    /\ MinCap \in Nat \ {0}
    /\ MinVolumeOf \in [LiquidityTiers -> Nat]
    /\ MinVolume \in Nat
    /\ Today \in Nat
    /\ StandDownWindow \in Nat
    /\ HighShort \in Nat
    /\ None \notin Nat

Known == Nat \cup {None}

\* A symbol of a cached bucket.
Entry == [symbol : Symbols, sector : Sectors, labels : SUBSET Labels,
          cap : Nat, volume : Nat, dividend : Known, short : Known, earnings : Known]

\* The settings of a bot, with the tiers and the liquidity of its frame.
Settings == [subSectors : SUBSET Labels, tiers : SUBSET CapTiers,
             liquidity : LiquidityTiers,
             watchlist : SUBSET Symbols, exclusion : SUBSET Symbols,
             dividend : {"NO_PREFERENCE", "PREFER_DIVIDEND", "EXCLUDE_DIVIDEND"},
             short : {"IGNORE", "AVOID_HIGH_SHORT_INTEREST", "TARGET_SHORT_SQUEEZE"},
             earnings : {"STAND_DOWN", "NEUTRAL", "MORE_AGGRESSIVE"}]

-----------------------------------------------------------------------------
(* The buckets a bot needs *)

\* Mutant: a Tier B label resolves to no sector.
RelevantSectorsTierA(s) ==
    IF s.subSectors = {} THEN Sectors
    ELSE {ParentSector[l] : l \in s.subSectors \ TierB} \ {None}

\* resolveRelevantParentSectors: no labels means no restriction, stale labels
\* are skipped.
RelevantSectors(s) ==
    IF s.subSectors = {} THEN Sectors
    ELSE {ParentSector[l] : l \in s.subSectors} \ {None}

Bucket == Sectors \X CapTiers
RelevantBuckets(s) == RelevantSectors(s) \X s.tiers

-----------------------------------------------------------------------------
(* The stages *)

\* A Tier B label lets its whole sector through, a Tier A label its entries.
PassesSector(e, s) ==
    \/ s.subSectors = {}
    \/ \E l \in s.subSectors \cap TierB : ParentSector[l] = e.sector
    \/ \E l \in s.subSectors \ TierB : l \in e.labels

\* Mutant: bands closed at the top.
InBandClosed(cap, t) ==
    cap >= Band[t].min /\ (Band[t].max # None => cap <= Band[t].max)

\* A band is half open.
InBand(cap, t) ==
    cap >= Band[t].min /\ (Band[t].max # None => cap < Band[t].max)

PassesMarketCap(e, s) == e.cap >= MinCap /\ \E t \in s.tiers : InBand(e.cap, t)

\* The frame's minimum never undercuts the platform's.
PassesLiquidity(e, s) == e.volume >= MinVolumeOf[s.liquidity] /\ e.volume >= MinVolume

\* An unknown date is no reason to exclude; a date in the past is.
PassesEarnings(e, s) ==
    s.earnings = "STAND_DOWN" =>
        e.earnings = None \/ e.earnings > Today + StandDownWindow

\* PREFER needs a yield, EXCLUDE takes a yield of zero for none.
PassesDividend(e, s) ==
    CASE s.dividend = "PREFER_DIVIDEND" -> e.dividend \notin {None, 0}
      [] s.dividend = "EXCLUDE_DIVIDEND" -> e.dividend \in {None, 0}
      [] s.dividend = "NO_PREFERENCE" -> TRUE

PassesExclusion(e, s) == e.symbol \notin s.exclusion

\* Mutant: an unknown short interest is in nobody's favour.
PassesShortInterestKnown(e, s) ==
    CASE s.short = "IGNORE" -> TRUE
      [] s.short = "AVOID_HIGH_SHORT_INTEREST" -> e.short # None /\ e.short <= HighShort
      [] s.short = "TARGET_SHORT_SQUEEZE" -> e.short # None /\ e.short > HighShort

\* AVOID keeps the unknown, TARGET wants evidence.
PassesShortInterest(e, s) ==
    CASE s.short = "IGNORE" -> TRUE
      [] s.short = "AVOID_HIGH_SHORT_INTEREST" -> e.short = None \/ e.short <= HighShort
      [] s.short = "TARGET_SHORT_SQUEEZE" -> e.short # None /\ e.short > HighShort

\* What the watchlist stage gets to reorder.
BeforeWatchlist(e, s) ==
    /\ PassesSector(e, s)
    /\ PassesMarketCap(e, s)
    /\ PassesLiquidity(e, s)
    /\ PassesEarnings(e, s)
    /\ PassesDividend(e, s)
    /\ PassesExclusion(e, s)

-----------------------------------------------------------------------------
(* The chain.  A stage keeps the elements at some positions, in their order *)

\* The n-th of a set of positions, in ascending order.
NthOf(positions, n) ==
    CHOOSE i \in positions : Cardinality({j \in positions : j <= i}) = n

\* What Array.filter leaves of a sequence.
Kept(seq, positions) == [n \in 1..Cardinality(positions) |-> seq[NthOf(positions, n)]]

\* Watchlisted candidates first, otherwise in the order they came.
PrioritizeWatchlist(candidates, s) ==
    LET ahead == {i \in DOMAIN candidates : candidates[i].symbol \in s.watchlist}
    IN Kept(candidates, ahead) \o Kept(candidates, DOMAIN candidates \ ahead)

RunFilterChain(candidates, s) ==
    LET kept == Kept(candidates, {i \in DOMAIN candidates : BeforeWatchlist(candidates[i], s)})
        ordered == PrioritizeWatchlist(kept, s)
    IN Kept(ordered, {i \in DOMAIN ordered : PassesShortInterest(ordered[i], s)})
=============================================================================
