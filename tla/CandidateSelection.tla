-------------------------- MODULE CandidateSelection --------------------------
(***************************************************************************)
(* From the vendor to a bot's candidates: fetchBucketSymbols                *)
(* (src/src/lib/bucket-fetch.ts over src/src/lib/eodhd-client.ts) fills one *)
(* bucket, a screener request followed by one fundamentals request per row, *)
(* all in flight together; the gate's union of the relevant buckets goes    *)
(* through the filter chain (scan-bot.worker.ts, steps 4 to 9).  Buckets    *)
(* are fetched and read at different moments, so a symbol's facts may have  *)
(* moved from one to the other.                                             *)
(*                                                                          *)
(* When a bucket may be served and who may refresh it is MarketScan's       *)
(* subject: here any stored bucket may be read, and a missing one ends in   *)
(* SKIPPED.                                                                 *)
(***************************************************************************)
EXTENDS FilterChain, SequencesExt

CONSTANTS
    Listing,        \* the symbols in the order the screener lists them
    VendorFacts,    \* what the vendor may know of a symbol at one time
    InitialFacts,   \* what it may know of every symbol at the start
    Limit,          \* the screener's limit parameter
    BotSettings,    \* settings of the bots that scan
    MaxMoves,       \* bound: changes of the vendor's facts
    MaxFetches      \* bound: fetches per bucket

\* `cap` is what the screener filters by; the figure may be missing from a row.
Facts == [sector : Sectors, label : Labels \cup {None}, cap : Nat, capShown : BOOLEAN,
          volume : Nat, dividend : Known, short : Known, earnings : Known]

\* The vendor's industry of a symbol belongs to the sector it lists it under.
ASSUME VendorAssumption ==
    /\ Listing \in Seq(Symbols)
    /\ VendorFacts \subseteq Facts
    /\ \A f \in VendorFacts :
         f.label # None => f.label \notin TierB /\ ParentSector[f.label] = f.sector
    /\ InitialFacts \subseteq [Symbols -> VendorFacts]
    /\ Limit \in Nat \ {0}
    /\ BotSettings \subseteq Settings
    /\ MaxMoves \in Nat
    /\ MaxFetches \in Nat

VARIABLES
    facts,      \* the vendor: symbol -> Facts
    moves,      \* bound: changes of the facts so far
    fetch,      \* per bucket: the fetch under way
    fetches,    \* bound: per bucket, fetches so far
    stored,     \* the cache: per bucket symbol -> Entry, or None
    scan,       \* the scan: its settings, the buckets it has read, its candidates
    \* History, written by no code.
    moved,      \* the symbols whose facts have changed
    refused     \* the symbols with a request the vendor refused as the client's error

vendorVars == <<facts, moves, moved>>
vars == <<vendorVars, fetch, fetches, stored, scan, refused>>

\* rows: the screener's rows as entries, completed by the fundamentals.
NoFetch == [at |-> "idle", rows |-> << >>, waiting |-> {}]
InFlight(rows, waiting) == [at |-> "fundamentals", rows |-> rows, waiting |-> waiting]

Init ==
    /\ facts \in InitialFacts
    /\ moves = 0
    /\ fetch = [b \in Bucket |-> NoFetch]
    /\ fetches = [b \in Bucket |-> 0]
    /\ stored = [b \in Bucket |-> None]
    /\ scan = [at |-> "idle", settings |-> None, got |-> << >>, candidates |-> <<>>]
    /\ moved = {}
    /\ refused = {}

-----------------------------------------------------------------------------
(* The vendor *)

\* Prices and classifications change: a symbol may leave its band or sector.
MoveFacts ==
    /\ moves < MaxMoves
    /\ moves' = moves + 1
    /\ \E x \in Symbols : \E f \in VendorFacts \ {facts[x]} :
         /\ facts' = [facts EXCEPT ![x] = f]
         /\ moved' = moved \cup {x}
    /\ UNCHANGED <<fetch, fetches, stored, scan, refused>>

\* The symbols the screener's filters match for a bucket.
Matches(b) ==
    {x \in Symbols : facts[x].sector = b[1] /\ InBand(facts[x].cap, b[2])}

\* The first `limit` of them.
Listed(b) ==
    {Listing[i] : i \in {j \in DOMAIN Listing :
        /\ Listing[j] \in Matches(b)
        /\ Cardinality({k \in 1..j : Listing[k] \in Matches(b)}) <= Limit}}

\* Mutant: a missing figure is left out.
RowUnfilled(x) ==
    [symbol |-> x, sector |-> facts[x].sector,
     labels |-> {facts[x].label} \ {None},
     cap |-> IF facts[x].capShown THEN facts[x].cap ELSE None,
     volume |-> facts[x].volume,
     dividend |-> None, short |-> None, earnings |-> None]

\* An entry as the screener's row gives it: a missing figure counts as 0.
Row(x) ==
    [symbol |-> x, sector |-> facts[x].sector,
     labels |-> {facts[x].label} \ {None},
     cap |-> IF facts[x].capShown THEN facts[x].cap ELSE 0,
     volume |-> facts[x].volume,
     dividend |-> None, short |-> None, earnings |-> None]

\* The entry with the fundamentals the vendor knows.
Completed(e, x) ==
    [e EXCEPT !.dividend = facts[x].dividend, !.short = facts[x].short,
              !.earnings = facts[x].earnings]

-----------------------------------------------------------------------------
(* fetchBucketSymbols and writeBucket *)

\* fetchScreenerBucket answers, and every row's fundamentals request goes out.
\* (When it fails instead, the fetch is over and nothing has changed.)
Screen(b) ==
    /\ fetch[b].at = "idle"
    /\ fetches[b] < MaxFetches
    /\ fetches' = [fetches EXCEPT ![b] = @ + 1]
    /\ fetch' = [fetch EXCEPT ![b] = InFlight([x \in Listed(b) |-> Row(x)], Listed(b))]
    /\ UNCHANGED <<vendorVars, stored, scan, refused>>

\* One symbol's fundamentals arrive.
Fundamentals(b, x) ==
    /\ x \in fetch[b].waiting
    /\ fetch' = [fetch EXCEPT ![b] =
                   InFlight([fetch[b].rows EXCEPT ![x] = Completed(@, x)],
                            fetch[b].waiting \ {x})]
    /\ UNCHANGED <<vendorVars, fetches, stored, scan, refused>>

\* client_error, or a body that does not parse: the symbol keeps its row, with
\* nothing known of its fundamentals.
SymbolRefused(b, x) ==
    /\ x \in fetch[b].waiting
    /\ fetch' = [fetch EXCEPT ![b] = InFlight(@.rows, @.waiting \ {x})]
    /\ refused' = refused \cup {x}
    /\ UNCHANGED <<vendorVars, fetches, stored, scan>>

\* Mutant: every failed request is skipped.
VendorDownSkipping(b, x) ==
    /\ x \in fetch[b].waiting
    /\ fetch' = [fetch EXCEPT ![b] = InFlight(@.rows, @.waiting \ {x})]
    /\ UNCHANGED <<vendorVars, fetches, stored, scan, refused>>

\* rate_limit, server_error or network_error on any of them: Promise.all rejects
\* and the whole bucket fails.
VendorDown(b, x) ==
    /\ x \in fetch[b].waiting
    /\ fetch' = [fetch EXCEPT ![b] = NoFetch]
    /\ UNCHANGED <<vendorVars, fetches, stored, scan, refused>>

\* All requests have come back: the caller writes the bucket.
StoreBucket(b) ==
    /\ fetch[b].at = "fundamentals"
    /\ fetch[b].waiting = {}
    /\ stored' = [stored EXCEPT ![b] = fetch[b].rows]
    /\ fetch' = [fetch EXCEPT ![b] = NoFetch]
    /\ UNCHANGED <<vendorVars, fetches, scan, refused>>

-----------------------------------------------------------------------------
(* processScanBot, steps 4 to 9 *)

\* The evaluation of every relevant bucket starts; without one, the gate has
\* nothing to reduce and throws.
StartScan ==
    /\ scan.at = "idle"
    /\ \E s \in BotSettings :
         scan' = [scan EXCEPT
                    !.at = IF RelevantBuckets(s) = {} THEN "threw" ELSE "reading",
                    !.settings = s]
    /\ UNCHANGED <<vendorVars, fetch, fetches, stored, refused>>

Unread == RelevantBuckets(scan.settings) \ DOMAIN scan.got

\* One evaluation gets its bucket; a bucket nobody has stored is skipped, and
\* with it the scan.
ReadBucket(b) ==
    /\ scan.at = "reading"
    /\ b \in Unread
    /\ scan' = IF stored[b] = None THEN [scan EXCEPT !.at = "skipped", !.got = << >>]
               ELSE [scan EXCEPT !.got = [c \in DOMAIN @ \cup {b} |->
                                            IF c = b THEN stored[b] ELSE @[c]]]
    /\ UNCHANGED <<vendorVars, fetch, fetches, stored, refused>>

\* The symbols of all buckets, bucket by bucket, each in the screener's order.
Union(got) ==
    LET Rows(rows) == LET listed == Kept(Listing, {i \in DOMAIN Listing :
                                                     Listing[i] \in DOMAIN rows})
                      IN [i \in DOMAIN listed |-> rows[listed[i]]]
        order == SetToSeq(DOMAIN got)
    IN FlattenSeq([i \in DOMAIN order |-> Rows(got[order[i]])])

\* Every bucket is there: the chain runs.
SelectCandidates ==
    /\ scan.at = "reading"
    /\ Unread = {}
    /\ scan' = [scan EXCEPT !.at = "done",
                            !.candidates = RunFilterChain(Union(scan.got), scan.settings)]
    /\ UNCHANGED <<vendorVars, fetch, fetches, stored, refused>>

BucketStep(b) ==
    \/ Screen(b)
    \/ StoreBucket(b)
    \/ ReadBucket(b)
    \/ \E x \in Symbols : Fundamentals(b, x) \/ SymbolRefused(b, x) \/ VendorDown(b, x)

Next ==
    \/ MoveFacts
    \/ \E b \in Bucket : BucketStep(b)
    \/ StartScan
    \/ SelectCandidates

Spec == Init /\ [][Next]_vars

-----------------------------------------------------------------------------
(* Properties *)

Members(seq) == {seq[i] : i \in DOMAIN seq}

\* Types of the vendor, the fetches, the cache and the scan.
SelectionTypeOK ==
    /\ facts \in [Symbols -> VendorFacts]
    /\ moves \in 0..MaxMoves
    /\ \A b \in Bucket :
         /\ fetch[b].at \in {"idle", "fundamentals"}
         /\ DOMAIN fetch[b].rows \subseteq Symbols
         /\ fetch[b].waiting \subseteq DOMAIN fetch[b].rows
         /\ fetches[b] \in 0..MaxFetches
         /\ stored[b] # None =>
              /\ DOMAIN stored[b] \subseteq Symbols
              /\ Cardinality(DOMAIN stored[b]) <= Limit
              /\ \A x \in DOMAIN stored[b] : stored[b][x] \in Entry
    /\ scan.at \in {"idle", "reading", "done", "skipped", "threw"}
    /\ scan.settings \in BotSettings \cup {None}
    /\ Members(scan.candidates) \subseteq Entry
    /\ moved \subseteq Symbols
    /\ refused \subseteq Symbols

\* A bucket holds a row of every symbol the screener lists, and in the row of one
\* that has not moved what the vendor knows of it: no outage, however it falls between
\* the requests of a bucket, leaves a figure unknown.  Only a refusal of that very
\* symbol does, which costs it its fundamentals and not its place.
StoredIsVendors ==
    \A b \in Bucket : stored[b] # None =>
        /\ moved = {} => DOMAIN stored[b] = Listed(b)
        /\ \A x \in DOMAIN stored[b] \ moved :
             \/ stored[b][x] = Completed(Row(x), x)
             \/ x \in refused /\ stored[b][x] = Row(x)

\* A scan meets a symbol in two buckets only if the vendor's facts of it have changed
\* some time: the bands have no boundary that belongs to two of them.
SeenTwiceHasMoved ==
    \A b, c \in DOMAIN scan.got :
        b # c => DOMAIN scan.got[b] \cap DOMAIN scan.got[c] \subseteq moved

\* Why the platform keeps an entry from a bot.
Reasons(e, s) ==
    {r \in {"sub-sector", "market cap", "liquidity", "earnings", "dividend",
            "excluded", "short interest"} :
       \/ /\ r = "sub-sector"
          /\ s.subSectors # {}
          /\ e.labels \cap s.subSectors = {}
          /\ e.sector \notin {ParentSector[l] : l \in s.subSectors \cap TierB}
       \/ /\ r = "market cap"
          /\ \/ e.cap < MinCap
             \/ \A t \in s.tiers :
                  \/ e.cap < Band[t].min
                  \/ Band[t].max # None /\ e.cap >= Band[t].max
       \/ /\ r = "liquidity"
          /\ e.volume < MinVolumeOf[s.liquidity] \/ e.volume < MinVolume
       \/ /\ r = "earnings"
          /\ s.earnings = "STAND_DOWN"
          /\ e.earnings # None
          /\ e.earnings <= Today + StandDownWindow
       \/ /\ r = "dividend"
          /\ \/ s.dividend = "PREFER_DIVIDEND" /\ (e.dividend = None \/ e.dividend = 0)
             \/ s.dividend = "EXCLUDE_DIVIDEND" /\ e.dividend # None /\ e.dividend > 0
       \/ /\ r = "excluded"
          /\ e.symbol \in s.exclusion
       \/ /\ r = "short interest"
          /\ \/ /\ s.short = "AVOID_HIGH_SHORT_INTEREST"
                /\ e.short # None
                /\ e.short > HighShort
             \/ /\ s.short = "TARGET_SHORT_SQUEEZE"
                /\ e.short = None \/ e.short <= HighShort}

Occurrences(e, seq) == Cardinality({i \in DOMAIN seq : seq[i] = e})

\* The eight stages together let through exactly the entries no reason speaks
\* against, each as often as the buckets held it, watchlisted ones in front and
\* otherwise in the order of the buckets.
ChainMeetsCriteria ==
    scan.at = "done" =>
        LET all == Union(scan.got)
            out == scan.candidates
            Ahead(e) == e.symbol \in scan.settings.watchlist
        IN /\ \A e \in Members(all) \cup Members(out) :
                Occurrences(e, out) =
                    IF Reasons(e, scan.settings) = {} THEN Occurrences(e, all) ELSE 0
           /\ \A i, j \in DOMAIN out : i < j =>
                \/ Ahead(out[i]) /\ ~Ahead(out[j])
                \/ /\ Ahead(out[i]) = Ahead(out[j])
                   /\ \E p, q \in DOMAIN all : p < q /\ all[p] = out[i] /\ all[q] = out[j]

\* The buckets a scan leaves unread hold nothing it could have used: the sectors
\* and tiers it derives from the settings miss no entry the chain would let
\* through.
UnreadBucketsUseless ==
    scan.at \in {"reading", "done"} =>
        \A b \in Bucket \ RelevantBuckets(scan.settings) : stored[b] # None =>
            \A x \in DOMAIN stored[b] : Reasons(stored[b][x], scan.settings) # {}
=============================================================================
