----------------------- MODULE CandidateSelectionProofs -----------------------
(***************************************************************************)
(* Theorems about CandidateSelection, for every set of symbols, sectors and  *)
(* bands, every limit, every bot and any number of fetches and moves.        *)
(***************************************************************************)
EXTENDS CandidateSelection, FiniteSetTheorems, SequenceTheorems, TLAPS

\* What the bands of MARKET_CAP_TIER_USD_BANDS have to be.
BandsDisjoint ==
    \A t, u \in CapTiers : \A c \in Nat : InBand(c, t) /\ InBand(c, u) => t = u

\* The vendor lists x in bucket b.
BelongsTo(x, b) == facts[x].sector = b[1] /\ InBand(facts[x].cap, b[2])

\* What fetching and storing see to of an entry of bucket b.
Placed(e, b) ==
    /\ e.sector = b[1]
    /\ \A l \in e.labels : l \in Labels \ TierB /\ ParentSector[l] = b[1]
    /\ e.cap \in Nat
    /\ e.cap = 0 \/ InBand(e.cap, b[2])

Shape ==
    /\ facts \in [Symbols -> Facts]
    /\ \A x \in Symbols : facts[x] \in VendorFacts
    /\ DOMAIN fetch = Bucket
    /\ DOMAIN stored = Bucket
    /\ \A b \in Bucket : stored[b] # None => DOMAIN stored[b] \subseteq Symbols

\* An entry of a symbol whose request is over.
Answered(e, x) == e = Completed(Row(x), x) \/ (x \in refused /\ e = Row(x))

\* The rows of a fetch under way, and those whose request is still out.
FetchOK(b) ==
    /\ fetch[b] = [at |-> fetch[b].at, rows |-> fetch[b].rows, waiting |-> fetch[b].waiting]
    /\ DOMAIN fetch[b].rows \subseteq Symbols
    /\ fetch[b].waiting \subseteq DOMAIN fetch[b].rows
    /\ fetch[b].waiting # {} => fetch[b].at = "fundamentals"
    /\ fetch[b].at = "fundamentals" /\ moved = {} => DOMAIN fetch[b].rows = Listed(b)
    /\ \A x \in DOMAIN fetch[b].rows :
        /\ Placed(fetch[b].rows[x], b)
        /\ x \notin moved =>
             /\ BelongsTo(x, b)
             /\ x \in fetch[b].waiting => fetch[b].rows[x] = Row(x)
             /\ x \notin fetch[b].waiting => Answered(fetch[b].rows[x], x)

RowsInv == \A b \in Bucket : FetchOK(b)

StoredInv ==
    \A b \in Bucket : stored[b] # None =>
        /\ moved = {} => DOMAIN stored[b] = Listed(b)
        /\ \A x \in DOMAIN stored[b] :
             /\ Placed(stored[b][x], b)
             /\ x \notin moved => BelongsTo(x, b) /\ Answered(stored[b][x], x)

CacheInv == Shape /\ RowsInv /\ StoredInv

\* A row of the screener is placed in the bucket the screener was asked for.
LEMMA RowPlaced ==
    ASSUME Shape, NEW b \in Bucket, NEW x \in Listed(b)
    PROVE  x \in Symbols /\ BelongsTo(x, b) /\ Placed(Row(x), b)
<1>1. x \in Symbols /\ BelongsTo(x, b)
  BY DEF Listed, Matches, BelongsTo
<1>2. facts[x] \in VendorFacts /\ facts[x] \in Facts
  BY <1>1 DEF Shape
<1>3. facts[x].label # None =>
        facts[x].label \in Labels \ TierB /\ ParentSector[facts[x].label] = b[1]
  BY <1>1, <1>2, VendorAssumption DEF Facts, BelongsTo
<1>4. facts[x].cap \in Nat /\ facts[x].sector = b[1] /\ InBand(facts[x].cap, b[2])
  BY <1>1, <1>2 DEF Facts, BelongsTo
<1> DEFINE e == Row(x)
<1>5. /\ e.sector = facts[x].sector
      /\ e.labels = {facts[x].label} \ {None}
      /\ e.cap = IF facts[x].capShown THEN facts[x].cap ELSE 0
  BY DEF Row
<1> HIDE DEF e
<1>6. Placed(e, b)
  BY <1>3, <1>4, <1>5 DEF Placed
<1> QED
  BY <1>1, <1>6 DEF e

\* Fundamentals leave an entry where it is.
LEMMA CompletedPlaced ==
    ASSUME NEW e, NEW b, NEW x, Placed(e, b)
    PROVE  Placed(Completed(e, x), b)
  BY DEF Placed, Completed

\* While the vendor's facts of x stay, so does everything made from them.
LEMMA FactsKept ==
    ASSUME NEW x, facts'[x] = facts[x], NEW b
    PROVE  /\ BelongsTo(x, b)' <=> BelongsTo(x, b)
           /\ Row(x)' = Row(x)
           /\ Completed(Row(x), x)' = Completed(Row(x), x)
  BY DEF BelongsTo, Row, Completed

\* The screener lists by the facts alone.
LEMMA ListedKept ==
    ASSUME facts' = facts, NEW b
    PROVE  Listed(b)' = Listed(b)
  BY DEF Listed, Matches, InBand

\* The vendor's facts move: what has not moved is as it was.
LEMMA MoveStep ==
    ASSUME CacheInv, MoveFacts
    PROVE  CacheInv'
<1> PICK x \in Symbols, f \in VendorFacts :
           facts' = [facts EXCEPT ![x] = f] /\ moved' = moved \cup {x}
  BY DEF MoveFacts
<1>1. UNCHANGED <<fetch, stored, refused>> /\ f \in Facts /\ moved' # {}
  BY VendorAssumption DEF MoveFacts
<1>2. /\ facts \in [Symbols -> Facts]
      /\ \A y : y \notin moved' => y \notin moved /\ facts'[y] = facts[y]
  BY DEF CacheInv, Shape
<1>3. Shape'
  BY <1>1 DEF CacheInv, Shape
<1>4. RowsInv'
  <2> SUFFICES ASSUME NEW b \in Bucket, NEW y \in DOMAIN fetch[b].rows, y \notin moved'
               PROVE  /\ BelongsTo(y, b)'
                      /\ y \in fetch[b].waiting => fetch[b].rows[y] = Row(y)'
                      /\ y \notin fetch[b].waiting => Answered(fetch[b].rows[y], y)'
    BY <1>1 DEF CacheInv, RowsInv, FetchOK
  <2>1. FetchOK(b) /\ y \notin moved /\ facts'[y] = facts[y]
    BY <1>2 DEF CacheInv, RowsInv
  <2>2. /\ BelongsTo(y, b)
        /\ y \in fetch[b].waiting => fetch[b].rows[y] = Row(y)
        /\ y \notin fetch[b].waiting => Answered(fetch[b].rows[y], y)
    BY <2>1 DEF FetchOK
  <2> QED
    BY <1>1, <2>1, <2>2, FactsKept DEF Answered
<1>5. StoredInv'
  <2> SUFFICES ASSUME NEW b \in Bucket, stored[b] # None,
                      NEW y \in DOMAIN stored[b], y \notin moved'
               PROVE  BelongsTo(y, b)' /\ Answered(stored[b][y], y)'
    BY <1>1 DEF CacheInv, StoredInv
  <2> QED
    BY <1>1, <1>2, FactsKept DEF CacheInv, StoredInv, Answered
<1> QED
  BY <1>3, <1>4, <1>5 DEF CacheInv

\* A fetch changes, the cache does not: it is enough to look at that fetch.
LEMMA FetchChanges ==
    ASSUME CacheInv, UNCHANGED <<facts, moved, stored>>, refused \subseteq refused',
           NEW b \in Bucket, NEW r, fetch' = [fetch EXCEPT ![b] = r], FetchOK(b)'
    PROVE  CacheInv'
<1>1. /\ DOMAIN fetch' = Bucket
      /\ \A c \in Bucket \ {b} : fetch'[c] = fetch[c]
  BY DEF CacheInv, Shape
<1>2. /\ \A x : Row(x)' = Row(x) /\ Completed(Row(x), x)' = Completed(Row(x), x)
      /\ \A e, x : Answered(e, x) => Answered(e, x)'
  BY DEF Row, Completed, Answered
<1>6. \A c : Listed(c)' = Listed(c)
  BY ListedKept
<1>3. Shape'
  BY <1>1 DEF CacheInv, Shape
<1>4. RowsInv'
  <2> SUFFICES ASSUME NEW c \in Bucket, c # b
               PROVE  FetchOK(c)'
    BY DEF RowsInv
  <2> QED
    BY <1>1, <1>2, <1>6 DEF CacheInv, RowsInv, FetchOK, BelongsTo, Placed
<1>5. StoredInv'
  BY <1>2, <1>6 DEF CacheInv, StoredInv, BelongsTo, Placed
<1> QED
  BY <1>3, <1>4, <1>5 DEF CacheInv

\* A bucket's fetch that is over, with or without its rows, holds nothing.
LEMMA NoFetchOK ==
    ASSUME NEW b, fetch'[b] = NoFetch
    PROVE  FetchOK(b)'
<1>1. /\ fetch'[b].rows = << >> /\ fetch'[b].waiting = {} /\ DOMAIN << >> = {}
      /\ fetch'[b].at = "idle"
      /\ fetch'[b] = [at |-> fetch'[b].at, rows |-> fetch'[b].rows,
                      waiting |-> fetch'[b].waiting]
  BY DEF NoFetch
<1> QED
  BY <1>1 DEF FetchOK

\* Every step keeps the cache what the vendor knows.
LEMMA CacheStep == CacheInv /\ [Next]_vars => CacheInv'
<1> SUFFICES ASSUME CacheInv, [Next]_vars
             PROVE  CacheInv'
  OBVIOUS
<1>0. /\ Shape /\ RowsInv /\ StoredInv
      /\ DOMAIN fetch = Bucket
      /\ \A b \in Bucket : FetchOK(b)
  BY DEF CacheInv, Shape, RowsInv
<1>1. CASE MoveFacts
  BY <1>1, MoveStep
<1>2. ASSUME NEW b \in Bucket, Screen(b)
      PROVE  CacheInv'
  <2> DEFINE rows == [x \in Listed(b) |-> Row(x)]
             r == InFlight(rows, Listed(b))
  <2>1. /\ fetch' = [fetch EXCEPT ![b] = r]
        /\ UNCHANGED <<facts, moved, stored, refused>>
    BY <1>2 DEF Screen, vendorVars
  <2>2. DOMAIN rows = Listed(b) /\ \A x \in Listed(b) : rows[x] = Row(x)
    OBVIOUS
  <2>3. \A x \in Listed(b) : x \in Symbols /\ BelongsTo(x, b) /\ Placed(Row(x), b)
    BY <1>0, RowPlaced
  <2>4. /\ \A x : Row(x)' = Row(x) /\ (BelongsTo(x, b)' <=> BelongsTo(x, b))
        /\ Listed(b)' = Listed(b)
    BY <2>1, ListedKept DEF Row, BelongsTo
  <2> HIDE DEF rows
  <2>5. /\ r = [at |-> r.at, rows |-> r.rows, waiting |-> r.waiting]
        /\ r.rows = rows /\ r.waiting = Listed(b) /\ r.at = "fundamentals"
    BY DEF InFlight
  <2> HIDE DEF r
  <2>6. fetch'[b] = r
    BY <1>0, <2>1
  <2>7. FetchOK(b)'
    BY <2>1, <2>2, <2>3, <2>4, <2>5, <2>6 DEF FetchOK, Placed
  <2> QED
    BY <2>1, <2>7, FetchChanges
<1>3. ASSUME NEW b \in Bucket, NEW x \in Symbols, Fundamentals(b, x)
      PROVE  CacheInv'
  <2> DEFINE rows == [fetch[b].rows EXCEPT ![x] = Completed(@, x)]
             waiting == fetch[b].waiting \ {x}
             r == InFlight(rows, waiting)
  <2>1. /\ FetchOK(b)
        /\ x \in fetch[b].waiting
        /\ UNCHANGED <<facts, moved, stored, refused>>
    BY <1>0, <1>3 DEF Fundamentals, vendorVars
  <2>2. fetch' = [fetch EXCEPT ![b] = r]
    BY <1>3 DEF Fundamentals
  <2>3. /\ DOMAIN rows = DOMAIN fetch[b].rows
        /\ waiting \subseteq DOMAIN rows /\ DOMAIN rows \subseteq Symbols
        /\ x \in DOMAIN rows /\ rows[x] = Completed(fetch[b].rows[x], x)
        /\ \A y \in DOMAIN rows \ {x} : rows[y] = fetch[b].rows[y]
    BY <2>1 DEF FetchOK
  <2>4. ASSUME NEW y \in DOMAIN rows
        PROVE  /\ Placed(rows[y], b)
               /\ y \notin moved =>
                    /\ BelongsTo(y, b)
                    /\ y \in waiting => rows[y] = Row(y)
                    /\ y \notin waiting => Answered(rows[y], y)
    <3>1. /\ Placed(fetch[b].rows[y], b)
          /\ y \notin moved =>
               /\ BelongsTo(y, b)
               /\ y \in fetch[b].waiting => fetch[b].rows[y] = Row(y)
               /\ y \notin fetch[b].waiting => Answered(fetch[b].rows[y], y)
      BY <2>1, <2>3 DEF FetchOK
    <3>2. CASE y = x
      BY <2>1, <2>3, <3>1, <3>2, CompletedPlaced DEF Answered
    <3>3. CASE y # x
      BY <2>3, <3>1, <3>3
    <3> QED
      BY <3>2, <3>3
  <2> HIDE DEF rows, waiting
  <2>5. /\ r = [at |-> r.at, rows |-> r.rows, waiting |-> r.waiting]
        /\ r.rows = rows /\ r.waiting = waiting /\ r.at = "fundamentals"
    BY DEF InFlight
  <2> HIDE DEF r
  <2>6. fetch'[b] = r
    BY <1>0, <2>2
  <2>7. \A y : /\ Row(y)' = Row(y) /\ (BelongsTo(y, b)' <=> BelongsTo(y, b))
               /\ \A e : Answered(e, y) => Answered(e, y)'
    BY <2>1 DEF Row, BelongsTo, Completed, Answered
  <2>9. moved' = {} => DOMAIN rows = Listed(b)'
    <3>1. fetch[b].at = "fundamentals"
      BY <2>1 DEF FetchOK
    <3> QED
      BY <2>1, <2>3, <3>1, ListedKept DEF FetchOK
  <2>8. FetchOK(b)'
    BY <2>1, <2>3, <2>4, <2>5, <2>6, <2>7, <2>9 DEF FetchOK, Placed
  <2> QED
    BY <2>1, <2>2, <2>8, FetchChanges
<1>4. ASSUME NEW b \in Bucket, NEW x \in Symbols, SymbolRefused(b, x)
      PROVE  CacheInv'
  <2> DEFINE waiting == fetch[b].waiting \ {x}
             r == InFlight(fetch[b].rows, waiting)
  <2>1. /\ FetchOK(b)
        /\ UNCHANGED <<facts, moved, stored>>
        /\ refused' = refused \cup {x}
    BY <1>0, <1>4 DEF SymbolRefused, vendorVars
  <2>8. x \in fetch[b].waiting
    BY <1>4 DEF SymbolRefused
  <2>2. fetch' = [fetch EXCEPT ![b] = r]
    BY <1>4 DEF SymbolRefused
  <2>3. /\ r = [at |-> r.at, rows |-> r.rows, waiting |-> r.waiting]
        /\ r.rows = fetch[b].rows /\ r.waiting = waiting /\ r.at = "fundamentals"
    BY DEF InFlight
  <2> HIDE DEF r
  <2>4. fetch'[b] = r
    BY <1>0, <2>2
  <2>5. /\ \A y : /\ Row(y)' = Row(y) /\ (BelongsTo(y, b)' <=> BelongsTo(y, b))
                  /\ \A e : Answered(e, y) => Answered(e, y)'
        /\ Answered(Row(x), x)'
    BY <2>1 DEF Row, BelongsTo, Completed, Answered
  <2>9. moved' = {} => DOMAIN fetch[b].rows = Listed(b)'
    <3>1. fetch[b].at = "fundamentals"
      BY <2>1, <2>8 DEF FetchOK
    <3> QED
      BY <2>1, <3>1, ListedKept DEF FetchOK
  <2>11. /\ waiting = fetch[b].waiting \ {x}
         /\ \A y \in DOMAIN fetch[b].rows : y \notin moved =>
              /\ y \in fetch[b].waiting => fetch[b].rows[y] = Row(y)
              /\ y \notin fetch[b].waiting => Answered(fetch[b].rows[y], y)
    BY <2>1 DEF FetchOK
  <2> HIDE DEF waiting
  <2>10. ASSUME NEW y \in DOMAIN fetch[b].rows, y \notin moved, y \notin waiting,
                NEW e, e = fetch[b].rows[y]
         PROVE  Answered(e, y)'
    <3>1. CASE y = x
      <4>1. fetch[b].rows[x] = Row(x)
        BY <2>8, <2>10, <2>11, <3>1
      <4> QED
        BY <2>5, <2>10, <3>1, <4>1
    <3>2. CASE y # x
      BY <2>5, <2>10, <2>11, <3>2
    <3> QED
      BY <3>1, <3>2
  <2>6. FetchOK(b)'
    BY <2>1, <2>3, <2>4, <2>5, <2>9, <2>10, <2>11 DEF FetchOK, Placed
  <2>7. refused \subseteq refused'
    BY <2>1
  <2> QED
    BY <2>1, <2>2, <2>6, <2>7, FetchChanges
<1>5. ASSUME NEW b \in Bucket, NEW x \in Symbols, VendorDown(b, x)
      PROVE  CacheInv'
  <2>1. /\ fetch' = [fetch EXCEPT ![b] = NoFetch]
        /\ UNCHANGED <<facts, moved, stored, refused>>
    BY <1>5 DEF VendorDown, vendorVars
  <2>2. FetchOK(b)'
    BY <1>0, <2>1, NoFetchOK
  <2> QED
    BY <2>1, <2>2, FetchChanges
<1>6. ASSUME NEW b \in Bucket, StoreBucket(b)
      PROVE  CacheInv'
  <2>1. /\ fetch' = [fetch EXCEPT ![b] = NoFetch]
        /\ stored' = [stored EXCEPT ![b] = fetch[b].rows]
        /\ fetch[b].waiting = {} /\ FetchOK(b)
        /\ UNCHANGED <<facts, moved, refused>>
    BY <1>0, <1>6 DEF StoreBucket, vendorVars
  <2>2. /\ DOMAIN fetch' = Bucket /\ DOMAIN stored' = Bucket
        /\ fetch'[b] = NoFetch
        /\ stored'[b] = fetch[b].rows
        /\ \A c \in Bucket \ {b} : fetch'[c] = fetch[c] /\ stored'[c] = stored[c]
    BY <1>0, <2>1 DEF Shape
  <2>3. /\ \A x : Row(x)' = Row(x) /\ Completed(Row(x), x)' = Completed(Row(x), x)
        /\ \A e, x : Answered(e, x)' <=> Answered(e, x)
        /\ \A c : Listed(c)' = Listed(c)
    BY <2>1, ListedKept DEF Row, Completed, Answered
  <2>4. Shape'
    <3>1. DOMAIN fetch[b].rows \subseteq Symbols
      BY <2>1 DEF FetchOK
    <3> QED
      BY <1>0, <2>1, <2>2, <3>1 DEF Shape
  <2>5. RowsInv'
    <3> SUFFICES ASSUME NEW c \in Bucket
                 PROVE  FetchOK(c)'
      BY DEF RowsInv
    <3>1. CASE c = b
      BY <2>2, <3>1, NoFetchOK
    <3>2. CASE c # b
      BY <1>0, <2>1, <2>2, <2>3, <3>2 DEF FetchOK, BelongsTo, Placed
    <3> QED
      BY <3>1, <3>2
  <2>6. StoredInv'
    <3> SUFFICES ASSUME NEW c \in Bucket, stored'[c] # None
                 PROVE  /\ moved = {} => DOMAIN stored'[c] = Listed(c)
                        /\ \A x \in DOMAIN stored'[c] :
                             /\ Placed(stored'[c][x], c)
                             /\ x \notin moved => BelongsTo(x, c) /\ Answered(stored'[c][x], x)
      BY <2>1, <2>3 DEF StoredInv, BelongsTo, Placed
    <3>1. CASE c = b
      BY <1>6, <2>1, <2>2, <3>1 DEF StoreBucket, FetchOK
    <3>2. CASE c # b
      BY <1>0, <2>2, <3>2 DEF StoredInv
    <3> QED
      BY <3>1, <3>2
  <2> QED
    BY <2>4, <2>5, <2>6 DEF CacheInv
<1>7. CASE \/ StartScan \/ SelectCandidates \/ UNCHANGED vars
           \/ \E b \in Bucket : ReadBucket(b)
  <2>1. UNCHANGED <<facts, moved, fetch, stored, refused>>
    BY <1>7 DEF StartScan, SelectCandidates, ReadBucket, vars, vendorVars
  <2>2. /\ \A x : Row(x)' = Row(x) /\ Completed(Row(x), x)' = Completed(Row(x), x)
        /\ \A e, x : Answered(e, x)' <=> Answered(e, x)
        /\ \A c : Listed(c)' = Listed(c)
    BY <2>1, ListedKept DEF Row, Completed, Answered
  <2>3. Shape'
    BY <1>0, <2>1 DEF Shape
  <2>4. RowsInv'
    BY <1>0, <2>1, <2>2 DEF RowsInv, FetchOK, BelongsTo, Placed
  <2>5. StoredInv'
    BY <1>0, <2>1, <2>2 DEF StoredInv, BelongsTo, Placed
  <2> QED
    BY <2>3, <2>4, <2>5 DEF CacheInv
<1> QED
  BY <1>1, <1>2, <1>3, <1>4, <1>5, <1>6, <1>7 DEF Next, BucketStep

\* The cache starts empty.
LEMMA InitCache == Init => CacheInv
<1> SUFFICES ASSUME Init
             PROVE  CacheInv
  OBVIOUS
<1>1. /\ facts \in [Symbols -> VendorFacts] /\ VendorFacts \subseteq Facts
      /\ fetch = [b \in Bucket |-> NoFetch]
      /\ stored = [b \in Bucket |-> None]
  BY VendorAssumption DEF Init
<1>2. Shape /\ StoredInv
  BY <1>1 DEF Shape, StoredInv
<1>3. NoFetch.at = "idle" /\ NoFetch.rows = << >> /\ NoFetch.waiting = {} /\ DOMAIN << >> = {}
      /\ NoFetch = [at |-> NoFetch.at, rows |-> NoFetch.rows, waiting |-> NoFetch.waiting]
  BY DEF NoFetch
<1>4. RowsInv
  BY <1>1, <1>3 DEF RowsInv, FetchOK
<1> QED
  BY <1>2, <1>4 DEF CacheInv

\* While nothing moves a bucket holds the symbols the screener lists, and the entry of one
\* that has not moved is exactly what the vendor knows of it, or, if its own request was
\* once refused, that without fundamentals: no interleaving of the requests of a bucket
\* with outages of the vendor loses a row, or stores as unknown a figure of another symbol
\* (eodhd-client.ts, fetchFundamentals; bucket-fetch.ts).
THEOREM StoredMatchesVendor == Spec => []StoredIsVendors
<1>1. CacheInv => StoredIsVendors
  BY DEF CacheInv, StoredInv, StoredIsVendors, Answered
<1> QED
  BY <1>1, InitCache, CacheStep, PTL DEF Spec

-----------------------------------------------------------------------------
(* What a scan has read *)

ScanInv ==
    /\ scan = [at |-> scan.at, settings |-> scan.settings, got |-> scan.got,
               candidates |-> scan.candidates]
    /\ scan.at \in {"reading", "done"} => scan.settings \in BotSettings
    /\ DOMAIN scan.got \subseteq Bucket
    /\ \A b \in DOMAIN scan.got : \A x \in DOMAIN scan.got[b] :
         x \in Symbols /\ (x \notin moved => BelongsTo(x, b))

\* A scan reads what is stored, and what has not moved stays where it was read.
LEMMA ScanStep == CacheInv /\ ScanInv /\ [Next]_vars => ScanInv'
<1> SUFFICES ASSUME CacheInv, ScanInv, [Next]_vars
             PROVE  ScanInv'
  OBVIOUS
<1>1. CASE MoveFacts
  <2> PICK x \in Symbols, f \in VendorFacts :
             facts' = [facts EXCEPT ![x] = f] /\ moved' = moved \cup {x}
    BY <1>1 DEF MoveFacts
  <2>1. /\ scan' = scan
        /\ \A y : y \notin moved' => y \notin moved /\ facts'[y] = facts[y]
    BY <1>1 DEF MoveFacts, CacheInv, Shape
  <2>2. \A y, b : y \notin moved' => y \notin moved /\ (BelongsTo(y, b)' <=> BelongsTo(y, b))
    BY <2>1 DEF BelongsTo
  <2> QED
    BY <2>1, <2>2 DEF ScanInv
<1>2. ASSUME NEW b \in Bucket, ReadBucket(b)
      PROVE  ScanInv'
  <2>1. /\ UNCHANGED <<facts, moved>>
        /\ \A x, c : BelongsTo(x, c)' <=> BelongsTo(x, c)
    BY <1>2 DEF ReadBucket, vendorVars, BelongsTo
  <2>2. CASE stored[b] = None
    <3>1. scan' = [scan EXCEPT !.at = "skipped", !.got = << >>]
      BY <1>2, <2>2 DEF ReadBucket
    <3> DEFINE t == [at |-> "skipped", settings |-> scan.settings, got |-> << >>,
                     candidates |-> scan.candidates]
    <3>2. scan' = t
      BY <3>1 DEF ScanInv
    <3>3. /\ t = [at |-> t.at, settings |-> t.settings, got |-> t.got,
                  candidates |-> t.candidates]
          /\ t.at = "skipped" /\ DOMAIN t.got = {}
      OBVIOUS
    <3> HIDE DEF t
    <3> QED
      BY <3>2, <3>3 DEF ScanInv
  <2>3. CASE stored[b] # None
    <3> DEFINE got == [c \in DOMAIN scan.got \cup {b} |->
                         IF c = b THEN stored[b] ELSE scan.got[c]]
               t == [at |-> scan.at, settings |-> scan.settings, got |-> got,
                     candidates |-> scan.candidates]
    <3>1. scan' = [scan EXCEPT !.got = got]
      BY <1>2, <2>3 DEF ReadBucket
    <3>2. scan' = t
      <4> HIDE DEF got
      <4> QED
        BY <3>1 DEF ScanInv
    <3>3. /\ DOMAIN got = DOMAIN scan.got \cup {b}
          /\ got[b] = stored[b]
          /\ \A c \in DOMAIN scan.got \ {b} : got[c] = scan.got[c]
      OBVIOUS
    <3> HIDE DEF got
    <3>4. /\ t = [at |-> t.at, settings |-> t.settings, got |-> t.got,
                  candidates |-> t.candidates]
          /\ t.at = scan.at /\ t.settings = scan.settings /\ t.got = got
      OBVIOUS
    <3> HIDE DEF t
    <3>5. \A x \in DOMAIN stored[b] : x \in Symbols /\ (x \notin moved => BelongsTo(x, b))
      BY <2>3 DEF CacheInv, Shape, StoredInv
    <3> QED
      BY <2>1, <3>2, <3>3, <3>4, <3>5 DEF ScanInv
  <2> QED
    BY <2>2, <2>3
<1>3. CASE StartScan
  <2> PICK s \in BotSettings :
             scan' = [scan EXCEPT !.at = IF RelevantBuckets(s) = {} THEN "threw" ELSE "reading",
                                  !.settings = s]
    BY <1>3 DEF StartScan
  <2> DEFINE t == [at |-> IF RelevantBuckets(s) = {} THEN "threw" ELSE "reading",
                   settings |-> s, got |-> scan.got, candidates |-> scan.candidates]
  <2>1. scan' = t
    BY DEF ScanInv
  <2>2. /\ t = [at |-> t.at, settings |-> t.settings, got |-> t.got,
                candidates |-> t.candidates]
        /\ t.settings \in BotSettings /\ t.got = scan.got
    OBVIOUS
  <2> HIDE DEF t
  <2> QED
    BY <1>3, <2>1, <2>2 DEF StartScan, vendorVars, ScanInv, BelongsTo
<1>4. CASE SelectCandidates
  <2> DEFINE out == RunFilterChain(Union(scan.got), scan.settings)
             t == [at |-> "done", settings |-> scan.settings, got |-> scan.got,
                   candidates |-> out]
  <2>1. scan' = [scan EXCEPT !.at = "done", !.candidates = out]
    BY <1>4 DEF SelectCandidates
  <2> HIDE DEF out
  <2>2. scan' = t
    BY <2>1 DEF ScanInv
  <2>3. /\ t = [at |-> t.at, settings |-> t.settings, got |-> t.got,
                candidates |-> t.candidates]
        /\ t.settings = scan.settings /\ t.got = scan.got
    OBVIOUS
  <2> HIDE DEF t
  <2> QED
    BY <1>4, <2>2, <2>3 DEF SelectCandidates, vendorVars, ScanInv, BelongsTo
<1>5. ASSUME NEW b \in Bucket, NEW x \in Symbols,
             \/ Screen(b) \/ StoreBucket(b) \/ Fundamentals(b, x)
             \/ SymbolRefused(b, x) \/ VendorDown(b, x)
      PROVE  ScanInv'
  <2>1. UNCHANGED <<facts, moved, scan>>
    BY <1>5 DEF Screen, StoreBucket, Fundamentals, SymbolRefused, VendorDown, vendorVars
  <2> QED
    BY <2>1 DEF ScanInv, BelongsTo
<1>6. ASSUME NEW b \in Bucket, Screen(b) \/ StoreBucket(b)
      PROVE  ScanInv'
  <2>1. UNCHANGED <<facts, moved, scan>>
    BY <1>6 DEF Screen, StoreBucket, vendorVars
  <2> QED
    BY <2>1 DEF ScanInv, BelongsTo
<1>7. CASE UNCHANGED vars
  BY <1>7 DEF vars, vendorVars, ScanInv, BelongsTo
<1> QED
  BY <1>1, <1>2, <1>3, <1>4, <1>5, <1>6, <1>7 DEF Next, BucketStep

\* A scan has read nothing at the start.
LEMMA InitScan == Init => ScanInv
<1> SUFFICES ASSUME Init
             PROVE  ScanInv
  OBVIOUS
<1> DEFINE t == [at |-> "idle", settings |-> None, got |-> << >>, candidates |-> <<>>]
<1>1. /\ t = [at |-> t.at, settings |-> t.settings, got |-> t.got,
              candidates |-> t.candidates]
      /\ t.at = "idle" /\ DOMAIN t.got = {}
  OBVIOUS
<1>2. scan = t
  BY DEF Init
<1> HIDE DEF t
<1> QED
  BY <1>1, <1>2 DEF ScanInv

\* With disjoint bands, a symbol a scan meets in two buckets has changed its facts some
\* time (bucket-fetch.ts, eodhd-client.ts).
THEOREM DuplicatesHaveMoved ==
    ASSUME BandsDisjoint
    PROVE  Spec => []SeenTwiceHasMoved
<1>1. CacheInv /\ ScanInv => SeenTwiceHasMoved
  <2> SUFFICES ASSUME CacheInv, ScanInv,
                      NEW b \in DOMAIN scan.got, NEW c \in DOMAIN scan.got, b # c,
                      NEW x \in DOMAIN scan.got[b] \cap DOMAIN scan.got[c], x \notin moved
               PROVE  FALSE
    BY DEF SeenTwiceHasMoved
  <2>1. /\ x \in Symbols /\ b \in Bucket /\ c \in Bucket
        /\ BelongsTo(x, b) /\ BelongsTo(x, c)
    BY DEF ScanInv
  <2>2. facts[x].cap \in Nat
    BY <2>1 DEF CacheInv, Shape, Facts
  <2>3. b[1] = c[1] /\ b[2] = c[2]
    BY <2>1, <2>2 DEF BelongsTo, BandsDisjoint, Bucket
  <2> QED
    BY <2>1, <2>3 DEF Bucket
<1> QED
  BY <1>1, InitCache, CacheStep, InitScan, ScanStep, PTL DEF Spec

-----------------------------------------------------------------------------
(* What a scan leaves unread *)

\* The sub-sector stage would drop everything of a sector the settings do not lead to.
LEMMA SectorIrrelevant ==
    ASSUME NEW s \in Settings, NEW b \in Bucket, b[1] \notin RelevantSectors(s),
           NEW e, Placed(e, b)
    PROVE  "sub-sector" \in Reasons(e, s)
<1>1. b[1] \in Sectors /\ b[1] # None /\ s.subSectors \subseteq Labels
  BY ChainAssumption DEF Bucket, Settings
<1>2. s.subSectors # {} /\ \A l \in s.subSectors : ParentSector[l] # b[1]
  BY <1>1 DEF RelevantSectors
<1>3. e.labels \cap s.subSectors = {}
  BY <1>2 DEF Placed
<1>4. e.sector \notin {ParentSector[l] : l \in s.subSectors \cap TierB}
  BY <1>2 DEF Placed
<1> QED
  BY <1>2, <1>3, <1>4 DEF Reasons

\* The market-cap stage would drop everything of a band the frame does not hold.
LEMMA BandIrrelevant ==
    ASSUME BandsDisjoint, NEW s \in Settings, NEW b \in Bucket, b[2] \notin s.tiers,
           NEW e, Placed(e, b)
    PROVE  "market cap" \in Reasons(e, s)
<1>1. /\ e.cap \in Nat /\ MinCap \in Nat \ {0}
      /\ b[2] \in CapTiers /\ s.tiers \subseteq CapTiers
      /\ \A t \in CapTiers : Band[t].min \in Nat /\ Band[t].max \in Nat \cup {None}
  BY ChainAssumption DEF Placed, Bucket, Settings
<1>2. CASE e.cap = 0
  <2>1. e.cap < MinCap
    BY <1>1, <1>2
  <2> QED
    BY <2>1 DEF Reasons
<1>3. CASE e.cap # 0
  <2>1. \A t \in s.tiers : ~InBand(e.cap, t)
    BY <1>1, <1>3 DEF Placed, BandsDisjoint
  <2>2. \A t \in s.tiers : e.cap < Band[t].min \/ (Band[t].max # None /\ e.cap >= Band[t].max)
    BY <1>1, <2>1, ChainAssumption DEF InBand
  <2> QED
    BY <2>2 DEF Reasons
<1> QED
  BY <1>2, <1>3

\* With disjoint bands, the buckets a scan leaves unread hold nothing its filter chain
\* would have let through (scan-bot.worker.ts, step 5; universe-filter-chain.ts,
\* resolveRelevantParentSectors).
THEOREM UnreadIsUseless ==
    ASSUME BandsDisjoint
    PROVE  Spec => []UnreadBucketsUseless
<1>1. CacheInv /\ ScanInv => UnreadBucketsUseless
  <2> SUFFICES ASSUME CacheInv, ScanInv, scan.at \in {"reading", "done"},
                      NEW b \in Bucket \ RelevantBuckets(scan.settings), stored[b] # None,
                      NEW x \in DOMAIN stored[b]
               PROVE  Reasons(stored[b][x], scan.settings) # {}
    BY DEF UnreadBucketsUseless
  <2>1. scan.settings \in Settings
    BY VendorAssumption DEF ScanInv
  <2>2. Placed(stored[b][x], b)
    BY DEF CacheInv, StoredInv
  <2>3. b[1] \notin RelevantSectors(scan.settings) \/ b[2] \notin scan.settings.tiers
    BY DEF Bucket, RelevantBuckets
  <2> QED
    BY <2>1, <2>2, <2>3, SectorIrrelevant, BandIrrelevant
<1> QED
  BY <1>1, InitCache, CacheStep, InitScan, ScanStep, PTL DEF Spec

-----------------------------------------------------------------------------
(* Keeping elements of a sequence *)

\* How many of the positions come up to i.
Rank(positions, i) == Cardinality({j \in positions : j <= i})

\* Sets of positions are finite, as all their subsets.
LEMMA PositionsFinite ==
    ASSUME NEW N \in Nat, NEW S \in SUBSET (1..N)
    PROVE  /\ IsFiniteSet(S)
           /\ Cardinality(S) \in Nat
           /\ \A T \in SUBSET S : IsFiniteSet(T) /\ Cardinality(T) \in Nat
<1>1. IsFiniteSet(1..N)
  BY FS_Interval
<1>2. \A T \in SUBSET (1..N) : IsFiniteSet(T)
  BY <1>1, FS_Subset
<1> QED
  BY <1>2, FS_CardinalityType

\* Of two positions the later one has the higher rank.
LEMMA RankRises ==
    ASSUME NEW N \in Nat, NEW S \in SUBSET (1..N),
           NEW i \in S, NEW k \in S, i < k
    PROVE  Rank(S, i) < Rank(S, k)
<1> DEFINE A == {j \in S : j <= i}
           B == {j \in S : j <= k}
<1>1. /\ A \in SUBSET B /\ B \in SUBSET S
      /\ k \in B /\ k \notin A
  <2>1. i \in Nat /\ k \in Nat /\ \A j \in S : j \in Nat
    OBVIOUS
  <2>2. A \subseteq B
    <3> SUFFICES ASSUME NEW j \in S, j <= i
                 PROVE  j <= k
      OBVIOUS
    <3> QED
      BY <2>1
  <2> QED
    BY <2>1, <2>2
<1>2. IsFiniteSet(B) /\ Cardinality(A) \in Nat /\ Cardinality(B) \in Nat
  BY <1>1, PositionsFinite
<1>3. Cardinality(A) <= Cardinality(B) /\ Cardinality(A) # Cardinality(B)
  <2> HIDE DEF A, B
  <2> QED
    BY <1>1, <1>2, FS_Subset
<1> QED
  BY <1>2, <1>3 DEF Rank

\* The ranks of a set of positions are the numbers up to its size.
LEMMA RankCounts ==
    ASSUME NEW N \in Nat, NEW S \in SUBSET (1..N)
    PROVE  /\ \A i \in S : Rank(S, i) \in 1..Cardinality(S)
           /\ \A i, k \in S : i < k => Rank(S, i) < Rank(S, k)
           /\ \A n \in 1..Cardinality(S) : \E i \in S : Rank(S, i) = n
<1> DEFINE n == Cardinality(S)
           r == [i \in S |-> Rank(S, i)]
<1>1. IsFiniteSet(S) /\ n \in Nat
  BY PositionsFinite
<1>2. ASSUME NEW i \in S
      PROVE  Rank(S, i) \in 1..n
  <2> DEFINE A == {j \in S : j <= i}
  <2>1. A \in SUBSET S /\ i \in A
    BY SMT
  <2>2. IsFiniteSet(A) /\ Cardinality(A) \in Nat
    BY <2>1, PositionsFinite
  <2>3. Cardinality(A) <= n /\ Cardinality(A) # 0
    <3> HIDE DEF A
    <3> QED
      BY <1>1, <2>1, <2>2, FS_Subset, FS_EmptySet
  <2> QED
    BY <1>1, <2>2, <2>3 DEF Rank
<1>3. \A i, k \in S : i < k => Rank(S, i) < Rank(S, k)
  BY RankRises
<1>4. r \in Injection(S, 1..n)
  <2>1. r \in [S -> 1..n]
    BY <1>2
  <2>2. \A i, k \in S : r[i] = r[k] => i = k
    <3> SUFFICES ASSUME NEW i \in S, NEW k \in S, i # k
                 PROVE  Rank(S, i) # Rank(S, k)
      OBVIOUS
    <3>1. i < k \/ k < i
      BY SMT
    <3>2. Rank(S, i) \in Int /\ Rank(S, k) \in Int
      BY <1>1, <1>2
    <3> QED
      BY <1>3, <3>1, <3>2
  <2> HIDE DEF n
  <2> QED
    BY <2>1, <2>2 DEF Injection, IsInjective
<1>5. IsFiniteSet(1..n) /\ Cardinality(1..n) = n
  BY <1>1, FS_Interval
<1>6. r \in Surjection(S, 1..n)
  <2> HIDE DEF r
  <2> QED
    BY <1>4, <1>5, FS_Injection
<1>7. \A m \in 1..n : \E i \in S : Rank(S, i) = m
  BY <1>6 DEF Surjection
<1> QED
  BY <1>2, <1>3, <1>7

\* NthOf enumerates the positions in ascending order.
LEMMA NthOfAscends ==
    ASSUME NEW N \in Nat, NEW S \in SUBSET (1..N)
    PROVE  /\ Cardinality(S) \in Nat
           /\ \A n \in 1..Cardinality(S) : NthOf(S, n) \in S
           /\ \A m, n \in 1..Cardinality(S) : m < n => NthOf(S, m) < NthOf(S, n)
           /\ \A i \in S : \E n \in 1..Cardinality(S) : NthOf(S, n) = i
<1>1. Cardinality(S) \in Nat
  BY PositionsFinite
<1>2. ASSUME NEW n \in 1..Cardinality(S)
      PROVE  NthOf(S, n) \in S /\ Rank(S, NthOf(S, n)) = n
  <2>1. \E i \in S : Rank(S, i) = n
    BY RankCounts
  <2>2. NthOf(S, n) = CHOOSE i \in S : Rank(S, i) = n
    BY DEF NthOf, Rank
  <2> QED
    BY <2>1, <2>2
<1>3. ASSUME NEW m \in 1..Cardinality(S), NEW n \in 1..Cardinality(S), m < n
      PROVE  NthOf(S, m) < NthOf(S, n)
  <2> DEFINE i == NthOf(S, m)
             k == NthOf(S, n)
  <2>1. i \in S /\ k \in S /\ Rank(S, i) = m /\ Rank(S, k) = n
    BY <1>2
  <2> HIDE DEF i, k
  <2>2. ~(k < i) /\ k # i
    <3>1. k < i => n < m
      BY <2>1, RankCounts
    <3> QED
      BY <1>1, <1>3, <2>1, <3>1
  <2>3. i < k
    BY <2>1, <2>2
  <2> QED
    BY <2>3 DEF i, k
<1>4. ASSUME NEW i \in S
      PROVE  \E n \in 1..Cardinality(S) : NthOf(S, n) = i
  <2> DEFINE k == NthOf(S, Rank(S, i))
  <2>1. Rank(S, i) \in 1..Cardinality(S)
    BY RankCounts
  <2>2. k \in S /\ Rank(S, k) = Rank(S, i)
    BY <1>2, <2>1
  <2> HIDE DEF k
  <2>3. k = i
    <3>1. ~(k < i) /\ ~(i < k)
      BY <1>1, <2>1, <2>2, RankCounts
    <3> QED
      BY <2>2, <3>1
  <2> QED
    BY <2>1, <2>3 DEF k
<1> QED
  BY <1>1, <1>2, <1>3, <1>4

\* f says where in `all` the elements of `out` stand, each in a place of its own.
Places(f, out, all) ==
    /\ f \in [DOMAIN out -> DOMAIN all]
    /\ \A i \in DOMAIN out : out[i] = all[f[i]]
    /\ \A i, j \in DOMAIN out : f[i] = f[j] => i = j

\* They are these positions.
Covers(f, positions) == {f[i] : i \in DOMAIN f} = positions

\* What is kept of a sequence stands there in the same order.
LEMMA KeptPlaced ==
    ASSUME NEW T, NEW seq \in Seq(T), NEW S \in SUBSET DOMAIN seq
    PROVE  /\ Kept(seq, S) \in Seq(T)
           /\ \E f : /\ Places(f, Kept(seq, S), seq)
                     /\ Covers(f, S)
                     /\ \A i, j \in DOMAIN Kept(seq, S) : i < j => f[i] < f[j]
<1> DEFINE n == Cardinality(S)
           out == Kept(seq, S)
           f == [i \in 1..n |-> NthOf(S, i)]
<1>1. /\ Len(seq) \in Nat /\ DOMAIN seq = 1..Len(seq)
      /\ \A i \in DOMAIN seq : seq[i] \in T
  BY LenProperties
<1>2. /\ n \in Nat
      /\ \A i \in 1..n : NthOf(S, i) \in S
      /\ \A i, j \in 1..n : i < j => NthOf(S, i) < NthOf(S, j)
      /\ \A p \in S : \E i \in 1..n : NthOf(S, i) = p
  BY <1>1, NthOfAscends
<1>3. out = [i \in 1..n |-> seq[f[i]]]
  BY DEF Kept
<1>4. /\ DOMAIN f = 1..n
      /\ \A i \in 1..n : f[i] \in S
      /\ \A i, j \in 1..n : i < j => f[i] < f[j]
      /\ \A p \in S : \E i \in 1..n : f[i] = p
  BY <1>2
<1>a. f \in [1..n -> S]
  BY <1>2
<1> HIDE DEF f, n, out
<1>5. /\ DOMAIN out = 1..n
      /\ \A i \in 1..n : out[i] = seq[f[i]] /\ seq[f[i]] \in T
  BY <1>1, <1>3, <1>4
<1>6. out \in Seq(T)
  <2>1. out \in [1..n -> T]
    BY <1>1, <1>3, <1>4
  <2> QED
    BY <1>2, <2>1, SeqDef
<1>7. \A i, j \in 1..n : f[i] = f[j] => i = j
  <2> SUFFICES ASSUME NEW i \in 1..n, NEW j \in 1..n, i < j
               PROVE  f[i] # f[j]
    BY <1>2
  <2>1. f[i] \in Nat /\ f[j] \in Nat
    BY <1>1, <1>4
  <2> QED
    BY <1>4, <2>1
<1>8. Places(f, out, seq)
  BY <1>5, <1>7, <1>a DEF Places
<1>9. Covers(f, S)
  BY <1>4 DEF Covers
<1> QED
  BY <1>4, <1>5, <1>6, <1>8, <1>9 DEF out

\* Two places after each other.
LEMMA PlacesCompose ==
    ASSUME NEW a, NEW b, NEW c, NEW f, NEW g, Places(f, b, a), Places(g, c, b)
    PROVE  Places([i \in DOMAIN c |-> f[g[i]]], c, a)
  BY DEF Places

\* The watchlist stage moves everything, loses nothing and puts what is watched first.
LEMMA WatchlistPlaced ==
    ASSUME NEW T, NEW seq \in Seq(T), NEW s
    PROVE  LET out == PrioritizeWatchlist(seq, s)
               Ahead(e) == e.symbol \in s.watchlist
           IN /\ out \in Seq(T)
              /\ \E f : /\ Places(f, out, seq)
                        /\ Covers(f, DOMAIN seq)
                        /\ \A i, j \in DOMAIN out : i < j =>
                             \/ Ahead(out[i]) /\ ~Ahead(out[j])
                             \/ (Ahead(out[i]) <=> Ahead(out[j])) /\ f[i] < f[j]
<1> DEFINE out == PrioritizeWatchlist(seq, s)
           Ahead(e) == e.symbol \in s.watchlist
           A == {i \in DOMAIN seq : seq[i].symbol \in s.watchlist}
           B == DOMAIN seq \ A
           a == Kept(seq, A)
           b == Kept(seq, B)
<1>1. PICK f : /\ Places(f, a, seq) /\ Covers(f, A)
               /\ \A i, j \in DOMAIN a : i < j => f[i] < f[j]
  BY KeptPlaced, A \in SUBSET DOMAIN seq
<1>2. PICK g : /\ Places(g, b, seq) /\ Covers(g, B)
               /\ \A i, j \in DOMAIN b : i < j => g[i] < g[j]
  BY KeptPlaced, B \in SUBSET DOMAIN seq
<1>3. a \in Seq(T) /\ b \in Seq(T)
  BY KeptPlaced, A \in SUBSET DOMAIN seq, B \in SUBSET DOMAIN seq
<1>4. out = a \o b
  BY DEF PrioritizeWatchlist
<1>5. /\ A \cup B = DOMAIN seq
      /\ \A i \in A : i \in DOMAIN seq /\ Ahead(seq[i])
      /\ \A i \in B : i \in DOMAIN seq /\ ~Ahead(seq[i])
  OBVIOUS
<1> HIDE DEF A, B, a, b, out
<1> DEFINE m == Len(a)
           n == Len(b)
           h == [i \in 1..(m + n) |-> IF i <= m THEN f[i] ELSE g[i - m]]
<1>6. /\ m \in Nat /\ DOMAIN a = 1..m
      /\ n \in Nat /\ DOMAIN b = 1..n
  BY <1>3, LenProperties
<1>7. /\ out \in Seq(T) /\ Len(out) = m + n /\ DOMAIN out = 1..(m + n)
      /\ \A i \in 1..(m + n) : out[i] = IF i <= m THEN a[i] ELSE b[i - m]
  BY <1>3, <1>4, ConcatProperties, LenProperties
<1>8. /\ \A i \in 1..m : f[i] \in A /\ a[i] = seq[f[i]]
      /\ \A i, j \in 1..m : f[i] = f[j] => i = j
      /\ \A p \in A : \E i \in 1..m : f[i] = p
      /\ \A i \in 1..n : g[i] \in B /\ b[i] = seq[g[i]]
      /\ \A i, j \in 1..n : g[i] = g[j] => i = j
      /\ \A p \in B : \E i \in 1..n : g[i] = p
  <2>1. /\ \A i \in 1..m : f[i] \in A /\ a[i] = seq[f[i]]
        /\ \A i, j \in 1..m : f[i] = f[j] => i = j
        /\ \A p \in A : \E i \in 1..m : f[i] = p
    BY <1>1, <1>6 DEF Places, Covers
  <2>2. /\ \A i \in 1..n : g[i] \in B /\ b[i] = seq[g[i]]
        /\ \A i, j \in 1..n : g[i] = g[j] => i = j
        /\ \A p \in B : \E i \in 1..n : g[i] = p
    BY <1>2, <1>6 DEF Places, Covers
  <2> QED
    BY <2>1, <2>2
<1>9. \A i \in 1..(m + n) :
        \/ i \in 1..m /\ h[i] = f[i] /\ out[i] = a[i]
        \/ i - m \in 1..n /\ i > m /\ h[i] = g[i - m] /\ out[i] = b[i - m]
  BY <1>6, <1>7
<1>10. DOMAIN h = 1..(m + n)
  OBVIOUS
<1> HIDE DEF h, m, n, Ahead
<1>11. ASSUME NEW i \in 1..(m + n)
       PROVE  /\ h[i] \in DOMAIN seq
              /\ out[i] = seq[h[i]]
              /\ i \in 1..m => h[i] \in A /\ Ahead(out[i])
              /\ i \notin 1..m => h[i] \in B /\ ~Ahead(out[i])
  <2>1. CASE i \in 1..m
    <3>1. h[i] = f[i] /\ out[i] = a[i]
      BY <1>6, <1>9, <2>1
    <3> QED
      BY <1>5, <1>8, <2>1, <3>1
  <2>2. CASE i \notin 1..m
    <3>1. i - m \in 1..n /\ h[i] = g[i - m] /\ out[i] = b[i - m]
      BY <1>9, <2>2
    <3>2. g[i - m] \in B /\ b[i - m] = seq[g[i - m]]
      BY <1>8, <3>1
    <3> QED
      BY <1>5, <2>2, <3>1, <3>2
  <2> QED
    BY <2>1, <2>2
<1>12. A \cap B = {}
  BY DEF B
<1>13. \A i, j \in 1..(m + n) : h[i] = h[j] => i = j
  <2> SUFFICES ASSUME NEW i \in 1..(m + n), NEW j \in 1..(m + n), h[i] = h[j]
               PROVE  i = j
    OBVIOUS
  <2>1. CASE i \in 1..m /\ j \in 1..m
    BY <1>6, <1>8, <1>9, <2>1
  <2>2. CASE i \notin 1..m /\ j \notin 1..m
    <3>1. i - m \in 1..n /\ j - m \in 1..n /\ g[i - m] = g[j - m]
      BY <1>9, <2>2
    <3>2. i - m = j - m
      BY <1>8, <3>1
    <3> QED
      BY <1>6, <3>2
  <2> QED
    BY <1>11, <1>12, <2>1, <2>2
<1>14. \A p \in DOMAIN seq : \E i \in 1..(m + n) : h[i] = p
  <2> SUFFICES ASSUME NEW p \in DOMAIN seq
               PROVE  \E i \in 1..(m + n) : h[i] = p
    OBVIOUS
  <2>1. CASE p \in A
    <3> PICK i \in 1..m : f[i] = p
      BY <1>8, <2>1
    <3>1. i \in 1..(m + n) /\ i <= m
      BY <1>6
    <3> QED
      BY <3>1 DEF h
  <2>2. CASE p \in B
    <3> PICK i \in 1..n : g[i] = p
      BY <1>8, <2>2
    <3>1. i + m \in 1..(m + n) /\ ~(i + m <= m) /\ (i + m) - m = i
      BY <1>6
    <3> QED
      BY <3>1 DEF h
  <2> QED
    BY <1>5, <2>1, <2>2
<1>15. ASSUME NEW i \in 1..(m + n), NEW j \in 1..(m + n), i < j
       PROVE  \/ Ahead(out[i]) /\ ~Ahead(out[j])
              \/ (Ahead(out[i]) <=> Ahead(out[j])) /\ h[i] < h[j]
  <2>1. CASE j \in 1..m
    <3>1. i \in 1..m /\ f[i] < f[j]
      BY <1>1, <1>6, <1>15, <2>1
    <3>2. h[i] = f[i] /\ h[j] = f[j]
      BY <1>6, <1>9, <2>1, <3>1
    <3> QED
      BY <1>11, <2>1, <3>1, <3>2
  <2>2. CASE i \in 1..m /\ j \notin 1..m
    BY <1>11, <2>2
  <2>3. CASE i \notin 1..m
    <3>1. j \notin 1..m /\ i - m < j - m
      BY <1>6, <1>15, <2>3
    <3>2. i - m \in 1..n /\ j - m \in 1..n /\ h[i] = g[i - m] /\ h[j] = g[j - m]
      BY <1>9, <2>3, <3>1
    <3>3. h[i] < h[j]
      BY <1>2, <1>6, <3>1, <3>2
    <3> QED
      BY <1>11, <2>3, <3>1, <3>3
  <2> QED
    BY <2>1, <2>2, <2>3
<1>16. Places(h, out, seq)
  <2>1. h = [i \in 1..(m + n) |-> h[i]]
    BY DEF h
  <2> QED
    BY <1>7, <1>11, <1>13, <2>1 DEF Places
<1>17. Covers(h, DOMAIN seq)
  BY <1>10, <1>11, <1>14 DEF Covers
<1> QED
  BY <1>7, <1>15, <1>16, <1>17 DEF out, Ahead

\* The whole chain: what passes every stage keeps its place, but for what is watched.
LEMMA ChainPlaced ==
    ASSUME NEW T, NEW all \in Seq(T), NEW s
    PROVE  LET out == RunFilterChain(all, s)
               Ahead(e) == e.symbol \in s.watchlist
           IN /\ out \in Seq(T)
              /\ \E f : /\ Places(f, out, all)
                        /\ Covers(f, {p \in DOMAIN all : /\ BeforeWatchlist(all[p], s)
                                                         /\ PassesShortInterest(all[p], s)})
                        /\ \A i, j \in DOMAIN out : i < j =>
                             \/ Ahead(out[i]) /\ ~Ahead(out[j])
                             \/ (Ahead(out[i]) <=> Ahead(out[j])) /\ f[i] < f[j]
<1> DEFINE Ahead(e) == e.symbol \in s.watchlist
           P == {p \in DOMAIN all : BeforeWatchlist(all[p], s)}
           kept == Kept(all, P)
           ordered == PrioritizeWatchlist(kept, s)
           Q == {i \in DOMAIN ordered : PassesShortInterest(ordered[i], s)}
           out == Kept(ordered, Q)
<1>1. RunFilterChain(all, s) = out
  BY DEF RunFilterChain
<1>2. P \in SUBSET DOMAIN all /\ Q \in SUBSET DOMAIN ordered
  OBVIOUS
<1>3. PICK f : /\ Places(f, kept, all) /\ Covers(f, P)
               /\ \A i, j \in DOMAIN kept : i < j => f[i] < f[j]
  BY <1>2, KeptPlaced
<1>4. kept \in Seq(T)
  BY <1>2, KeptPlaced
<1>5. /\ ordered \in Seq(T)
      /\ \E g : /\ Places(g, ordered, kept) /\ Covers(g, DOMAIN kept)
                /\ \A i, j \in DOMAIN ordered : i < j =>
                     \/ Ahead(ordered[i]) /\ ~Ahead(ordered[j])
                     \/ (Ahead(ordered[i]) <=> Ahead(ordered[j])) /\ g[i] < g[j]
  <2> HIDE DEF kept
  <2> QED
    BY <1>4, WatchlistPlaced
<1>6. PICK g : /\ Places(g, ordered, kept) /\ Covers(g, DOMAIN kept)
               /\ \A i, j \in DOMAIN ordered : i < j =>
                    \/ Ahead(ordered[i]) /\ ~Ahead(ordered[j])
                    \/ (Ahead(ordered[i]) <=> Ahead(ordered[j])) /\ g[i] < g[j]
  BY <1>5
<1>7. PICK h : /\ Places(h, out, ordered) /\ Covers(h, Q)
               /\ \A i, j \in DOMAIN out : i < j => h[i] < h[j]
  <2> HIDE DEF kept, ordered, Q
  <2> QED
    BY <1>2, <1>5, KeptPlaced
<1>8. out \in Seq(T)
  <2> HIDE DEF kept, ordered, Q
  <2> QED
    BY <1>2, <1>5, KeptPlaced
<1>9. /\ \A p \in P : p \in DOMAIN all /\ BeforeWatchlist(all[p], s)
      /\ \A p \in DOMAIN all : BeforeWatchlist(all[p], s) => p \in P
      /\ \A i \in Q : i \in DOMAIN ordered /\ PassesShortInterest(ordered[i], s)
      /\ \A i \in DOMAIN ordered : PassesShortInterest(ordered[i], s) => i \in Q
  OBVIOUS
<1> HIDE DEF P, Q, kept, ordered, out
<1> DEFINE gh == [i \in DOMAIN out |-> g[h[i]]]
           fgh == [i \in DOMAIN out |-> f[gh[i]]]
           G == {p \in DOMAIN all : /\ BeforeWatchlist(all[p], s)
                                    /\ PassesShortInterest(all[p], s)}
<1>10. Places(gh, out, kept)
  BY <1>6, <1>7, PlacesCompose
<1>11. Places(fgh, out, all)
  <2> HIDE DEF gh
  <2> QED
    BY <1>3, <1>10, PlacesCompose
<1>12. \A i \in DOMAIN out : /\ h[i] \in Q /\ g[h[i]] \in DOMAIN kept
                             /\ gh[i] = g[h[i]] /\ fgh[i] = f[g[h[i]]]
                             /\ f[g[h[i]]] \in P
                             /\ out[i] = ordered[h[i]] /\ out[i] = all[fgh[i]]
  <2>1. \A i \in DOMAIN out : h[i] \in Q /\ h[i] \in DOMAIN ordered /\ out[i] = ordered[h[i]]
    BY <1>7 DEF Places, Covers
  <2>2. \A i \in DOMAIN ordered : g[i] \in DOMAIN kept
    BY <1>6 DEF Places
  <2>3. \A i \in DOMAIN kept : f[i] \in P
    BY <1>3 DEF Places, Covers
  <2>4. \A i \in DOMAIN out : out[i] = all[fgh[i]]
    BY <1>11 DEF Places
  <2> QED
    BY <2>1, <2>2, <2>3, <2>4
<1>13. ASSUME NEW p \in G
       PROVE  \E i \in DOMAIN out : fgh[i] = p
  <2>1. p \in P
    BY <1>9
  <2>2. PICK k \in DOMAIN kept : f[k] = p
    BY <1>3, <2>1 DEF Covers, Places
  <2>3. PICK n \in DOMAIN ordered : g[n] = k
    BY <1>6 DEF Covers, Places
  <2>4. ordered[n] = all[p]
    BY <1>3, <1>6, <2>2, <2>3 DEF Places
  <2>5. n \in Q
    BY <1>9, <2>4
  <2>6. PICK i \in DOMAIN out : h[i] = n
    BY <1>7, <2>5 DEF Covers, Places
  <2> QED
    BY <2>2, <2>3, <2>6
<1>14. \A i \in DOMAIN out : fgh[i] \in G
  <2> SUFFICES ASSUME NEW i \in DOMAIN out
               PROVE  fgh[i] \in G
    OBVIOUS
  <2>1. /\ fgh[i] \in P /\ h[i] \in Q
        /\ all[fgh[i]] = ordered[h[i]]
    BY <1>12
  <2> HIDE DEF fgh
  <2> QED
    BY <1>9, <2>1
<1>15. Covers(fgh, G)
  <2>1. DOMAIN fgh = DOMAIN out
    OBVIOUS
  <2> HIDE DEF fgh, G
  <2> QED
    BY <1>13, <1>14, <2>1 DEF Covers
<1>16. ASSUME NEW i \in DOMAIN out, NEW j \in DOMAIN out, i < j
       PROVE  \/ Ahead(out[i]) /\ ~Ahead(out[j])
              \/ (Ahead(out[i]) <=> Ahead(out[j])) /\ fgh[i] < fgh[j]
  <2>1. h[i] < h[j]
    BY <1>7, <1>16
  <2>2. h[i] \in DOMAIN ordered /\ h[j] \in DOMAIN ordered
    BY <1>9, <1>12
  <2> HIDE DEF Ahead, fgh
  <2>3. \/ Ahead(out[i]) /\ ~Ahead(out[j])
        \/ (Ahead(out[i]) <=> Ahead(out[j])) /\ g[h[i]] < g[h[j]]
    BY <1>6, <1>12, <2>1, <2>2
  <2>4. g[h[i]] < g[h[j]] => f[g[h[i]]] < f[g[h[j]]]
    BY <1>3, <1>12
  <2> QED
    BY <1>12, <2>3, <2>4
<1> HIDE DEF fgh
<1> QED
  BY <1>1, <1>8, <1>11, <1>15, <1>16

\* A sequence whose elements stand at some positions of another holds an element as
\* often as these positions do.
LEMMA OccurrencesPlaced ==
    ASSUME NEW T, NEW all \in Seq(T), NEW out, NEW G, NEW f, NEW e,
           Places(f, out, all), Covers(f, G)
    PROVE  Occurrences(e, out) = Cardinality({p \in G : all[p] = e})
<1> DEFINE I == {i \in DOMAIN out : out[i] = e}
           J == {p \in G : all[p] = e}
           g == [i \in I |-> f[i]]
<1>1. /\ DOMAIN f = DOMAIN out
      /\ G \in SUBSET DOMAIN all
      /\ \A i \in DOMAIN out : f[i] \in G /\ out[i] = all[f[i]]
      /\ \A p \in G : \E i \in DOMAIN out : f[i] = p
      /\ \A i, j \in DOMAIN out : f[i] = f[j] => i = j
  BY DEF Places, Covers
<1>2. g \in [I -> J]
  BY <1>1
<1>3. \A i, j \in I : g[i] = g[j] => i = j
  BY <1>1
<1>4. \A p \in J : \E i \in I : g[i] = p
  BY <1>1
<1>5. IsFiniteSet(J)
  <2>1. Len(all) \in Nat /\ J \in SUBSET (1..Len(all))
    BY <1>1, LenProperties
  <2> QED
    BY <2>1, PositionsFinite
<1>6. Cardinality(I) = Cardinality(J)
  <2> HIDE DEF I, J, g
  <2>1. g \in Injection(I, J)
    BY <1>2, <1>3 DEF Injection, IsInjective
  <2>2. g \in Surjection(I, J)
    BY <1>2, <1>4 DEF Surjection
  <2> QED
    BY <1>5, <2>1, <2>2, FS_Injection
<1> QED
  BY <1>6 DEF Occurrences

-----------------------------------------------------------------------------
(* Joining sequences *)

\* A set of naturals has a least element.
LEMMA LeastNat ==
    ASSUME NEW T \in SUBSET Nat, T # {}
    PROVE  \E n \in T : \A m \in T : n <= m
<1>1. \E R : /\ IsWellFoundedOn(R, Nat)
             /\ \A x, y \in Nat : <<x, y>> \in R \/ y <= x
  <2> WITNESS OpToRel(<, Nat)
  <2>1. IsWellFoundedOn(OpToRel(<, Nat), Nat)
    BY NatLessThanWellFounded
  <2>2. \A x, y \in Nat : <<x, y>> \in OpToRel(<, Nat) \/ y <= x
    BY DEF OpToRel
  <2> QED
    BY <2>1, <2>2, Zenon
<1> PICK R : /\ IsWellFoundedOn(R, Nat)
             /\ \A x, y \in Nat : <<x, y>> \in R \/ y <= x
  BY <1>1
<1>2. T \subseteq Nat
  OBVIOUS
<1>a. IsWellFoundedOn(R, Nat)
  OBVIOUS
<1>b. \E n \in T : \A m \in T : ~(<<m, n>> \in R)
  BY <1>2, <1>a, WFMin
<1> QED
  BY <1>2, <1>b, Zenon

\* f is the recursive function of FlattenSeq for n sequences.
Flattens(f, seqs, n) ==
    f = [i \in 1..n |-> IF i = 1 THEN seqs[i] ELSE f[i - 1] \o seqs[i]]

\* There is such a function.
LEMMA FlattenExists ==
    ASSUME NEW seqs, NEW n \in Nat
    PROVE  \E f : Flattens(f, seqs, n)
<1> DEFINE B == {m \in 0..n : ~\E f : Flattens(f, seqs, m)}
<1> SUFFICES ASSUME B # {}
             PROVE  FALSE
  <2>1. B = {} => n \notin B
    OBVIOUS
  <2> QED
    BY <2>1
<1>1. PICK m \in B : \A k \in B : m <= k
  <2>1. B \in SUBSET Nat
    OBVIOUS
  <2> HIDE DEF B
  <2> QED
    BY <2>1, LeastNat
<1>2. CASE m = 0
  <2> DEFINE f == [i \in 1..0 |-> seqs[i]]
  <2>1. Flattens(f, seqs, 0)
    BY DEF Flattens
  <2> QED
    BY <1>2, <2>1
<1>3. CASE m # 0
  <2>1. /\ m \in Nat /\ m - 1 \in 0..n /\ ~(m <= m - 1)
    BY <1>3
  <2>2. m - 1 \notin B
    BY <1>1, <2>1
  <2>3. PICK g : Flattens(g, seqs, m - 1)
    BY <2>1, <2>2
  <2> DEFINE f == [i \in 1..m |-> IF i < m THEN g[i]
                                  ELSE IF m = 1 THEN seqs[m] ELSE g[m - 1] \o seqs[m]]
  <2>4. \A i \in 1..(m - 1) : g[i] = IF i = 1 THEN seqs[i] ELSE g[i - 1] \o seqs[i]
    BY <2>3 DEF Flattens
  <2>5. ASSUME NEW i \in 1..m
        PROVE  f[i] = IF i = 1 THEN seqs[i] ELSE f[i - 1] \o seqs[i]
    <3>1. CASE i = m
      BY <1>3, <2>1, <3>1
    <3>2. CASE i # m
      <4>1. i \in 1..(m - 1) /\ f[i] = g[i]
        BY <2>1, <3>2
      <4>2. CASE i = 1
        BY <2>4, <4>1, <4>2
      <4>3. CASE i # 1
        <5>1. i - 1 \in 1..m /\ f[i - 1] = g[i - 1]
          BY <2>1, <4>1, <4>3
        <5> HIDE DEF f
        <5> QED
          BY <2>4, <4>1, <4>3, <5>1
      <4> QED
        BY <4>2, <4>3
    <3> QED
      BY <3>1, <3>2
  <2>6. f = [i \in 1..m |-> f[i]]
    OBVIOUS
  <2> HIDE DEF f
  <2>7. Flattens(f, seqs, m)
    BY <2>5, <2>6 DEF Flattens
  <2> QED
    BY <2>7
<1> QED
  BY <1>2, <1>3

\* Sequences of elements of T, one after the other, are a sequence of elements of T.
LEMMA FlattenTyped ==
    ASSUME NEW T, NEW seqs \in Seq(Seq(T))
    PROVE  FlattenSeq(seqs) \in Seq(T)
<1> DEFINE n == Len(seqs)
<1>1. n \in Nat /\ seqs \in [1..n -> Seq(T)]
  BY LenProperties
<1>2. CASE n = 0
  <2>1. seqs \in Seq(T)
    BY <1>2, SeqDef, EmptySeq
  <2> QED
    BY <1>2, <2>1 DEF FlattenSeq
<1>3. CASE n # 0
  <2> DEFINE f == CHOOSE g : Flattens(g, seqs, n)
             B == {i \in 1..n : f[i] \notin Seq(T)}
  <2>1. FlattenSeq(seqs) = f[n]
    BY <1>3 DEF FlattenSeq, Flattens
  <2>2. Flattens(f, seqs, n)
    BY <1>1, FlattenExists
  <2> HIDE DEF f
  <2>3. \A i \in 1..n : f[i] = IF i = 1 THEN seqs[i] ELSE f[i - 1] \o seqs[i]
    BY <2>2 DEF Flattens
  <2>4. ASSUME B # {} PROVE FALSE
    <3>1. PICK i \in B : \A k \in B : i <= k
      <4>1. B \in SUBSET Nat
        OBVIOUS
      <4> HIDE DEF B
      <4> QED
        BY <2>4, <4>1, LeastNat
    <3>2. i \in 1..n /\ f[i] \notin Seq(T) /\ seqs[i] \in Seq(T)
      BY <1>1
    <3>3. i # 1
      BY <2>3, <3>2
    <3>4. i - 1 \in 1..n /\ ~(i <= i - 1)
      BY <1>1, <3>2, <3>3
    <3>5. f[i - 1] \in Seq(T)
      BY <3>1, <3>4
    <3>6. f[i] \in Seq(T)
      <4>1. f[i] = f[i - 1] \o seqs[i]
        BY <2>3, <3>2, <3>3
      <4> QED
        BY <3>2, <3>5, <4>1, ConcatProperties
    <3> QED
      BY <3>2, <3>6
  <2>5. f[n] \in Seq(T)
    BY <1>1, <1>3, <2>4
  <2> QED
    BY <2>1, <2>5
<1> QED
  BY <1>2, <1>3

\* SetToSeq puts a finite set into some order.
LEMMA SetToSeqTyped ==
    ASSUME NEW S, IsFiniteSet(S)
    PROVE  SetToSeq(S) \in Seq(S)
<1> DEFINE n == Cardinality(S)
<1>1. n \in Nat /\ ExistsBijection(1..n, S)
  BY FS_CardinalityType
<1>2. \E f \in [1..n -> S] : IsInjective(f)
  BY <1>1 DEF ExistsBijection, Bijection, Injection
<1>3. SetToSeq(S) \in [1..n -> S]
  BY <1>2 DEF SetToSeq
<1> QED
  BY <1>1, <1>3, SeqDef

-----------------------------------------------------------------------------
(* Entries and reasons *)

\* The entries a fetch produces: no label of TIER_B_SUB_SECTORS.
Clean == {e \in Entry : e.labels \cap TierB = {}}

\* The rows of one bucket.
BucketRows(rows) ==
    /\ DOMAIN rows \subseteq Symbols
    /\ IsFiniteSet(DOMAIN rows)
    /\ Cardinality(DOMAIN rows) <= Limit
    /\ \A x \in DOMAIN rows : rows[x] \in Clean

\* The screener lists no more symbols than it is asked for.
LEMMA ListedLimited ==
    ASSUME NEW b
    PROVE  IsFiniteSet(Listed(b)) /\ Cardinality(Listed(b)) <= Limit
<1> DEFINE N == Len(Listing)
           M == {k \in 1..N : Listing[k] \in Matches(b)}
           J == {j \in M : Rank(M, j) <= Limit}
           g == [j \in J |-> Rank(M, j)]
           h == [j \in J |-> Listing[j]]
<1>1. N \in Nat /\ DOMAIN Listing = 1..N /\ Limit \in Nat
  BY VendorAssumption, LenProperties
<1>2. M \in SUBSET (1..N) /\ J \in SUBSET M
  OBVIOUS
<1>3. IsFiniteSet(J) /\ Cardinality(J) \in Nat /\ Cardinality(M) \in Nat
  <2> HIDE DEF M, J
  <2> QED
    BY <1>1, <1>2, PositionsFinite
<1>4. /\ \A i \in M : Rank(M, i) \in 1..Cardinality(M)
      /\ \A i, k \in M : i < k => Rank(M, i) < Rank(M, k)
  <2> HIDE DEF M
  <2> QED
    BY <1>1, <1>2, RankCounts
<1>5. g \in Injection(J, 1..Limit)
  <2>1. g \in [J -> 1..Limit]
    <3> SUFFICES ASSUME NEW j \in J
                 PROVE  Rank(M, j) \in 1..Limit
      OBVIOUS
    <3>1. Rank(M, j) \in 1..Cardinality(M) /\ Rank(M, j) <= Limit
      BY <1>4
    <3> HIDE DEF M
    <3> QED
      BY <1>1, <1>3, <3>1
  <2>2. ASSUME NEW i \in J, NEW k \in J, i # k
        PROVE  g[i] # g[k]
    <3>1. /\ i \in M /\ k \in M
          /\ i \in Nat /\ k \in Nat
      OBVIOUS
    <3>2. Rank(M, i) \in Nat /\ Rank(M, k) \in Nat
      BY <1>3, <1>4, <3>1
    <3>3. i < k \/ k < i
      BY <2>2, <3>1
    <3>4. Rank(M, i) # Rank(M, k)
      <4> HIDE DEF M
      <4> QED
        BY <1>4, <3>1, <3>2, <3>3
    <3> QED
      BY <3>4
  <2> HIDE DEF g, J
  <2> QED
    BY <2>1, <2>2 DEF Injection, IsInjective
<1>6. Cardinality(J) <= Limit
  <2>1. IsFiniteSet(1..Limit) /\ Cardinality(1..Limit) = Limit
    BY <1>1, FS_Interval
  <2> HIDE DEF g, J
  <2> QED
    BY <1>5, <2>1, FS_Injection
<1>7. Listed(b) = {Listing[j] : j \in J}
  <2>1. ASSUME NEW j \in M
        PROVE  {k \in 1..j : Listing[k] \in Matches(b)} = {k \in M : k <= j}
    BY <1>1
  <2>2. {j \in DOMAIN Listing :
           /\ Listing[j] \in Matches(b)
           /\ Cardinality({k \in 1..j : Listing[k] \in Matches(b)}) <= Limit} = J
    BY <1>1, <2>1 DEF Rank
  <2> QED
    BY <2>2 DEF Listed
<1>8. h \in Surjection(J, Listed(b))
  <2> HIDE DEF J
  <2> QED
    BY <1>7 DEF Surjection
<1>9. IsFiniteSet(Listed(b)) /\ Cardinality(Listed(b)) <= Cardinality(J)
  <2> HIDE DEF h, J
  <2> QED
    BY <1>3, <1>8, FS_Surjection
<1>10. Cardinality(Listed(b)) \in Nat
  BY <1>9, FS_CardinalityType
<1> QED
  BY <1>1, <1>3, <1>6, <1>9, <1>10

\* A row of the screener is an entry.
LEMMA RowClean ==
    ASSUME NEW x \in Symbols, facts[x] \in Facts, facts[x] \in VendorFacts
    PROVE  Row(x) \in Clean
<1> DEFINE v == facts[x]
           cap == IF v.capShown THEN v.cap ELSE 0
<1>1. /\ v.sector \in Sectors /\ v.label \in Labels \cup {None} /\ v.cap \in Nat
      /\ v.capShown \in BOOLEAN
      /\ v.volume \in Nat
      /\ v.label # None => v.label \notin TierB
  BY VendorAssumption DEF Facts
<1>2. cap \in Nat
  BY <1>1
<1>3. /\ {v.label} \ {None} \in SUBSET Labels
      /\ ({v.label} \ {None}) \cap TierB = {}
  BY <1>1
<1>4. Row(x) = [symbol |-> x, sector |-> v.sector, labels |-> {v.label} \ {None},
                cap |-> cap, volume |-> v.volume,
                dividend |-> None, short |-> None, earnings |-> None]
  BY DEF Row
<1> HIDE DEF v, cap
<1>5. Row(x) \in Entry
  BY <1>1, <1>2, <1>3, <1>4 DEF Entry, Known
<1>6. Row(x).labels \cap TierB = {}
  BY <1>3, <1>4
<1> QED
  BY <1>5, <1>6 DEF Clean

\* Fundamentals leave an entry an entry.
LEMMA CompletedClean ==
    ASSUME NEW x \in Symbols, facts[x] \in Facts, NEW e \in Clean
    PROVE  Completed(e, x) \in Clean
<1> DEFINE v == facts[x]
<1>1. v.dividend \in Known /\ v.short \in Known /\ v.earnings \in Known
  BY DEF Facts
<1>2. e \in Entry /\ e.labels \cap TierB = {}
  BY DEF Clean
<1>3. Completed(e, x) = [symbol |-> e.symbol, sector |-> e.sector, labels |-> e.labels,
                         cap |-> e.cap, volume |-> e.volume, dividend |-> v.dividend,
                         short |-> v.short, earnings |-> v.earnings]
  <2>1. e = [symbol |-> e.symbol, sector |-> e.sector, labels |-> e.labels,
             cap |-> e.cap, volume |-> e.volume, dividend |-> e.dividend,
             short |-> e.short, earnings |-> e.earnings]
    BY <1>2 DEF Entry
  <2>2. Completed(e, x) = [e EXCEPT !.dividend = v.dividend, !.short = v.short,
                                    !.earnings = v.earnings]
    BY DEF Completed
  <2> HIDE DEF v
  <2> QED
    BY <2>1, <2>2
<1> HIDE DEF v
<1>4. Completed(e, x) \in Entry
  BY <1>1, <1>2, <1>3 DEF Entry
<1> QED
  BY <1>2, <1>3, <1>4 DEF Clean

\* The union of the buckets a scan has read is a sequence of entries.
LEMMA UnionTyped ==
    ASSUME NEW got, IsFiniteSet(DOMAIN got), \A b \in DOMAIN got : BucketRows(got[b])
    PROVE  Union(got) \in Seq(Clean)
<1> DEFINE R(rows) == LET listed == Kept(Listing, {i \in DOMAIN Listing :
                                                     Listing[i] \in DOMAIN rows})
                      IN [i \in DOMAIN listed |-> rows[listed[i]]]
           order == SetToSeq(DOMAIN got)
<1>1. ASSUME NEW rows, BucketRows(rows)
      PROVE  R(rows) \in Seq(Clean)
  <2> DEFINE S == {i \in DOMAIN Listing : Listing[i] \in DOMAIN rows}
             listed == Kept(Listing, S)
  <2>1. Listing \in Seq(Symbols) /\ S \in SUBSET DOMAIN Listing
    BY VendorAssumption
  <2>2. /\ listed \in Seq(Symbols)
        /\ \E f : Places(f, listed, Listing) /\ Covers(f, S)
    <3> HIDE DEF S
    <3> QED
      BY <2>1, KeptPlaced
  <2>3. \A i \in DOMAIN listed : listed[i] \in DOMAIN rows
    <3> HIDE DEF listed
    <3> QED
      BY <2>2 DEF Places, Covers
  <2> HIDE DEF listed
  <2>4. Len(listed) \in Nat /\ DOMAIN listed = 1..Len(listed)
    BY <2>2, LenProperties
  <2>5. [i \in DOMAIN listed |-> rows[listed[i]]] \in [1..Len(listed) -> Clean]
    BY <1>1, <2>3, <2>4 DEF BucketRows
  <2>6. [i \in DOMAIN listed |-> rows[listed[i]]] \in Seq(Clean)
    BY <2>4, <2>5, SeqDef
  <2> QED
    BY <2>6 DEF listed
<1>2. order \in Seq(DOMAIN got)
  BY SetToSeqTyped
<1>3. Union(got) = FlattenSeq([i \in DOMAIN order |-> R(got[order[i]])])
  BY DEF Union
<1> HIDE DEF R, order
<1>4. Len(order) \in Nat /\ DOMAIN order = 1..Len(order)
      /\ \A i \in DOMAIN order : order[i] \in DOMAIN got
  BY <1>2, LenProperties
<1>5. [i \in DOMAIN order |-> R(got[order[i]])] \in [1..Len(order) -> Seq(Clean)]
  BY <1>1, <1>4
<1>6. [i \in DOMAIN order |-> R(got[order[i]])] \in Seq(Seq(Clean))
  BY <1>4, <1>5, SeqDef
<1> QED
  BY <1>3, <1>6, FlattenTyped

\* A stage drops an entry exactly when its reason speaks against it.
LEMMA StagesAreReasons ==
    ASSUME NEW e \in Clean, NEW s \in Settings
    PROVE  /\ PassesSector(e, s) <=> "sub-sector" \notin Reasons(e, s)
           /\ PassesMarketCap(e, s) <=> "market cap" \notin Reasons(e, s)
           /\ PassesLiquidity(e, s) <=> "liquidity" \notin Reasons(e, s)
           /\ PassesEarnings(e, s) <=> "earnings" \notin Reasons(e, s)
           /\ PassesDividend(e, s) <=> "dividend" \notin Reasons(e, s)
           /\ PassesExclusion(e, s) <=> "excluded" \notin Reasons(e, s)
           /\ PassesShortInterest(e, s) <=> "short interest" \notin Reasons(e, s)
<1>1. /\ e.labels \cap TierB = {}
      /\ e.cap \in Nat /\ e.volume \in Nat
      /\ e.dividend \in Nat \cup {None} /\ e.short \in Nat \cup {None}
      /\ e.earnings \in Nat \cup {None}
  BY DEF Clean, Entry, Known
<1>2. /\ s.tiers \subseteq CapTiers /\ s.liquidity \in LiquidityTiers
      /\ s.dividend \in {"NO_PREFERENCE", "PREFER_DIVIDEND", "EXCLUDE_DIVIDEND"}
      /\ s.short \in {"IGNORE", "AVOID_HIGH_SHORT_INTEREST", "TARGET_SHORT_SQUEEZE"}
  BY DEF Settings
<1>3. /\ \A t \in CapTiers : Band[t].min \in Nat /\ Band[t].max \in Nat \cup {None}
      /\ MinCap \in Nat /\ MinVolume \in Nat /\ MinVolumeOf[s.liquidity] \in Nat
      /\ Today \in Nat /\ StandDownWindow \in Nat /\ HighShort \in Nat /\ None \notin Nat
  BY <1>2, ChainAssumption
<1>4. PassesSector(e, s) <=> "sub-sector" \notin Reasons(e, s)
  <2>1. "sub-sector" \in Reasons(e, s) <=>
          /\ s.subSectors # {}
          /\ e.labels \cap s.subSectors = {}
          /\ e.sector \notin {ParentSector[l] : l \in s.subSectors \cap TierB}
    BY DEF Reasons
  <2>2. (e.labels \cap s.subSectors = {}) <=> ~\E l \in s.subSectors \ TierB : l \in e.labels
    BY <1>1
  <2> QED
    BY <2>1, <2>2 DEF PassesSector
<1>5. PassesMarketCap(e, s) <=> "market cap" \notin Reasons(e, s)
  <2>1. "market cap" \in Reasons(e, s) <=>
          \/ e.cap < MinCap
          \/ \A t \in s.tiers :
               e.cap < Band[t].min \/ (Band[t].max # None /\ e.cap >= Band[t].max)
    BY DEF Reasons
  <2>2. ASSUME NEW t \in s.tiers
        PROVE  InBand(e.cap, t) <=>
                 ~(e.cap < Band[t].min \/ (Band[t].max # None /\ e.cap >= Band[t].max))
    BY <1>1, <1>2, <1>3 DEF InBand
  <2>3. e.cap >= MinCap <=> ~(e.cap < MinCap)
    BY <1>1, <1>3
  <2> QED
    BY <2>1, <2>2, <2>3 DEF PassesMarketCap
<1>6. PassesLiquidity(e, s) <=> "liquidity" \notin Reasons(e, s)
  <2>1. "liquidity" \in Reasons(e, s) <=>
          e.volume < MinVolumeOf[s.liquidity] \/ e.volume < MinVolume
    BY DEF Reasons
  <2> QED
    BY <1>1, <1>3, <2>1 DEF PassesLiquidity
<1>7. PassesEarnings(e, s) <=> "earnings" \notin Reasons(e, s)
  <2>1. "earnings" \in Reasons(e, s) <=>
          /\ s.earnings = "STAND_DOWN"
          /\ e.earnings # None
          /\ e.earnings <= Today + StandDownWindow
    BY DEF Reasons
  <2> QED
    BY <1>1, <1>3, <2>1 DEF PassesEarnings
<1>8. PassesDividend(e, s) <=> "dividend" \notin Reasons(e, s)
  <2>1. "dividend" \in Reasons(e, s) <=>
          \/ s.dividend = "PREFER_DIVIDEND" /\ (e.dividend = None \/ e.dividend = 0)
          \/ s.dividend = "EXCLUDE_DIVIDEND" /\ e.dividend # None /\ e.dividend > 0
    BY DEF Reasons
  <2>2. CASE s.dividend = "NO_PREFERENCE"
    BY <2>1, <2>2 DEF PassesDividend
  <2>3. CASE s.dividend = "PREFER_DIVIDEND"
    BY <2>1, <2>3 DEF PassesDividend
  <2>4. CASE s.dividend = "EXCLUDE_DIVIDEND"
    <3>1. PassesDividend(e, s) <=> e.dividend \in {None, 0}
      BY <2>4 DEF PassesDividend
    <3> QED
      BY <1>1, <1>3, <2>1, <2>4, <3>1
  <2> QED
    BY <1>2, <2>2, <2>3, <2>4
<1>9. PassesExclusion(e, s) <=> "excluded" \notin Reasons(e, s)
  BY DEF PassesExclusion, Reasons
<1>10. PassesShortInterest(e, s) <=> "short interest" \notin Reasons(e, s)
  <2>1. "short interest" \in Reasons(e, s) <=>
          \/ s.short = "AVOID_HIGH_SHORT_INTEREST" /\ e.short # None /\ e.short > HighShort
          \/ s.short = "TARGET_SHORT_SQUEEZE" /\ (e.short = None \/ e.short <= HighShort)
    BY DEF Reasons
  <2>0. /\ e.short # None => (e.short > HighShort <=> ~(e.short <= HighShort))
        /\ "AVOID_HIGH_SHORT_INTEREST" # "TARGET_SHORT_SQUEEZE"
    BY <1>1, <1>3
  <2>2. CASE s.short = "IGNORE"
    BY <2>1, <2>2 DEF PassesShortInterest
  <2>3. CASE s.short = "AVOID_HIGH_SHORT_INTEREST"
    <3>1. PassesShortInterest(e, s) <=> e.short = None \/ e.short <= HighShort
      BY <2>3 DEF PassesShortInterest
    <3> QED
      BY <2>0, <2>1, <2>3, <3>1, Zenon
  <2>4. CASE s.short = "TARGET_SHORT_SQUEEZE"
    <3>1. PassesShortInterest(e, s) <=> e.short # None /\ e.short > HighShort
      BY <2>4 DEF PassesShortInterest
    <3> QED
      BY <2>0, <2>1, <2>4, <3>1, Zenon
  <2> QED
    BY <1>2, <2>2, <2>3, <2>4
<1> QED
  BY <1>4, <1>5, <1>6, <1>7, <1>8, <1>9, <1>10

\* An entry passes the whole chain exactly when nothing speaks against it.
LEMMA PassesWithoutReason ==
    ASSUME NEW e \in Clean, NEW s \in Settings
    PROVE  BeforeWatchlist(e, s) /\ PassesShortInterest(e, s) <=> Reasons(e, s) = {}
<1>1. Reasons(e, s) \subseteq {"sub-sector", "market cap", "liquidity", "earnings",
                               "dividend", "excluded", "short interest"}
  BY DEF Reasons
<1> QED
  BY <1>1, StagesAreReasons DEF BeforeWatchlist

\* What the chain makes of the entries a scan has read.
LEMMA ChainCriteria ==
    ASSUME NEW all \in Seq(Clean), NEW s \in Settings
    PROVE  LET out == RunFilterChain(all, s)
               Ahead(e) == e.symbol \in s.watchlist
           IN /\ out \in Seq(Clean)
              /\ \A e \in Members(all) \cup Members(out) :
                   Occurrences(e, out) =
                     IF Reasons(e, s) = {} THEN Occurrences(e, all) ELSE 0
              /\ \A i, j \in DOMAIN out : i < j =>
                   \/ Ahead(out[i]) /\ ~Ahead(out[j])
                   \/ /\ Ahead(out[i]) = Ahead(out[j])
                      /\ \E p, q \in DOMAIN all : p < q /\ all[p] = out[i] /\ all[q] = out[j]
<1> DEFINE out == RunFilterChain(all, s)
           Ahead(e) == e.symbol \in s.watchlist
           G == {p \in DOMAIN all : /\ BeforeWatchlist(all[p], s)
                                    /\ PassesShortInterest(all[p], s)}
<1>1. out \in Seq(Clean)
  BY ChainPlaced
<1>2. PICK f : /\ Places(f, out, all)
               /\ Covers(f, G)
               /\ \A i, j \in DOMAIN out : i < j =>
                    \/ Ahead(out[i]) /\ ~Ahead(out[j])
                    \/ (Ahead(out[i]) <=> Ahead(out[j])) /\ f[i] < f[j]
  BY ChainPlaced
<1>3. \A p \in DOMAIN all : all[p] \in Clean
  BY LenProperties
<1>4. \A p \in DOMAIN all : p \in G <=> Reasons(all[p], s) = {}
  BY <1>3, PassesWithoutReason
<1> HIDE DEF out
<1>5. ASSUME NEW e \in Members(all) \cup Members(out)
      PROVE  Occurrences(e, out) = IF Reasons(e, s) = {} THEN Occurrences(e, all) ELSE 0
  <2>1. Occurrences(e, out) = Cardinality({p \in G : all[p] = e})
    <3> HIDE DEF G
    <3> QED
      BY <1>2, OccurrencesPlaced
  <2>2. CASE Reasons(e, s) = {}
    <3>1. {p \in G : all[p] = e} = {p \in DOMAIN all : all[p] = e}
      BY <1>4, <2>2
    <3> QED
      BY <2>1, <2>2, <3>1 DEF Occurrences
  <2>3. CASE Reasons(e, s) # {}
    <3>1. {p \in G : all[p] = e} = {}
      BY <1>4, <2>3
    <3> QED
      BY <2>1, <2>3, <3>1, FS_EmptySet
  <2> QED
    BY <2>2, <2>3
<1>6. ASSUME NEW i \in DOMAIN out, NEW j \in DOMAIN out, i < j
      PROVE  \/ Ahead(out[i]) /\ ~Ahead(out[j])
             \/ /\ Ahead(out[i]) = Ahead(out[j])
                /\ \E p, q \in DOMAIN all : p < q /\ all[p] = out[i] /\ all[q] = out[j]
  <2>1. /\ f[i] \in DOMAIN all /\ all[f[i]] = out[i]
        /\ f[j] \in DOMAIN all /\ all[f[j]] = out[j]
    BY <1>2 DEF Places
  <2>2. \/ Ahead(out[i]) /\ ~Ahead(out[j])
        \/ (Ahead(out[i]) <=> Ahead(out[j])) /\ f[i] < f[j]
    BY <1>2, <1>6
  <2>3. f[i] < f[j] =>
          \E p, q \in DOMAIN all : p < q /\ all[p] = out[i] /\ all[q] = out[j]
    BY <2>1
  <2>4. (Ahead(out[i]) <=> Ahead(out[j])) => (Ahead(out[i]) = Ahead(out[j]))
    OBVIOUS
  <2> QED
    BY <2>2, <2>3, <2>4
<1> QED
  BY <1>1, <1>5, <1>6 DEF out

-----------------------------------------------------------------------------
(* Types, and what a scan ends with *)

\* Types of the fetches and of the cache.
FetchTypes ==
    /\ moves \in 0..MaxMoves /\ moved \subseteq Symbols /\ refused \subseteq Symbols
    /\ fetches \in [Bucket -> 0..MaxFetches]
    /\ \A b \in Bucket :
        /\ fetch[b].at \in {"idle", "fundamentals"}
        /\ BucketRows(fetch[b].rows)
        /\ stored[b] # None => BucketRows(stored[b])

\* Types of the scan; one that is done holds what the chain made of what it had read.
ScanTypes ==
    /\ scan.at \in {"idle", "reading", "done", "skipped", "threw"}
    /\ scan.settings \in BotSettings \cup {None}
    /\ IsFiniteSet(DOMAIN scan.got)
    /\ \A b \in DOMAIN scan.got : BucketRows(scan.got[b])
    /\ scan.candidates \in Seq(Clean)
    /\ scan.at = "done" => scan.candidates = RunFilterChain(Union(scan.got), scan.settings)

\* No row at all is within the limit.
LEMMA NoRows ==
    ASSUME NEW r, DOMAIN r = {}
    PROVE  BucketRows(r)
<1>1. IsFiniteSet(DOMAIN r) /\ Cardinality(DOMAIN r) <= Limit
  BY FS_EmptySet, VendorAssumption
<1> QED
  BY <1>1 DEF BucketRows

\* One fetch is replaced, and nothing else of FetchTypes changes.
LEMMA FetchReplaced ==
    ASSUME CacheInv, FetchTypes, NEW b \in Bucket, NEW r,
           fetch' = [fetch EXCEPT ![b] = r],
           r.at \in {"idle", "fundamentals"}, BucketRows(r.rows),
           moves' = moves, moved' = moved, refused' \subseteq Symbols,
           fetches' \in [Bucket -> 0..MaxFetches],
           \A c \in Bucket : stored'[c] # None => BucketRows(stored'[c])
    PROVE  FetchTypes'
<1>1. fetch'[b] = r /\ \A c \in Bucket \ {b} : fetch'[c] = fetch[c]
  BY DEF CacheInv, Shape
<1>2. ASSUME NEW c \in Bucket
      PROVE  fetch'[c].at \in {"idle", "fundamentals"} /\ BucketRows(fetch'[c].rows)
  BY <1>1 DEF FetchTypes
<1> QED
  BY <1>2 DEF FetchTypes

\* Every step of the vendor and of a fetch keeps the types.
LEMMA FetchTypesStep == CacheInv /\ FetchTypes /\ [Next]_vars => FetchTypes'
<1> SUFFICES ASSUME CacheInv, FetchTypes, [Next]_vars
             PROVE  FetchTypes'
  OBVIOUS
<1>0. /\ fetches \in [Bucket -> 0..MaxFetches] /\ MaxFetches \in Nat
      /\ moves \in 0..MaxMoves /\ MaxMoves \in Nat
      /\ moved \subseteq Symbols /\ refused \subseteq Symbols
      /\ \A b \in Bucket : /\ BucketRows(fetch[b].rows)
                           /\ stored[b] # None => BucketRows(stored[b])
      /\ \A x \in Symbols : facts[x] \in Facts /\ facts[x] \in VendorFacts
      /\ \A b \in Bucket : FetchOK(b)
  BY VendorAssumption DEF FetchTypes, CacheInv, Shape, RowsInv
<1>1. CASE MoveFacts
  <2> PICK x \in Symbols : moved' = moved \cup {x}
    BY <1>1 DEF MoveFacts
  <2>1. moves' \in 0..MaxMoves
    BY <1>0, <1>1 DEF MoveFacts
  <2> QED
    BY <1>1, <2>1 DEF MoveFacts, FetchTypes
<1>2. ASSUME NEW b \in Bucket, Screen(b)
      PROVE  FetchTypes'
  <2> DEFINE rows == [x \in Listed(b) |-> Row(x)]
             r == InFlight(rows, Listed(b))
  <2>1. /\ fetch' = [fetch EXCEPT ![b] = r]
        /\ UNCHANGED <<moves, moved, refused, stored>>
    BY <1>2 DEF Screen, vendorVars
  <2>2. fetches' \in [Bucket -> 0..MaxFetches]
    <3>1. fetches[b] + 1 \in 0..MaxFetches
      BY <1>0, <1>2 DEF Screen
    <3> QED
      BY <1>0, <1>2, <3>1 DEF Screen
  <2>3. \A x \in Listed(b) : x \in Symbols /\ Row(x) \in Clean
    <3>1. Listed(b) \subseteq Symbols
      BY RowPlaced DEF CacheInv
    <3> QED
      BY <1>0, <3>1, RowClean
  <2>4. BucketRows(rows)
    <3>1. DOMAIN rows = Listed(b) /\ \A x \in Listed(b) : rows[x] = Row(x)
      OBVIOUS
    <3> HIDE DEF rows
    <3> QED
      BY <2>3, <3>1, ListedLimited DEF BucketRows
  <2> HIDE DEF rows
  <2>5. r.at = "fundamentals" /\ r.rows = rows
    BY DEF InFlight
  <2> HIDE DEF r
  <2> QED
    BY <1>0, <2>1, <2>2, <2>4, <2>5, FetchReplaced
<1>3. ASSUME NEW b \in Bucket, NEW x \in Symbols, Fundamentals(b, x)
      PROVE  FetchTypes'
  <2> DEFINE rows == [fetch[b].rows EXCEPT ![x] = Completed(@, x)]
             r == InFlight(rows, fetch[b].waiting \ {x})
  <2>1. /\ fetch' = [fetch EXCEPT ![b] = r]
        /\ UNCHANGED <<moves, moved, refused, stored, fetches>>
    BY <1>3 DEF Fundamentals, vendorVars
  <2>2. x \in DOMAIN fetch[b].rows
    BY <1>0, <1>3 DEF Fundamentals, FetchOK
  <2>3. fetch[b].rows[x] \in Clean
    BY <1>0, <2>2 DEF BucketRows
  <2>4. Completed(fetch[b].rows[x], x) \in Clean
    BY <1>0, <2>3, CompletedClean
  <2>5. /\ DOMAIN rows = DOMAIN fetch[b].rows
        /\ \A y \in DOMAIN rows :
             rows[y] = IF y = x THEN Completed(fetch[b].rows[x], x) ELSE fetch[b].rows[y]
    BY <2>2
  <2> HIDE DEF rows
  <2>6. BucketRows(rows)
    BY <1>0, <2>4, <2>5 DEF BucketRows
  <2>7. r.at = "fundamentals" /\ r.rows = rows
    BY DEF InFlight
  <2> HIDE DEF r
  <2> QED
    BY <1>0, <2>1, <2>6, <2>7, FetchReplaced
<1>4. ASSUME NEW b \in Bucket, NEW x \in Symbols, SymbolRefused(b, x)
      PROVE  FetchTypes'
  <2> DEFINE r == InFlight(fetch[b].rows, fetch[b].waiting \ {x})
  <2>1. /\ fetch' = [fetch EXCEPT ![b] = r]
        /\ UNCHANGED <<moves, moved, stored, fetches>>
        /\ refused' \subseteq Symbols
    BY <1>0, <1>4 DEF SymbolRefused, vendorVars
  <2>2. r.at = "fundamentals" /\ r.rows = fetch[b].rows
    BY DEF InFlight
  <2> HIDE DEF r
  <2> QED
    BY <1>0, <2>1, <2>2, FetchReplaced
<1>5. ASSUME NEW b \in Bucket, NEW x \in Symbols, VendorDown(b, x)
      PROVE  FetchTypes'
  <2>1. /\ fetch' = [fetch EXCEPT ![b] = NoFetch]
        /\ UNCHANGED <<moves, moved, stored, refused, fetches>>
    BY <1>5 DEF VendorDown, vendorVars
  <2>2. NoFetch.at = "idle" /\ BucketRows(NoFetch.rows)
    <3>1. NoFetch.at = "idle" /\ DOMAIN NoFetch.rows = {}
      BY DEF NoFetch
    <3> QED
      BY <3>1, NoRows
  <2> QED
    BY <1>0, <2>1, <2>2, FetchReplaced
<1>6. ASSUME NEW b \in Bucket, StoreBucket(b)
      PROVE  FetchTypes'
  <2>1. /\ fetch' = [fetch EXCEPT ![b] = NoFetch]
        /\ stored' = [stored EXCEPT ![b] = fetch[b].rows]
        /\ UNCHANGED <<moves, moved, refused, fetches>>
    BY <1>6 DEF StoreBucket, vendorVars
  <2>2. NoFetch.at = "idle" /\ BucketRows(NoFetch.rows)
    <3>1. NoFetch.at = "idle" /\ DOMAIN NoFetch.rows = {}
      BY DEF NoFetch
    <3> QED
      BY <3>1, NoRows
  <2>3. \A c \in Bucket : stored'[c] # None => BucketRows(stored'[c])
    <3>1. stored'[b] = fetch[b].rows /\ \A c \in Bucket \ {b} : stored'[c] = stored[c]
      BY <2>1 DEF CacheInv, Shape
    <3> QED
      BY <1>0, <3>1
  <2> QED
    BY <1>0, <2>1, <2>2, <2>3, FetchReplaced
<1>7. CASE \/ StartScan \/ SelectCandidates \/ UNCHANGED vars
           \/ \E b \in Bucket : ReadBucket(b)
  <2>1. UNCHANGED <<moves, moved, refused, fetches, fetch, stored>>
    BY <1>7 DEF StartScan, SelectCandidates, ReadBucket, vars, vendorVars
  <2> QED
    BY <2>1 DEF FetchTypes
<1> QED
  BY <1>1, <1>2, <1>3, <1>4, <1>5, <1>6, <1>7 DEF Next, BucketStep

\* What a scan has read are buckets as they were stored, and what it ends with is what
\* the chain makes of them.
LEMMA ScanTypesStep ==
    CacheInv /\ ScanInv /\ FetchTypes /\ ScanTypes /\ [Next]_vars => ScanTypes'
<1> SUFFICES ASSUME CacheInv, ScanInv, FetchTypes, ScanTypes, [Next]_vars
             PROVE  ScanTypes'
  OBVIOUS
<1>1. ASSUME NEW b \in Bucket, ReadBucket(b), stored[b] = None
      PROVE  ScanTypes'
  <2> DEFINE t == [at |-> "skipped", settings |-> scan.settings, got |-> << >>,
                   candidates |-> scan.candidates]
  <2>1. scan' = t
    BY <1>1 DEF ReadBucket, ScanInv
  <2>2. /\ t.at = "skipped" /\ t.settings = scan.settings /\ DOMAIN t.got = {}
        /\ t.candidates = scan.candidates
    OBVIOUS
  <2> HIDE DEF t
  <2> QED
    BY <2>1, <2>2, FS_EmptySet DEF ScanTypes
<1>2. ASSUME NEW b \in Bucket, ReadBucket(b), stored[b] # None
      PROVE  ScanTypes'
  <2> DEFINE got == [c \in DOMAIN scan.got \cup {b} |->
                       IF c = b THEN stored[b] ELSE scan.got[c]]
             t == [at |-> scan.at, settings |-> scan.settings, got |-> got,
                   candidates |-> scan.candidates]
  <2>1. scan' = [scan EXCEPT !.got = got] /\ scan.at = "reading"
    BY <1>2 DEF ReadBucket
  <2>2. /\ DOMAIN got = DOMAIN scan.got \cup {b}
        /\ \A c \in DOMAIN got : got[c] = IF c = b THEN stored[b] ELSE scan.got[c]
    OBVIOUS
  <2> HIDE DEF got
  <2>3. scan' = t
    BY <2>1 DEF ScanInv
  <2>4. /\ t.at = "reading" /\ t.settings = scan.settings /\ t.got = got
        /\ t.candidates = scan.candidates
    BY <2>1
  <2> HIDE DEF t
  <2>5. IsFiniteSet(DOMAIN got)
    BY <2>2, FS_AddElement DEF ScanTypes
  <2>6. \A c \in DOMAIN got : BucketRows(got[c])
    BY <1>2, <2>2 DEF ScanTypes, FetchTypes
  <2> QED
    BY <2>3, <2>4, <2>5, <2>6 DEF ScanTypes
<1>3. CASE StartScan
  <2> PICK s \in BotSettings :
             scan' = [scan EXCEPT !.at = IF RelevantBuckets(s) = {} THEN "threw" ELSE "reading",
                                  !.settings = s]
    BY <1>3 DEF StartScan
  <2> DEFINE at == IF RelevantBuckets(s) = {} THEN "threw" ELSE "reading"
             t == [at |-> at, settings |-> s, got |-> scan.got,
                   candidates |-> scan.candidates]
  <2>1. scan' = t
    BY DEF ScanInv
  <2>2. /\ t.at \in {"threw", "reading"} /\ t.settings = s /\ t.got = scan.got
        /\ t.candidates = scan.candidates
    OBVIOUS
  <2> HIDE DEF t
  <2> QED
    BY <2>1, <2>2 DEF ScanTypes
<1>4. CASE SelectCandidates
  <2> DEFINE out == RunFilterChain(Union(scan.got), scan.settings)
             t == [at |-> "done", settings |-> scan.settings, got |-> scan.got,
                   candidates |-> out]
  <2>1. Union(scan.got) \in Seq(Clean)
    BY UnionTyped DEF ScanTypes
  <2>2. out \in Seq(Clean)
    BY <2>1, ChainPlaced
  <2>3. scan' = [scan EXCEPT !.at = "done", !.candidates = out]
    BY <1>4 DEF SelectCandidates
  <2>4. out = RunFilterChain(Union(scan.got), scan.settings)
    OBVIOUS
  <2> HIDE DEF out
  <2>5. scan' = t
    BY <2>3 DEF ScanInv
  <2>6. /\ t.at = "done" /\ t.settings = scan.settings /\ t.got = scan.got
        /\ t.candidates = out
    OBVIOUS
  <2> HIDE DEF t
  <2>7. /\ scan'.at = "done" /\ scan'.candidates \in Seq(Clean)
        /\ scan'.candidates = RunFilterChain(Union(scan'.got), scan'.settings)
    BY <2>2, <2>4, <2>5, <2>6
  <2> QED
    BY <2>5, <2>6, <2>7 DEF ScanTypes
<1>5. CASE UNCHANGED scan
  BY <1>5 DEF ScanTypes
<1>6. [Next]_vars => \/ UNCHANGED scan \/ StartScan \/ SelectCandidates
                     \/ \E b \in Bucket : ReadBucket(b)
  BY DEF Next, BucketStep, MoveFacts, Screen, StoreBucket, Fundamentals, SymbolRefused,
         VendorDown, vars
<1> QED
  BY <1>1, <1>2, <1>3, <1>4, <1>5, <1>6

\* The types at the start.
LEMMA InitTypes == Init => FetchTypes /\ ScanTypes
<1> SUFFICES ASSUME Init
             PROVE  FetchTypes /\ ScanTypes
  OBVIOUS
<1>1. MaxMoves \in Nat /\ MaxFetches \in Nat
  BY VendorAssumption
<1>2. NoFetch.at = "idle" /\ BucketRows(NoFetch.rows)
  <2>1. NoFetch.at = "idle" /\ DOMAIN NoFetch.rows = {}
    BY DEF NoFetch
  <2> QED
    BY <2>1, NoRows
<1>3. FetchTypes
  BY <1>1, <1>2 DEF Init, FetchTypes
<1> DEFINE t == [at |-> "idle", settings |-> None, got |-> << >>, candidates |-> <<>>]
<1>4. t.at = "idle" /\ t.settings = None /\ DOMAIN t.got = {} /\ t.candidates = <<>>
  OBVIOUS
<1>5. scan = t
  BY DEF Init
<1> HIDE DEF t
<1>6. ScanTypes
  BY <1>4, <1>5, FS_EmptySet, EmptySeq DEF ScanTypes
<1> QED
  BY <1>3, <1>6

\* Whatever the vendor lists, answers, refuses or changes, a stored bucket holds entries
\* of its symbols, no more of them than the screener was asked for, and a scan's
\* candidates are entries (bucket-fetch.ts, eodhd-client.ts, scan-bot.worker.ts).
THEOREM SelectionTypes == Spec => []SelectionTypeOK
<1>1. CacheInv /\ FetchTypes /\ ScanTypes => SelectionTypeOK
  <2> SUFFICES ASSUME CacheInv, FetchTypes, ScanTypes
               PROVE  SelectionTypeOK
    OBVIOUS
  <2>1. facts \in [Symbols -> VendorFacts]
    BY DEF CacheInv, Shape
  <2>2. ASSUME NEW b \in Bucket
        PROVE  /\ fetch[b].at \in {"idle", "fundamentals"}
               /\ DOMAIN fetch[b].rows \subseteq Symbols
               /\ fetch[b].waiting \subseteq DOMAIN fetch[b].rows
               /\ fetches[b] \in 0..MaxFetches
               /\ stored[b] # None =>
                    /\ DOMAIN stored[b] \subseteq Symbols
                    /\ Cardinality(DOMAIN stored[b]) <= Limit
                    /\ \A x \in DOMAIN stored[b] : stored[b][x] \in Entry
    BY DEF CacheInv, RowsInv, FetchOK, FetchTypes, BucketRows, Clean
  <2>3. Members(scan.candidates) \subseteq Entry
    <3>1. scan.candidates \in Seq(Clean)
      BY DEF ScanTypes
    <3>2. \A i \in DOMAIN scan.candidates : scan.candidates[i] \in Clean
      BY <3>1, LenProperties
    <3> QED
      BY <3>2 DEF Members, Clean
  <2> QED
    BY <2>1, <2>2, <2>3 DEF SelectionTypeOK, FetchTypes, ScanTypes
<1> QED
  BY <1>1, InitCache, CacheStep, InitScan, ScanStep, InitTypes, FetchTypesStep,
     ScanTypesStep, PTL DEF Spec

\* The stages of runFilterChain together let through exactly the entries no reason
\* speaks against, each as often as the buckets held it, the watchlist in front and
\* otherwise in the order of the buckets: for every bot, every set of symbols and any
\* length of the candidate list (universe-filter-chain.ts).
THEOREM CandidatesMeetCriteria == Spec => []ChainMeetsCriteria
<1>1. ScanInv /\ ScanTypes => ChainMeetsCriteria
  <2> SUFFICES ASSUME ScanInv, ScanTypes, scan.at = "done"
               PROVE  ChainMeetsCriteria
    BY DEF ChainMeetsCriteria
  <2>1. /\ Union(scan.got) \in Seq(Clean)
        /\ scan.candidates = RunFilterChain(Union(scan.got), scan.settings)
    BY UnionTyped DEF ScanTypes
  <2>2. scan.settings \in Settings
    BY VendorAssumption DEF ScanInv
  <2> QED
    BY <2>1, <2>2, ChainCriteria DEF ChainMeetsCriteria
<1> QED
  BY <1>1, InitCache, CacheStep, InitScan, ScanStep, InitTypes, FetchTypesStep,
     ScanTypesStep, PTL DEF Spec
=============================================================================
