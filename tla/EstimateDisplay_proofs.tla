------------------------ MODULE EstimateDisplay_proofs ------------------------
(***************************************************************************)
(* Proofs about "create --estimate-cost": the estimate, and the display    *)
(* that shows it (and shows start).                                        *)
(*                                                                         *)
(* CostEstimate, for any number of commands, any catalogue and any prices: *)
(* sorting the candidates and looking at the first two of them finds the   *)
(* one SKU that scores more than any other, whatever order they are listed *)
(* in (ResolveRight), so that no file that parses ever holds another price *)
(* (Sound), however the commands that save disturb each other.             *)
(*                                                                         *)
(* LiveDisplay, for any number of workers and of lines: the block begins   *)
(* below row Above of the terminal, everywhere between two steps, and the  *)
(* first Depth rows of it are drawn anew (Geometry).  What is printed is   *)
(* above it, and all rows of the stage are below (LinesAbove, RowsBelow).  *)
(***************************************************************************)
EXTENDS CostEstimate, LiveDisplay, FiniteSetTheorems, SequenceTheorems, TLAPS

Prices == [Sku -> {None} \cup Price]

-----------------------------------------------------------------------------
(***************************************************************************)
(* Lemmas about resolveSelector                                            *)
(***************************************************************************)

\* The score of a candidate is a number.
LEMMA ScoreType == ASSUME NEW s \in Sku, NEW key \in Keys
                   PROVE  Score(s, key) \in Nat
  <1>1. s.regionBonus \in Nat
    BY CostEstimateAssumption
  <1>2. UsageMatchScore(s.usage, key[2]) \in Nat
    BY DEF UsageMatchScore
  <1> QED BY <1>1, <1>2 DEF Score

\* No two SKUs have the same ID.
LEMMA IdsDistinct == ASSUME NEW s \in Sku, NEW t \in Sku, s # t
                     PROVE  s.id \in Nat /\ t.id \in Nat /\ s.id # t.id
  BY CostEstimateAssumption

\* Of two candidates with different scores the higher one precedes, and of
\* two different ones with the same score one or the other does.
LEMMA NotBefore == ASSUME NEW s \in Sku, NEW t \in Sku, NEW key \in Keys,
                          ~Before(t, s, key)
                   PROVE  Score(t, key) <= Score(s, key)
  <1> DEFINE a == Score(s, key)
             b == Score(t, key)
  <1>1. a \in Nat /\ b \in Nat
    BY ScoreType
  <1>2. ~(b > a)
    BY DEF Before
  <1> HIDE DEF a, b
  <1>3. b <= a
    BY <1>1, <1>2
  <1> QED BY <1>3 DEF a, b

\* The places of the candidates are finitely many.
LEMMA PlacesFinite ==
    ASSUME NEW l \in Listings, NEW prices, NEW key
    PROVE  /\ IsFiniteSet(Candidates(l, prices, key))
           /\ Cardinality(Candidates(l, prices, key)) \in Nat
           /\ Candidates(l, prices, key) # {}
                => Cardinality(Candidates(l, prices, key)) # 0
  <1>1. Cardinality(Sku) \in Nat /\ DOMAIN l = 1 .. Cardinality(Sku)
    BY CostEstimateAssumption, FS_CardinalityType
  <1>2. IsFiniteSet(DOMAIN l)
    BY <1>1, FS_Interval
  <1>3. IsFiniteSet(Candidates(l, prices, key))
    BY <1>2, FS_Subset DEF Candidates
  <1> QED BY <1>3, FS_CardinalityType, FS_EmptySet

\* What is resolved is the price of the one SKU that suits best.
LEMMA ResolveRight ==
    ASSUME NEW l \in Listings, NEW prices \in Prices, NEW key \in Keys,
           NEW p \in Resolve(l, prices, key)
    PROVE  p \in RightPrice(prices, key)
  <1> DEFINE places == Candidates(l, prices, key)
             N == Cardinality(places)
             score(n) == Score(l[n], key)
  <1>1. PICK q \in Sorted(l, places, key) :
               /\ places # {} /\ p = prices[l[q[1]]]
               /\ ~(/\ N > 1
                    /\ score(q[2]) = score(q[1])
                    /\ l[q[2]].id # l[q[1]].id)
    BY DEF Resolve
  <1>2. N \in Nat /\ N # 0
    BY <1>1, PlacesFinite
  <1>3. l \in [1 .. Cardinality(Sku) -> Sku] /\ places \subseteq DOMAIN l
    BY CostEstimateAssumption DEF Candidates
  <1>4. \A n \in places : l[n] \in Sku /\ Suits(l[n], prices, key)
    BY <1>3 DEF Candidates
  <1>5. /\ q \in [1 .. N -> places]
        /\ \A n \in places : \E i \in 1 .. N : q[i] = n
        /\ \A i, j \in 1 .. N : i < j =>
             q[i] # q[j] /\ ~Before(l[q[j]], l[q[i]], key)
    BY DEF Sorted
  <1> HIDE DEF places, N
  <1>6. 1 \in 1 .. N /\ q[1] \in places
    BY <1>2, <1>5
  <1>7. ASSUME NEW n \in places, n # q[1]
        PROVE  score(n) < score(q[1])
    <2>1. PICK j \in 1 .. N : q[j] = n
      BY <1>5
    <2>2. j \in Nat /\ 1 < j /\ N > 1 /\ 2 \in 1 .. N /\ q[2] \in places
      BY <2>1, <1>2, <1>5, <1>6, <1>7
    <2>3. score(n) \in Nat /\ score(q[1]) \in Nat /\ score(q[2]) \in Nat
      BY <1>4, <1>6, <2>2, ScoreType
    <2>4. ~Before(l[n], l[q[1]], key) /\ ~Before(l[q[2]], l[q[1]], key) /\ q[1] # q[2]
      BY <1>5, <1>6, <2>1, <2>2
    <2>5. score(n) <= score(q[1]) /\ score(q[2]) <= score(q[1])
      BY <1>4, <1>6, <2>2, <2>4, NotBefore
    <2>6. score(n) <= score(q[2])
      <3>1. CASE j = 2
        BY <3>1, <2>1, <2>3
      <3>2. CASE j # 2
        <4>1. ~Before(l[n], l[q[2]], key)
          BY <3>2, <1>5, <2>1, <2>2
        <4> QED BY <4>1, <1>4, <2>2, NotBefore
      <3> QED BY <3>1, <3>2
    <2>7. l[q[2]] # l[q[1]]
      <3>1. q[1] \in DOMAIN l /\ q[2] \in DOMAIN l
        BY <1>3, <1>6, <2>2
      <3>2. \A i, j1 \in DOMAIN l : l[i] = l[j1] => i = j1
        BY CostEstimateAssumption
      <3> QED BY <3>1, <3>2, <2>4
    <2>8. l[q[2]].id # l[q[1]].id
      BY <1>4, <1>6, <2>2, <2>7, IdsDistinct
    <2>9. score(q[2]) # score(q[1])
      BY <1>1, <2>2, <2>8
    <2> HIDE DEF score
    <2> QED BY <2>3, <2>5, <2>6, <2>9
  <1> DEFINE s == l[q[1]]
  <1>8. s \in Sku /\ Suits(s, prices, key)
    BY <1>4, <1>6
  <1>9. ASSUME NEW t \in Sku \ {s}, Suits(t, prices, key)
        PROVE  Score(t, key) < Score(s, key)
    <2>1. PICK n \in DOMAIN l : l[n] = t
      BY CostEstimateAssumption
    <2>2. n \in places /\ n # q[1]
      BY <2>1, <1>9 DEF places, Candidates
    <2> QED BY <2>1, <2>2, <1>7
  <1>10. Best(s, prices, key)
    BY <1>8, <1>9 DEF Best
  <1> QED BY <1>1, <1>8, <1>10 DEF RightPrice

\* The price of the SKU that suits best is a price.
LEMMA RightIsPrice == ASSUME NEW prices \in Prices, NEW key \in Keys
                      PROVE  RightPrice(prices, key) \subseteq Price
  BY DEF RightPrice, Best, Suits, Prices

\* None stands for no price at all, in whichever unit.
LEMMA NoneNotPrice == None \notin Price /\ None \notin OddPrice
  BY CostEstimateAssumption DEF None, Price

-----------------------------------------------------------------------------
(***************************************************************************)
(* The invariant                                                           *)
(***************************************************************************)

\* Where a command may be, and where it has looked and has found.
Places == {"idle", "load", "look", "save", "write", "rename", "price", "done"}
HasLooked == {"save", "write", "rename", "price"}

\* A file that parses has prices that have been seen.
Sound(content, seen) ==
    content \in {EmptyFile, TornFile} \/ \A k \in Keys : content[k] \in {None} \cup seen[k]

\* Whatever is cached, in a file or by a command, was right at some time.
CachedAreOffered ==
    /\ Sound(cache, offered) /\ Sound(tmp, offered)
    /\ \A k \in Keys :
        /\ RightPrice(catalogue, k) \subseteq offered[k]
        /\ \A c \in Command : data[c][k] \in {None} \cup offered[k]

\* A command that has looked has found every price.
AllFound ==
    \A c \in Command : at[c] \in HasLooked =>
        \A p \in Part : data[c][KeyOf(c, p)] # None

\* One that refreshes has seen what is right now, and what it has found has
\* been right since it began.
Refreshed ==
    \A c \in Command : request[c].refresh =>
        /\ \A k \in Keys : RightPrice(catalogue, k) \subseteq since[c][k]
        /\ at[c] \in HasLooked =>
             \A p \in Part : data[c][KeyOf(c, p)] \in since[c][KeyOf(c, p)]

EstimateInv ==
    /\ EstimateTypeOK
    /\ CachedAreOffered
    /\ AllFound
    /\ Refreshed
    /\ QuoteIsGenuine
    /\ RefreshIsCurrent

\* What a command looks up in the cache is a key of it.
LEMMA KeyIsKey == ASSUME EstimateTypeOK, NEW c \in Command, NEW p \in Part
                  PROVE  KeyOf(c, p) \in Keys
  BY DEF EstimateTypeOK, KeyOf, Keys, Request

\* What a command writes is in the temporary file, in the cache, or nowhere.
LEMMA HoldsType ==
    ASSUME NEW c \in Command, NEW content \in File, cache \in File, tmp \in File,
           Holds(c, content)
    PROVE  cache' \in File /\ tmp' \in File
  BY DEF Holds

LEMMA HoldsSound ==
    ASSUME NEW c \in Command, NEW content, Sound(content, offered),
           Sound(cache, offered), Sound(tmp, offered), Holds(c, content)
    PROVE  Sound(cache', offered) /\ Sound(tmp', offered)
  BY DEF Holds

-----------------------------------------------------------------------------
(***************************************************************************)
(* Types                                                                   *)
(***************************************************************************)
LEMMA EstimateInitially == ASSUME EstimateInit
                           PROVE  EstimateInv
  <1> USE DEF EstimateInit
  <1>1. None \in {None} \cup (Price \ OddPrice) /\ None \in {None} \cup Price
    OBVIOUS
  <1>2. catalogue \in Prices /\ 0 \in 0 .. MaxChanges
    <2>1. 0 .. MaxPrice = {None} \cup Price
      BY CostEstimateAssumption DEF Price, None
    <2>2. FirstPrices \subseteq [Sku -> 0 .. MaxPrice] /\ 0 \in 0 .. MaxChanges
      BY CostEstimateAssumption
    <2> QED BY <2>1, <2>2, Zenon DEF Prices
  <1>3. \A k \in Keys : RightPrice(catalogue, k) \subseteq Price
    BY <1>2, RightIsPrice
  <1>4. NoRequest \in Request
    BY Zenon DEF NoRequest, Request, Usage
  <1>5. request \in [Command -> Request]
    BY <1>4, Zenon
  <1>6. \A c \in Command : ~request[c].refresh
    BY Zenon DEF NoRequest
  <1>7. EstimateTypeOK
    <2>1. NoData \in Cache /\ NoQuote \in [Part -> {None} \cup (Price \ OddPrice)]
      BY <1>1 DEF NoData, NoQuote, Cache
    <2>2. data \in [Command -> Cache] /\ cache \in File /\ tmp \in File
      BY <2>1, Zenon DEF File
    <2>3. quote \in [Command -> [Part -> {None} \cup (Price \ OddPrice)]]
      BY <2>1, Zenon
    <2>4. offered \in [Keys -> SUBSET Price]
      BY <1>3
    <2>5. since \in [Command -> [Keys -> SUBSET Price]]
      OBVIOUS
    <2>6. at \in [Command -> Places] /\ fd \in [Command -> {"none", "tmp", "cache", "gone"}]
      BY DEF Places
    <2> QED BY <1>2, <1>5, <2>2, <2>3, <2>4, <2>5, <2>6, Zenon
               DEF EstimateTypeOK, Prices, Places
  <1>8. CachedAreOffered
    BY DEF CachedAreOffered, NoData, Sound
  <1>9. AllFound /\ QuoteIsGenuine /\ RefreshIsCurrent
    BY DEF AllFound, QuoteIsGenuine, RefreshIsCurrent, HasLooked
  <1>10. Refreshed
    BY <1>6 DEF Refreshed
  <1> QED BY <1>7, <1>8, <1>9, <1>10 DEF EstimateInv

\* A price that is resolved now is right now, and is a price.
LEMMA FetchedAreRight ==
    ASSUME EstimateInv, NEW c \in Command, NEW listing \in Listings,
           NEW k \in Keys, NEW p \in Resolve(listing, catalogue, k)
    PROVE  p \in RightPrice(catalogue, k) /\ p \in offered[k] /\ p \in Price
  <1>1. catalogue \in Prices
    BY DEF EstimateInv, EstimateTypeOK, Prices
  <1> QED BY <1>1, ResolveRight, RightIsPrice DEF EstimateInv, CachedAreOffered

\* Every step of an estimate keeps each variable in its set.
LEMMA EstimateTypeStep == ASSUME EstimateInv, [EstimateNext]_estimateVars
                          PROVE  EstimateTypeOK'
  <1> USE DEF EstimateTypeOK, Moves, world, files, Places
  <1>0. EstimateTypeOK
    BY DEF EstimateInv
  <1>1. CASE Change
    <2>1. /\ catalogue' \in Prices /\ changes' \in 0 .. MaxChanges
          /\ UNCHANGED <<cache, tmp, fd, at, request, data, quote>>
      BY <1>0, <1>1, CostEstimateAssumption DEF Change, Prices
    <2>2. \A k \in Keys : RightPrice(catalogue', k) \subseteq Price
      BY <2>1, RightIsPrice
    <2>3. offered' \in [Keys -> SUBSET Price]
      BY <1>0, <1>1, <2>2 DEF Change
    <2>4. \A c \in Command :
            [k \in Keys |-> since[c][k] \cup RightPrice(catalogue', k)] \in [Keys -> SUBSET Price]
      BY <1>0, <2>2
    <2>5. since' = [c \in Command |-> IF ~request[c].refresh THEN since[c]
                    ELSE [k \in Keys |-> since[c][k] \cup RightPrice(catalogue', k)]]
      BY <1>1 DEF Change
    <2>6. since' \in [Command -> [Keys -> SUBSET Price]]
      BY <1>0, <2>4, <2>5, Zenon
    <2> QED BY <1>0, <2>1, <2>3, <2>6, Zenon DEF Prices
  <1>2. ASSUME NEW c \in Command, BeginEstimate(c)
        PROVE  EstimateTypeOK'
    <2>1. \A k \in Keys : RightPrice(catalogue, k) \subseteq Price
      BY <1>0, RightIsPrice DEF Prices
    <2>2. request' \in [Command -> Request]
      BY <1>0, <1>2, Zenon DEF BeginEstimate
    <2>3. [k \in Keys |-> IF request'[c].refresh THEN RightPrice(catalogue, k) ELSE {}]
            \in [Keys -> SUBSET Price]
      BY <2>1
    <2>4. since' \in [Command -> [Keys -> SUBSET Price]]
      BY <1>0, <1>2, <2>3, Zenon DEF BeginEstimate
    <2>5. at' \in [Command -> Places]
      BY <1>0, <1>2 DEF BeginEstimate
    <2> QED BY <1>0, <1>2, <2>2, <2>4, <2>5, Zenon DEF BeginEstimate
  <1>3. ASSUME NEW c \in Command, LoadCache(c)
        PROVE  EstimateTypeOK'
    <2>1. data' \in [Command -> Cache]
      BY <1>0, <1>3 DEF LoadCache, File
    <2>2. at' \in [Command -> Places]
      BY <1>0, <1>3 DEF LoadCache
    <2> QED BY <1>0, <1>3, <2>1, <2>2, Zenon DEF LoadCache
  <1>4. ASSUME NEW c \in Command, AllCached(c)
        PROVE  EstimateTypeOK'
    BY <1>0, <1>4 DEF AllCached
  <1>5. ASSUME NEW c \in Command, Fetch(c)
        PROVE  EstimateTypeOK'
    <2>1. PICK resolved \in [ToResolve(c) -> Price] :
            data' = [data EXCEPT ![c] =
                       [k \in Keys |-> IF k \in ToResolve(c) THEN resolved[k] ELSE @[k]]]
      BY <1>5 DEF Fetch
    <2>2. [k \in Keys |-> IF k \in ToResolve(c) THEN resolved[k] ELSE data[c][k]] \in Cache
      BY <1>0, <2>1 DEF Cache
    <2>3. data' \in [Command -> Cache]
      BY <1>0, <2>1, <2>2, Zenon
    <2>4. at' \in [Command -> Places]
      BY <1>0, <1>5 DEF Fetch
    <2> QED BY <1>0, <1>5, <2>3, <2>4, Zenon DEF Fetch
  <1>6. ASSUME NEW c \in Command, SaveOpens(c)
        PROVE  EstimateTypeOK'
    BY <1>0, <1>6 DEF SaveOpens, File
  <1>61. ASSUME NEW c \in Command, SaveWrites(c)
         PROVE  EstimateTypeOK'
    <2>1. data[c] \in File /\ TornFile \in File
      BY <1>0 DEF File
    <2>2. cache' \in File /\ tmp' \in File
      BY <1>0, <1>61, <2>1, HoldsType DEF SaveWrites
    <2>3. at' \in [Command -> Places]
      BY <1>0, <1>61 DEF SaveWrites
    <2>4. fd' \in [Command -> {"none", "tmp", "cache", "gone"}]
      BY <1>0, <1>61 DEF SaveWrites
    <2> QED BY <1>0, <1>61, <2>2, <2>3, <2>4, Zenon DEF SaveWrites
  <1>62. ASSUME NEW c \in Command, SaveRenames(c)
         PROVE  EstimateTypeOK'
    <2>1. NoData \in File
      BY DEF NoData, Cache, File
    <2>2. cache' \in File /\ tmp' \in File
      BY <1>0, <1>62, <2>1 DEF SaveRenames
    <2>3. at' \in [Command -> Places]
      BY <1>0, <1>62 DEF SaveRenames
    <2>4. fd' \in [Command -> {"none", "tmp", "cache", "gone"}]
      BY <1>0, <1>62 DEF SaveRenames
    <2> QED BY <1>0, <1>62, <2>2, <2>3, <2>4, Zenon DEF SaveRenames
  <1>7. ASSUME NEW c \in Command, Compute(c)
        PROVE  EstimateTypeOK'
    <2>1. \A p \in Part : data[c][KeyOf(c, p)] \in {None} \cup (Price \ OddPrice)
      BY <1>0, <1>7, KeyIsKey DEF Compute, Cache
    <2>2. quote' \in [Command -> [Part -> {None} \cup (Price \ OddPrice)]]
      BY <1>0, <1>7, <2>1 DEF Compute
    <2>3. at' \in [Command -> Places]
      BY <1>0, <1>7 DEF Compute
    <2> QED BY <1>0, <1>7, <2>2, <2>3, Zenon DEF Compute
  <1>8. ASSUME NEW c \in Command, EstimateReturns(c)
        PROVE  EstimateTypeOK'
    <2>1. NoData \in Cache /\ NoQuote \in [Part -> {None} \cup (Price \ OddPrice)]
      BY DEF NoData, NoQuote, Cache
    <2>2. NoRequest \in Request
      BY Zenon DEF NoRequest, Request, Usage
    <2>3. /\ data' \in [Command -> Cache]
          /\ quote' \in [Command -> [Part -> {None} \cup (Price \ OddPrice)]]
      BY <1>0, <1>8, <2>1, Zenon DEF EstimateReturns
    <2>4. request' \in [Command -> Request]
      BY <1>0, <1>8, <2>2, Zenon DEF EstimateReturns
    <2>5. since' \in [Command -> [Keys -> SUBSET Price]]
      BY <1>0, <1>8 DEF EstimateReturns
    <2>6. at' \in [Command -> Places]
      BY <1>0, <1>8 DEF EstimateReturns
    <2>7. fd' \in [Command -> {"none", "tmp", "cache", "gone"}]
      BY <1>0, <1>8 DEF EstimateReturns
    <2>8. cache' \in File /\ tmp' \in File
      <3>1. TornFile \in File
        BY DEF File
      <3> QED BY <1>0, <1>8, <3>1, HoldsType DEF EstimateReturns
    <2> QED BY <1>0, <1>8, <2>3, <2>4, <2>5, <2>6, <2>7, <2>8, Zenon DEF EstimateReturns
  <1>9. CASE UNCHANGED estimateVars
    BY <1>0, <1>9 DEF estimateVars
  <1> QED BY <1>1, <1>2, <1>3, <1>4, <1>5, <1>6, <1>61, <1>62, <1>7, <1>8, <1>9
          DEF EstimateNext

-----------------------------------------------------------------------------
(***************************************************************************)
(* The steps                                                               *)
(***************************************************************************)
LEMMA CachedStep == ASSUME EstimateInv, [EstimateNext]_estimateVars
                    PROVE  CachedAreOffered'
  <1> USE DEF CachedAreOffered, Moves, world, files
  <1>0. EstimateTypeOK /\ CachedAreOffered
    BY DEF EstimateInv
  <1> USE DEF EstimateTypeOK, Cache
  <1>1. CASE Change
    <2>1. \A k \in Keys : offered[k] \subseteq offered'[k]
                            /\ RightPrice(catalogue', k) \subseteq offered'[k]
      BY <1>0, <1>1 DEF Change
    <2>2. UNCHANGED <<cache, tmp, data>>
      BY <1>1 DEF Change
    <2>3. Sound(cache, offered') /\ Sound(tmp, offered')
      BY <1>0, <2>1, Zenon DEF Sound
    <2>4. \A k \in Keys, c \in Command : data[c][k] \in {None} \cup offered'[k]
      BY <1>0, <2>1, Zenon
    <2> QED BY <2>1, <2>2, <2>3, <2>4, Zenon
  <1>2. ASSUME NEW c \in Command, BeginEstimate(c)
        PROVE  CachedAreOffered'
    BY <1>0, <1>2 DEF BeginEstimate
  <1>3. ASSUME NEW c \in Command, LoadCache(c)
        PROVE  CachedAreOffered'
    <2>1. /\ cache \notin {EmptyFile, TornFile} /\ data' = [data EXCEPT ![c] = cache]
          /\ UNCHANGED <<catalogue, offered, cache, tmp>>
      BY <1>3 DEF LoadCache
    <2>2. Sound(cache, offered)
      BY <1>0
    <2>3. \A k \in Keys : cache[k] \in {None} \cup offered[k]
      BY <2>1, <2>2, Zenon DEF Sound
    <2> QED BY <1>0, <2>1, <2>3
  <1>4. ASSUME NEW c \in Command, AllCached(c)
        PROVE  CachedAreOffered'
    BY <1>0, <1>4 DEF AllCached
  <1>5. ASSUME NEW c \in Command, Fetch(c)
        PROVE  CachedAreOffered'
    <2>1. PICK listing \in Listings, resolved \in [ToResolve(c) -> Price] :
            /\ \A k \in ToResolve(c) : resolved[k] \in Resolve(listing, catalogue, k)
            /\ data' = [data EXCEPT ![c] =
                 [k \in Keys |-> IF k \in ToResolve(c) THEN resolved[k] ELSE @[k]]]
      BY <1>5 DEF Fetch
    <2>2. \A k \in ToResolve(c) : k \in Keys => resolved[k] \in offered[k]
      BY <2>1, FetchedAreRight
    <2>3. UNCHANGED <<catalogue, cache, tmp, offered>>
      BY <1>5 DEF Fetch
    <2> QED BY <1>0, <2>1, <2>2, <2>3
  <1>6. ASSUME NEW c \in Command, SaveOpens(c)
        PROVE  CachedAreOffered'
    <2>1. Sound(EmptyFile, offered)
      BY DEF Sound
    <2>2. tmp' = EmptyFile /\ UNCHANGED <<catalogue, offered, cache, data>>
      BY <1>6 DEF SaveOpens
    <2> QED BY <1>0, <2>1, <2>2
  <1>61. ASSUME NEW c \in Command, SaveWrites(c)
         PROVE  CachedAreOffered'
    <2>1. Sound(TornFile, offered) /\ Sound(data[c], offered)
      BY <1>0 DEF Sound
    <2>2. Sound(cache', offered) /\ Sound(tmp', offered)
      BY <1>0, <1>61, <2>1, HoldsSound DEF SaveWrites
    <2> QED BY <1>0, <1>61, <2>2 DEF SaveWrites
  <1>62. ASSUME NEW c \in Command, SaveRenames(c)
         PROVE  CachedAreOffered'
    <2>1. Sound(NoData, offered)
      BY DEF Sound, NoData
    <2> QED BY <1>0, <1>62, <2>1 DEF SaveRenames
  <1>7. ASSUME NEW c \in Command, Compute(c)
        PROVE  CachedAreOffered'
    BY <1>0, <1>7 DEF Compute
  <1>8. ASSUME NEW c \in Command, EstimateReturns(c)
        PROVE  CachedAreOffered'
    <2>1. Sound(TornFile, offered)
      BY DEF Sound
    <2>2. Sound(cache', offered) /\ Sound(tmp', offered)
      BY <1>0, <1>8, <2>1, HoldsSound DEF EstimateReturns
    <2> QED BY <1>0, <1>8, <2>2 DEF EstimateReturns, NoData
  <1>9. CASE UNCHANGED estimateVars
    BY <1>0, <1>9 DEF estimateVars
  <1> QED BY <1>1, <1>2, <1>3, <1>4, <1>5, <1>6, <1>61, <1>62, <1>7, <1>8, <1>9
          DEF EstimateNext

\* What a command that fetches has for each part afterwards.
LEMMA FetchFinds ==
    ASSUME EstimateInv, NEW c \in Command, Fetch(c), NEW p \in Part
    PROVE  /\ KeyOf(c, p)' = KeyOf(c, p) /\ KeyOf(c, p) \in Keys
           /\ data'[c][KeyOf(c, p)] # None
           /\ request[c].refresh =>
                data'[c][KeyOf(c, p)] \in RightPrice(catalogue, KeyOf(c, p))
  <1>0. EstimateTypeOK
    BY DEF EstimateInv
  <1> DEFINE key == KeyOf(c, p)
  <1>1. KeyOf(c, p)' = key /\ key \in Keys
    BY <1>0, KeyIsKey DEF Fetch, KeyOf
  <1>2. PICK listing \in Listings, resolved \in [ToResolve(c) -> Price] :
          /\ \A k \in ToResolve(c) : resolved[k] \in Resolve(listing, catalogue, k)
          /\ data' = [data EXCEPT ![c] =
               [k \in Keys |-> IF k \in ToResolve(c) THEN resolved[k] ELSE @[k]]]
    BY DEF Fetch
  <1>3. data'[c][key] = IF key \in ToResolve(c) THEN resolved[key] ELSE data[c][key]
    BY <1>0, <1>1, <1>2 DEF EstimateTypeOK
  <1>4. request[c].refresh \/ data[c][key] = None => key \in ToResolve(c)
    BY Zenon DEF ToResolve
  <1>5. key \in ToResolve(c) =>
          resolved[key] \in Price /\ resolved[key] \in RightPrice(catalogue, key)
    BY <1>1, <1>2, FetchedAreRight
  <1>6. data'[c][key] # None
    BY <1>3, <1>4, <1>5, NoneNotPrice
  <1>7. request[c].refresh => data'[c][key] \in RightPrice(catalogue, key)
    BY <1>3, <1>4, <1>5, Zenon
  <1> QED BY <1>1, <1>6, <1>7, Zenon

\* A command looks at its prices only once it has found them all.
LEMMA FoundStep == ASSUME EstimateInv, [EstimateNext]_estimateVars
                   PROVE  AllFound'
  <1>0. EstimateTypeOK /\ AllFound
    BY DEF EstimateInv
  <1>01. \A c \in Command : at[c] \in HasLooked =>
           \A p \in Part : data[c][KeyOf(c, p)] # None
    BY <1>0 DEF AllFound
  <1> USE DEF AllFound, EstimateTypeOK, Moves, world, files, KeyOf, HasLooked
  <1>1. CASE Change
    BY <1>0, <1>1 DEF Change
  <1>2. ASSUME NEW c \in Command, BeginEstimate(c)
        PROVE  AllFound'
    <2>1. \A d \in Command \ {c} : request'[d] = request[d]
      BY <1>0, <1>2, Zenon DEF BeginEstimate
    <2>2. at' = [at EXCEPT ![c] = "load"] /\ UNCHANGED data
      BY <1>2 DEF BeginEstimate
    <2> QED BY <1>0, <2>1, <2>2
  <1>3. ASSUME NEW c \in Command, LoadCache(c)
        PROVE  AllFound'
    BY <1>0, <1>3 DEF LoadCache
  <1>4. ASSUME NEW c \in Command, AllCached(c)
        PROVE  AllFound'
    <2>1. \A p \in Part : data[c][KeyOf(c, p)] # None
      BY <1>4, Zenon DEF AllCached, ToResolve
    <2> QED BY <1>0, <1>4, <2>1 DEF AllCached
  <1>5. ASSUME NEW c \in Command, Fetch(c)
        PROVE  AllFound'
    <2>1. \A p \in Part : data'[c][KeyOf(c, p)] # None
      BY <1>5, FetchFinds
    <2>2. /\ \A d \in Command \ {c} : data'[d] = data[d] /\ at'[d] = at[d]
          /\ UNCHANGED request
      BY <1>0, <1>5 DEF Fetch
    <2> QED BY <1>0, <2>1, <2>2
  <1>6. ASSUME NEW c \in Command, SaveOpens(c)
        PROVE  AllFound'
    BY <1>0, <1>6 DEF SaveOpens
  <1>61. ASSUME NEW c \in Command, SaveWrites(c)
         PROVE  AllFound'
    BY <1>0, <1>61 DEF SaveWrites
  <1>62. ASSUME NEW c \in Command, SaveRenames(c)
         PROVE  AllFound'
    BY <1>0, <1>62 DEF SaveRenames
  <1>7. ASSUME NEW c \in Command, Compute(c)
        PROVE  AllFound'
    BY <1>0, <1>7 DEF Compute
  <1>8. ASSUME NEW c \in Command, EstimateReturns(c)
        PROVE  AllFound'
    <2>1. \A d \in Command \ {c} : request'[d] = request[d] /\ data'[d] = data[d]
      BY <1>0, <1>8, Zenon DEF EstimateReturns
    <2>2. at' = [at EXCEPT ![c] = "idle"]
      BY <1>8 DEF EstimateReturns
    <2> QED BY <1>0, <2>1, <2>2
  <1>9. CASE UNCHANGED estimateVars
    BY <1>0, <1>9 DEF estimateVars
  <1> QED BY <1>1, <1>2, <1>3, <1>4, <1>5, <1>6, <1>61, <1>62, <1>7, <1>8, <1>9
          DEF EstimateNext

\* What Refreshed says of one command; a step of another does not disturb it.
Refreshes(c) ==
    request[c].refresh =>
        /\ \A k \in Keys : RightPrice(catalogue, k) \subseteq since[c][k]
        /\ at[c] \in HasLooked =>
             \A p \in Part : data[c][KeyOf(c, p)] \in since[c][KeyOf(c, p)]

\* A step that changes no price keeps what a refreshing command has.
LEMMA RefreshesOn ==
    ASSUME NEW c \in Command, Refreshes(c), UNCHANGED catalogue,
           request'[c] = request[c], since'[c] = since[c], data'[c] = data[c],
           at'[c] \in HasLooked => at[c] \in HasLooked
    PROVE  Refreshes(c)'
  BY Zenon DEF Refreshes, KeyOf

\* A refreshing command keeps up with every change of a price, and finds
\* only prices that it has kept up with.
LEMMA RefreshedStep == ASSUME EstimateInv, [EstimateNext]_estimateVars
                       PROVE  Refreshed'
  <1>0. EstimateTypeOK /\ \A c \in Command : Refreshes(c)
    BY Zenon DEF EstimateInv, Refreshed, Refreshes
  <1> SUFFICES ASSUME NEW d \in Command
               PROVE  Refreshes(d)'
    BY Zenon DEF Refreshed, Refreshes
  <1> USE DEF EstimateTypeOK, Moves, world, files, HasLooked
  <1>1. CASE Change
    <2>1. UNCHANGED <<at, request, data>>
      BY <1>1 DEF Change
    <2> SUFFICES ASSUME request[d].refresh
                 PROVE  /\ \A k \in Keys : RightPrice(catalogue', k) \subseteq since'[d][k]
                        /\ at[d] \in HasLooked => \A p \in Part :
                             data[d][KeyOf(d, p)] \in since'[d][KeyOf(d, p)]
      BY <2>1, Zenon DEF Refreshes, KeyOf
    <2>2. since'[d] = [k \in Keys |-> since[d][k] \cup RightPrice(catalogue', k)]
      BY <1>1, Zenon DEF Change
    <2>3. at[d] \in HasLooked =>
            \A p \in Part : data[d][KeyOf(d, p)] \in since[d][KeyOf(d, p)]
      BY <1>0, Zenon DEF Refreshes
    <2> QED BY <1>0, <2>2, <2>3, KeyIsKey
  <1>2. ASSUME NEW c \in Command, BeginEstimate(c)
        PROVE  Refreshes(d)'
    <2>1. CASE d = c
      <3>1. at'[d] = "load" /\ UNCHANGED catalogue
        BY <1>0, <1>2, <2>1 DEF BeginEstimate
      <3>2. since'[d] = [k \in Keys |->
                 IF request'[d].refresh THEN RightPrice(catalogue, k) ELSE {}]
        BY <1>0, <1>2, <2>1, Zenon DEF BeginEstimate
      <3>3. request'[d].refresh =>
              \A k \in Keys : RightPrice(catalogue', k) \subseteq since'[d][k]
        BY <3>1, <3>2, Zenon
      <3> QED BY <3>1, <3>3, Zenon DEF Refreshes
    <2>2. CASE d # c
      BY <1>0, <1>2, <2>2, RefreshesOn, Zenon DEF BeginEstimate
    <2> QED BY <2>1, <2>2
  <1>3. ASSUME NEW c \in Command, LoadCache(c)
        PROVE  Refreshes(d)'
    <2>1. CASE d = c
      <3>1. at'[d] = "look" /\ UNCHANGED <<catalogue, request, since>>
        BY <1>0, <1>3, <2>1 DEF LoadCache
      <3> QED BY <1>0, <3>1, Zenon DEF Refreshes
    <2>2. CASE d # c
      BY <1>0, <1>3, <2>2, RefreshesOn, Zenon DEF LoadCache
    <2> QED BY <2>1, <2>2
  <1>4. ASSUME NEW c \in Command, AllCached(c)
        PROVE  Refreshes(d)'
    <2>1. CASE d = c
      <3>1. ~request[d].refresh
        BY <1>4, <2>1, Zenon DEF AllCached, ToResolve, Part
      <3>2. UNCHANGED request
        BY <1>4 DEF AllCached
      <3> QED BY <3>1, <3>2, Zenon DEF Refreshes
    <2>2. CASE d # c
      BY <1>0, <1>4, <2>2, RefreshesOn, Zenon DEF AllCached
    <2> QED BY <2>1, <2>2
  <1>5. ASSUME NEW c \in Command, Fetch(c)
        PROVE  Refreshes(d)'
    <2>1. CASE d = c
      <3>1. UNCHANGED <<catalogue, request, since>>
        BY <1>5 DEF Fetch
      <3> SUFFICES ASSUME request[d].refresh
                   PROVE  \A p \in Part :
                            data'[d][KeyOf(d, p)] \in since[d][KeyOf(d, p)]
        BY <1>0, <3>1, Zenon DEF Refreshes, KeyOf
      <3>2. \A k \in Keys : RightPrice(catalogue, k) \subseteq since[d][k]
        BY <1>0, Zenon DEF Refreshes
      <3>3. \A p \in Part : KeyOf(d, p) \in Keys
              /\ data'[d][KeyOf(d, p)] \in RightPrice(catalogue, KeyOf(d, p))
        BY <1>5, <2>1, FetchFinds, Zenon
      <3> QED BY <3>2, <3>3, Zenon
    <2>2. CASE d # c
      <3>1. data'[d] = data[d]
        BY <1>0, <1>5, <2>2 DEF Fetch
      <3> QED BY <1>0, <1>5, <2>2, <3>1, RefreshesOn, Zenon DEF Fetch
    <2> QED BY <2>1, <2>2
  <1>6. ASSUME NEW c \in Command, SaveOpens(c)
        PROVE  Refreshes(d)'
    <2>1. at'[d] \in HasLooked => at[d] \in HasLooked
      BY <1>0, <1>6 DEF SaveOpens
    <2> QED BY <1>0, <1>6, <2>1, RefreshesOn, Zenon DEF SaveOpens
  <1>61. ASSUME NEW c \in Command, SaveWrites(c)
         PROVE  Refreshes(d)'
    <2>1. at'[d] \in HasLooked => at[d] \in HasLooked
      BY <1>0, <1>61 DEF SaveWrites
    <2> QED BY <1>0, <1>61, <2>1, RefreshesOn, Zenon DEF SaveWrites
  <1>62. ASSUME NEW c \in Command, SaveRenames(c)
         PROVE  Refreshes(d)'
    <2>1. at'[d] \in HasLooked => at[d] \in HasLooked
      BY <1>0, <1>62 DEF SaveRenames
    <2> QED BY <1>0, <1>62, <2>1, RefreshesOn, Zenon DEF SaveRenames
  <1>7. ASSUME NEW c \in Command, Compute(c)
        PROVE  Refreshes(d)'
    <2>1. at'[d] \in HasLooked => at[d] \in HasLooked
      BY <1>0, <1>7 DEF Compute
    <2> QED BY <1>0, <1>7, <2>1, RefreshesOn, Zenon DEF Compute
  <1>8. ASSUME NEW c \in Command, EstimateReturns(c)
        PROVE  Refreshes(d)'
    <2>1. CASE d = c
      <3>1. ~request'[d].refresh
        BY <1>0, <1>8, <2>1, Zenon DEF EstimateReturns, NoRequest
      <3> QED BY <3>1, Zenon DEF Refreshes
    <2>2. CASE d # c
      BY <1>0, <1>8, <2>2, RefreshesOn, Zenon DEF EstimateReturns
    <2> QED BY <2>1, <2>2
  <1>9. CASE UNCHANGED estimateVars
    BY <1>0, <1>9, RefreshesOn, Zenon DEF estimateVars
  <1> QED BY <1>1, <1>2, <1>3, <1>4, <1>5, <1>6, <1>61, <1>62, <1>7, <1>8, <1>9
          DEF EstimateNext

\* The two properties of an estimate that is done, for one command.
Genuine(c) == at[c] = "done" => \A p \in Part : quote[c][p] \in offered[KeyOf(c, p)]
Fresh(c) == at[c] = "done" /\ request[c].refresh =>
              \A p \in Part : quote[c][p] \in since[c][KeyOf(c, p)]

\* A step that makes no quote keeps those that were made.
LEMMA QuotesOn ==
    ASSUME NEW c \in Command, Genuine(c), Fresh(c), UNCHANGED offered,
           request'[c] = request[c], since'[c] = since[c], quote'[c] = quote[c],
           at'[c] = "done" => at[c] = "done"
    PROVE  Genuine(c)' /\ Fresh(c)'
  BY Zenon DEF Genuine, Fresh, KeyOf

\* A quote is made of prices that the command has found.
LEMMA QuoteStep == ASSUME EstimateInv, [EstimateNext]_estimateVars
                   PROVE  QuoteIsGenuine' /\ RefreshIsCurrent'
  <1>0. EstimateTypeOK /\ \A c \in Command : Genuine(c) /\ Fresh(c)
    BY Zenon DEF EstimateInv, QuoteIsGenuine, RefreshIsCurrent, Genuine, Fresh
  <1> SUFFICES ASSUME NEW d \in Command
               PROVE  Genuine(d)' /\ Fresh(d)'
    BY Zenon DEF QuoteIsGenuine, RefreshIsCurrent, Genuine, Fresh
  <1> USE DEF EstimateTypeOK, Moves, world, files, HasLooked
  <1>1. CASE Change
    <2>1. UNCHANGED <<at, request, quote>>
      BY <1>1 DEF Change
    <2>2. \A k \in Keys : offered[k] \subseteq offered'[k]
      BY <1>0, <1>1 DEF Change
    <2>3. \A k \in Keys : since[d][k] \subseteq since'[d][k]
      <3>1. since'[d] = IF ~request[d].refresh THEN since[d]
                        ELSE [k \in Keys |-> since[d][k] \cup RightPrice(catalogue', k)]
        BY <1>1, Zenon DEF Change
      <3>2. CASE ~request[d].refresh
        BY <3>1, <3>2, Zenon
      <3>3. CASE request[d].refresh
        <4>1. since'[d] = [k \in Keys |-> since[d][k] \cup RightPrice(catalogue', k)]
          BY <3>1, <3>3, Zenon
        <4> QED BY <4>1
      <3> QED BY <3>2, <3>3
    <2>4. \A p \in Part : KeyOf(d, p) \in Keys /\ KeyOf(d, p)' = KeyOf(d, p)
      BY <1>0, <2>1, KeyIsKey DEF KeyOf
    <2> QED BY <1>0, <2>1, <2>2, <2>3, <2>4, Zenon DEF Genuine, Fresh
  <1>2. ASSUME NEW c \in Command, BeginEstimate(c)
        PROVE  Genuine(d)' /\ Fresh(d)'
    <2>1. CASE d = c
      <3>1. at'[d] = "load"
        BY <1>0, <1>2, <2>1 DEF BeginEstimate
      <3> QED BY <3>1, Zenon DEF Genuine, Fresh
    <2>2. CASE d # c
      BY <1>0, <1>2, <2>2, QuotesOn, Zenon DEF BeginEstimate
    <2> QED BY <2>1, <2>2
  <1>3. ASSUME NEW c \in Command, LoadCache(c)
        PROVE  Genuine(d)' /\ Fresh(d)'
    <2>1. at'[d] = "done" => at[d] = "done"
      BY <1>0, <1>3 DEF LoadCache
    <2> QED BY <1>0, <1>3, <2>1, QuotesOn, Zenon DEF LoadCache
  <1>4. ASSUME NEW c \in Command, AllCached(c)
        PROVE  Genuine(d)' /\ Fresh(d)'
    <2>1. at'[d] = "done" => at[d] = "done"
      BY <1>0, <1>4 DEF AllCached
    <2> QED BY <1>0, <1>4, <2>1, QuotesOn, Zenon DEF AllCached
  <1>5. ASSUME NEW c \in Command, Fetch(c)
        PROVE  Genuine(d)' /\ Fresh(d)'
    <2>1. at'[d] = "done" => at[d] = "done"
      BY <1>0, <1>5 DEF Fetch
    <2> QED BY <1>0, <1>5, <2>1, QuotesOn, Zenon DEF Fetch
  <1>6. ASSUME NEW c \in Command, SaveOpens(c)
        PROVE  Genuine(d)' /\ Fresh(d)'
    <2>1. at'[d] = "done" => at[d] = "done"
      BY <1>0, <1>6 DEF SaveOpens
    <2> QED BY <1>0, <1>6, <2>1, QuotesOn, Zenon DEF SaveOpens
  <1>61. ASSUME NEW c \in Command, SaveWrites(c)
         PROVE  Genuine(d)' /\ Fresh(d)'
    <2>1. at'[d] = "done" => at[d] = "done"
      BY <1>0, <1>61 DEF SaveWrites
    <2> QED BY <1>0, <1>61, <2>1, QuotesOn, Zenon DEF SaveWrites
  <1>62. ASSUME NEW c \in Command, SaveRenames(c)
         PROVE  Genuine(d)' /\ Fresh(d)'
    <2>1. at'[d] = "done" => at[d] = "done"
      BY <1>0, <1>62 DEF SaveRenames
    <2> QED BY <1>0, <1>62, <2>1, QuotesOn, Zenon DEF SaveRenames
  <1>7. ASSUME NEW c \in Command, Compute(c)
        PROVE  Genuine(d)' /\ Fresh(d)'
    <2>1. CASE d = c
      <3>1. /\ at[d] = "price"
            /\ quote'[d] = [p \in Part |-> data[d][KeyOf(d, p)]]
            /\ UNCHANGED <<request, offered, since>>
        BY <1>0, <1>7, <2>1 DEF Compute
      <3>2. \A p \in Part : data[d][KeyOf(d, p)] \in offered[KeyOf(d, p)]
        BY <1>0, <3>1, KeyIsKey DEF EstimateInv, CachedAreOffered, AllFound, HasLooked
      <3>3. request[d].refresh =>
              \A p \in Part : data[d][KeyOf(d, p)] \in since[d][KeyOf(d, p)]
        BY <3>1, Zenon DEF EstimateInv, Refreshed, HasLooked
      <3>4. \A p \in Part : quote'[d][p] = data[d][KeyOf(d, p)]
                              /\ KeyOf(d, p)' = KeyOf(d, p)
        BY <3>1 DEF KeyOf
      <3> QED BY <3>1, <3>2, <3>3, <3>4, Zenon DEF Genuine, Fresh
    <2>2. CASE d # c
      BY <1>0, <1>7, <2>2, QuotesOn, Zenon DEF Compute
    <2> QED BY <2>1, <2>2
  <1>8. ASSUME NEW c \in Command, EstimateReturns(c)
        PROVE  Genuine(d)' /\ Fresh(d)'
    <2>1. CASE d = c
      <3>1. at'[d] = "idle"
        BY <1>0, <1>8, <2>1 DEF EstimateReturns
      <3> QED BY <3>1, Zenon DEF Genuine, Fresh
    <2>2. CASE d # c
      BY <1>0, <1>8, <2>2, QuotesOn, Zenon DEF EstimateReturns
    <2> QED BY <2>1, <2>2
  <1>9. CASE UNCHANGED estimateVars
    BY <1>0, <1>9, QuotesOn, Zenon DEF estimateVars
  <1> QED BY <1>1, <1>2, <1>3, <1>4, <1>5, <1>6, <1>61, <1>62, <1>7, <1>8, <1>9, Zenon
             DEF EstimateNext

-----------------------------------------------------------------------------
(***************************************************************************)
(* Theorems                                                                *)
(***************************************************************************)

\* Every price in the cache has been right, and a refreshing command has
\* only ones that have been right since it began.
THEOREM EstimateConsistent == EstimateSpec => []EstimateInv
  <1>1. EstimateInv /\ [EstimateNext]_estimateVars => EstimateInv'
    BY EstimateTypeStep, CachedStep, FoundStep, RefreshedStep, QuoteStep, Zenon
       DEF EstimateInv
  <1> QED BY EstimateInitially, <1>1, PTL DEF EstimateSpec

\* Prices, caches and quotes keep their types, however commands interleave.
THEOREM EstimateTypeCorrect == EstimateSpec => []EstimateTypeOK
  <1>1. EstimateInv => EstimateTypeOK
    BY DEF EstimateInv
  <1> QED BY EstimateConsistent, <1>1, PTL

\* Every estimate quotes prices that were, at some time, those of the one
\* SKU which the ranking puts above every other for that part:
\* resolveSelector never takes another one, and no save, however commands
\* truncate and rename each other's files, gives a key another price.
THEOREM QuoteAlwaysGenuine == EstimateSpec => []QuoteIsGenuine
  <1>1. EstimateInv => QuoteIsGenuine
    BY DEF EstimateInv
  <1> QED BY EstimateConsistent, <1>1, PTL

\* An estimate with --refresh quotes only prices that were right while the
\* command ran, whatever other commands save meanwhile.
THEOREM RefreshAlwaysCurrent == EstimateSpec => []RefreshIsCurrent
  <1>1. EstimateInv => RefreshIsCurrent
    BY DEF EstimateInv
  <1> QED BY EstimateConsistent, <1>1, PTL

-----------------------------------------------------------------------------
(***************************************************************************)
(* The invariant of the display                                            *)
(***************************************************************************)

\* The rows of a block in a stage.
StageRow(s) == {r \in Row : r.at = s /\ r.kind \notin {"line", "mixed"}}

Shown   == pc[Main] \notin {"open", "off"}
Calling == pc[Main] \in {"call", "want", "draw", "mark", "begin", "lines"}

\* Who runs, and who waits for whom.
Control ==
    /\ pc[Main] \notin {"wait", "set"}
    /\ split.mode = "off" <=> pc[Main] \in {"open", "closed", "off"}
    /\ stage = "over" <=> pc[Main] = "off"
    /\ \A w \in Worker :
         /\ pc[w] \in {"off", "call", "want", "draw", "mark"}
         /\ pc[w] # "off" => pc[Main] = "stop"
    /\ pc[Ticker] \in {"off", "wait", "set", "want", "draw"}
    /\ Calling \/ pc[Main] = "stop" => done = "open" /\ pc[Ticker] # "off"
    /\ pc[Main] = "stopping" => done # "open"
    /\ pc[Main] \in {"close", "closed"} => done = "seen"
    /\ pc[Main] \in {"open", "close", "closed", "off"} => pc[Ticker] = "off"
    /\ done = "closed" => pc[Ticker] # "off"
    /\ Calling => newlines = 0

\* One goroutine draws at a time, and has rows to draw.
OneDrawer ==
    /\ \A a \in Actor : (pc[a] = "draw" <=> writer = a)
                        /\ (writer # a => todo[a] = <<>>)
    /\ \A a \in Actor : pc[a] \in {"want", "draw"} =>
         IF a = Ticker THEN split.tasks # <<>> ELSE split.calls # <<>>

\* The block is made of rows of its stage, and grows only.
BlockOfStage ==
    /\ pc[Ticker] = "set" <=> frame # <<>>
    /\ frame # <<>> => Len(frame) = Cardinality(Tasks(stage))
    /\ split.mode = "drawn" => split.height <= Len(Block(split))
    /\ split.mode # "drawn" => split.height = 0
    /\ Shown =>
         /\ frame \in Seq(StageRow(stage))
         /\ split.calls \in Seq(StageRow(stage))
         /\ split.tasks \in Seq(StageRow(stage))
         /\ split.tasks # <<>> => Len(split.tasks) = Cardinality(Tasks(stage))

\* How many rows of the block are drawn anew, and the rows above the block.
Depth == IF writer = Free THEN 0 ELSE Len(Block(split)) - Len(todo[writer])

Above ==
    IF writer = Free
    THEN IF split.mode = "drawn" THEN cursor - split.height ELSE cursor - 1
    ELSE IF todo[writer] = <<>> THEN cursor - Depth ELSE cursor - Depth - 1

Larger(m, n) == IF m > n THEN m ELSE n

\* Where the block is on the terminal, and what is still to be drawn of it.
Geometry ==
    /\ Above \in Nat
    /\ Len(screen) <= Above + Larger(split.height, Depth)
    /\ split.mode # "off" /\ newlines = 0 =>
         Len(screen) = Above + Larger(split.height, Depth)
    /\ pc[Main] \in {"open", "closed"} => Len(screen) = Above
    /\ writer # Free =>
         /\ Len(todo[writer]) <= Len(Block(split))
         /\ \A i \in 1 .. Len(todo[writer]) : todo[writer][i] = Block(split)[Depth + i]

\* Where the lines of a terminal are, and that they are the first n.
LineRows(rows) == {i \in DOMAIN rows : rows[i].kind = "line"}

LinesIn(rows, n) ==
    /\ \A i \in DOMAIN rows : rows[i].kind # "mixed"
    /\ {rows[i] : i \in LineRows(rows)} = {Line(m) : m \in 1 .. n}
    /\ \A i, j \in LineRows(rows) : i < j => rows[i].of < rows[j].of

\* The printed lines are above the block.
LinesAbove ==
    \A i \in DOMAIN screen : screen[i].kind = "line" => i <= Above

\* The rows of the stage are the block.
RowsBelow ==
    /\ split.mode # "off" /\ newlines = 0 =>
         \A i \in DOMAIN screen : screen[i].at = stage <=> i > Above
    /\ stage = "estimate" => \A i \in DOMAIN screen : screen[i].at # "start"
    /\ pc[Main] = "open" => \A i \in DOMAIN screen : screen[i].at # stage

\* So many rows of the block are on the terminal as they are to be.
Matches(n) ==
    \A i \in 1 .. n : Above + i <= Len(screen) /\ screen[Above + i] = Block(split)[i]

\* The last drawing of the ticker.
LastDrawing ==
    done = "seen" =>
        /\ pc[Ticker] = "set" => frame = Rows(marked, stage)
        /\ pc[Ticker] \in {"want", "draw"} => split.tasks = Rows(marked, stage)
        /\ pc[Ticker] = "draw" => Matches(Depth)
        /\ pc[Ticker] = "off" /\ pc[Main] \in {"stopping", "close", "closed"} =>
             split.tasks = Rows(marked, stage)
        /\ pc[Ticker] = "off" /\ pc[Main] \in {"stopping", "close"} =>
             /\ split.mode = "drawn" /\ split.height = Len(Block(split))
             /\ Matches(split.height)

\* A block is on the terminal, and no row of the stage is below it.
FrameShown(block, rows, s) ==
    \E k \in 0 .. Len(rows) - Len(block) :
        /\ \A n \in DOMAIN block : rows[k + n] = block[n]
        /\ \A i \in DOMAIN rows : i > k + Len(block) => rows[i].at # s

DisplayInv ==
    /\ TypeOK
    /\ Control
    /\ OneDrawer
    /\ BlockOfStage
    /\ Geometry
    /\ LinesStay
    /\ LinesAbove
    /\ RowsBelow
    /\ LastDrawing
    /\ LastFrameIsLatest

-----------------------------------------------------------------------------
(***************************************************************************)
(* Lemmas                                                                  *)
(***************************************************************************)

\* The goroutines are different ones.
LEMMA Actors ==
    /\ Main \in Actor /\ Ticker \in Actor /\ Worker \subseteq Actor
    /\ Main # Ticker /\ Main \notin Worker /\ Ticker \notin Worker
    /\ \A a \in Actor : a = Main \/ a = Ticker \/ a \in Worker
    /\ Free \notin Actor
  BY LiveDisplayAssumption DEF Main, Ticker, Worker, Actor, Free

\* Every stage has a task.
LEMMA TaskCount == ASSUME NEW s
                   PROVE  Cardinality(Tasks(s)) \in Nat \ {0}
  <1>1. 0 \in Int /\ 1 \in Int /\ NumWorkers \in Int
    BY LiveDisplayAssumption
  <1>2. IsFiniteSet(0 .. 1) /\ IsFiniteSet(1 .. NumWorkers)
    BY <1>1, FS_Interval
  <1>3. IsFiniteSet({Main} \cup Worker)
    BY <1>2, FS_Singleton, FS_Union, Zenon DEF Worker
  <1>4. IsFiniteSet(Tasks(s))
    BY <1>2, <1>3, Zenon DEF Tasks
  <1>5. 0 \in Tasks(s)
    BY DEF Tasks, Main
  <1>6. Cardinality(Tasks(s)) \in Nat /\ Cardinality(Tasks(s)) # 0
    BY <1>4, <1>5, FS_CardinalityType, FS_EmptySet, Zenon
  <1> QED BY <1>6

\* A function on an initial segment of the numbers is a sequence.
LEMMA FunctionIsSeq == ASSUME NEW S, NEW n \in Nat, NEW f \in [1 .. n -> S]
                       PROVE  f \in Seq(S) /\ Len(f) = n /\ DOMAIN f = 1 .. n
  <1>1. f \in Seq(S)
    BY SeqDef, Zenon
  <1>2. Len(f) \in Nat /\ DOMAIN f = 1 .. Len(f) /\ DOMAIN f = 1 .. n
    BY <1>1, LenProperties, Zenon
  <1>3. Len(f) = n
    BY <1>2
  <1> QED BY <1>1, <1>2, <1>3

\* A rendering of the tasks has a row for each of them, of the stage.
LEMMA RowsType == ASSUME NEW ms, NEW s \in Stages
                  PROVE  /\ Rows(ms, s) \in Seq(StageRow(s))
                         /\ Len(Rows(ms, s)) = Cardinality(Tasks(s))
                         /\ Rows(ms, s) # <<>>
  <1> DEFINE n == Cardinality(Tasks(s))
  <1>1. n \in Nat \ {0}
    BY TaskCount
  <1> HIDE DEF n
  <1>2. \A i \in 1 .. n : [kind |-> IF i - 1 \in ms THEN "done" ELSE "task", of |-> i - 1, at |-> s]
                            \in StageRow(s)
    BY <1>1 DEF StageRow, Row
  <1>3. Rows(ms, s) \in [1 .. n -> StageRow(s)]
    BY <1>2 DEF Rows, n
  <1>4. Rows(ms, s) \in Seq(StageRow(s)) /\ Len(Rows(ms, s)) = n
    BY <1>1, <1>3, FunctionIsSeq
  <1> QED BY <1>1, <1>4, EmptySeq DEF n

\* The length of a block of rows.
LEMMA BlockType ==
    ASSUME stage \in Stages, NEW s,
           s.calls \in Seq(StageRow(stage)), s.tasks \in Seq(StageRow(stage))
    PROVE  /\ Block(s) \in Seq(StageRow(stage))
           /\ Len(Block(s)) = Len(s.calls) + Len(s.tasks)
                + (IF s.calls # <<>> /\ s.tasks # <<>> THEN 1 ELSE 0)
  <1> DEFINE S == StageRow(stage)
             gap == IF s.calls # <<>> /\ s.tasks # <<>> THEN <<Gap>> ELSE <<>>
  <1>1. Gap \in S
    BY DEF Gap, StageRow, Row
  <1>2. /\ <<Gap>> \in Seq(S) /\ <<>> \in Seq(S)
        /\ Len(<<Gap>>) = 1 /\ Len(<<>>) = 0
    <2> HIDE DEF S
    <2> QED BY <1>1
  <1>3. gap \in Seq(S) /\ Len(gap) = IF s.calls # <<>> /\ s.tasks # <<>> THEN 1 ELSE 0
    <2>1. CASE s.calls # <<>> /\ s.tasks # <<>>
      <3>1. gap = <<Gap>> /\ (IF s.calls # <<>> /\ s.tasks # <<>> THEN 1 ELSE 0) = 1
        BY <2>1, Zenon
      <3> QED BY <3>1, <1>2, Zenon
    <2>2. CASE ~(s.calls # <<>> /\ s.tasks # <<>>)
      <3>1. gap = <<>> /\ (IF s.calls # <<>> /\ s.tasks # <<>> THEN 1 ELSE 0) = 0
        BY <2>2, Zenon
      <3> QED BY <3>1, <1>2, Zenon
    <2> QED BY <2>1, <2>2
  <1>4. Block(s) = s.calls \o gap \o s.tasks
    BY DEF Block
  <1> HIDE DEF S, gap
  <1>5. s.calls \o gap \in Seq(S) /\ Len(s.calls \o gap) = Len(s.calls) + Len(gap)
    <2>1. s.calls \in Seq(S)
      BY DEF S
    <2> QED BY <1>3, <2>1, ConcatProperties
  <1>6. Block(s) \in Seq(S) /\ Len(Block(s)) = Len(s.calls) + Len(gap) + Len(s.tasks)
    <2>1. s.tasks \in Seq(S)
      BY DEF S
    <2> QED BY <1>4, <1>5, <2>1, ConcatProperties
  <1>7. Len(s.calls) \in Nat /\ Len(s.tasks) \in Nat
    BY LenProperties
  <1>8. Len(Block(s)) = Len(s.calls) + Len(s.tasks)
                + (IF s.calls # <<>> /\ s.tasks # <<>> THEN 1 ELSE 0)
    <2> DEFINE g == IF s.calls # <<>> /\ s.tasks # <<>> THEN 1 ELSE 0
               m == Len(s.calls)
               n == Len(s.tasks)
    <2>1. g \in Nat /\ m \in Nat /\ n \in Nat /\ Len(Block(s)) = m + g + n
      BY <1>3, <1>6, <1>7
    <2> HIDE DEF g, m, n
    <2>2. Len(Block(s)) = m + n + g
      BY <2>1
    <2> QED BY <2>2 DEF g, m, n
  <1> QED BY <1>6, <1>8 DEF S

\* What is on the terminal after a row has been overwritten.
LEMMA PutRow ==
    ASSUME NEW rows \in Seq(Row), NEW k \in Nat \ {0}, NEW row \in Row
    PROVE  /\ Put(rows, k, row) \in Seq(Row)
           /\ Len(Put(rows, k, row)) = Larger(Len(rows), k)
           /\ DOMAIN Put(rows, k, row) = 1 .. Larger(Len(rows), k)
           /\ Put(rows, k, row)[k] = row
           /\ \A n \in 1 .. Larger(Len(rows), k) : n # k =>
                Put(rows, k, row)[n] = IF n <= Len(rows) THEN rows[n] ELSE Empty
  <1> DEFINE m == IF k > Len(rows) THEN k ELSE Len(rows)
             f == [n \in 1 .. m |-> IF n = k THEN row
                                    ELSE IF n <= Len(rows) THEN rows[n] ELSE Empty]
  <1>1. m \in Nat /\ k \in 1 .. m /\ m = Larger(Len(rows), k)
    BY DEF Larger
  <1>2. Put(rows, k, row) = f
    BY DEF Put
  <1>3. Empty \in Row
    BY DEF Empty, Row, Stages
  <1> HIDE DEF m
  <1>4. f \in [1 .. m -> Row]
    BY <1>1, <1>3
  <1>5. f \in Seq(Row) /\ Len(f) = m /\ DOMAIN f = 1 .. m
    BY <1>1, <1>4, FunctionIsSeq
  <1> QED BY <1>1, <1>2, <1>5

\* Rows of a stage are rows.
LEMMA StageRows == ASSUME NEW s, NEW q \in Seq(StageRow(s))
                   PROVE  /\ q \in Seq(Row)
                          /\ \A i \in 1 .. Len(q) : /\ q[i] \in Row /\ q[i].at = s
                                                    /\ q[i].kind \notin {"line", "mixed"}
  BY DEF StageRow

\* Every step keeps Control.
LEMMA ControlStep == ASSUME DisplayInv, [Next]_vars
                     PROVE  Control'
  <1>0. TypeOK /\ Control /\ OneDrawer
    BY DEF DisplayInv
  <1> USE DEF TypeOK, Control, Calling, Goto, terminal, tasks
  <1>1. ASSUME NEW a \in Actor, BeginDraw(a)
        PROVE  Control'
    BY <1>0, <1>1, Actors DEF BeginDraw
  <1>2. ASSUME NEW a \in Actor, DrawRow(a)
        PROVE  Control'
    BY <1>0, <1>2, Actors DEF DrawRow
  <1>3. ASSUME NEW a \in Actor, EndDraw(a)
        PROVE  Control'
    BY <1>0, <1>3, Actors DEF EndDraw
  <1>4. ASSUME NEW a \in Actor, a # Ticker, AppendAPI(a)
        PROVE  Control'
    BY <1>0, <1>4, Actors DEF AppendAPI
  <1>5. ASSUME NEW a \in Actor, a # Ticker, MarkDone(a)
        PROVE  Control'
    <2>1. CASE a \in Worker
      BY <1>0, <1>5, <2>1, Actors DEF MarkDone, After
    <2>2. CASE a = Main
      <3>1. pc' = [pc EXCEPT ![Main] = After(Main)] /\ pc[Main] = "mark"
        BY <1>5, <2>2 DEF MarkDone
      <3>2. After(Main) \in {"begin", "call", "lines"}
        BY Actors DEF After
      <3> QED BY <1>0, <1>5, <3>1, <3>2, Actors DEF MarkDone
    <2> QED BY <1>5, <2>1, <2>2, Actors
  <1>6. ASSUME NEW a \in Actor, a # Ticker, CallFails(a)
        PROVE  Control'
    BY <1>0, <1>6, Actors DEF CallFails
  <1>7. CASE Cached
    BY <1>0, <1>7, Actors DEF Cached
  <1>8. CASE Tick
    BY <1>0, <1>8, Actors DEF Tick
  <1>9. CASE LastTick
    BY <1>0, <1>9, Actors DEF LastTick
  <1>10. CASE SetTaskLines
    BY <1>0, <1>10, Actors DEF SetTaskLines
  <1>11. CASE Open
    BY <1>0, <1>11, Actors DEF Open
  <1>12. CASE WorkersBegin
    BY <1>0, <1>12, Actors DEF WorkersBegin
  <1>13. CASE WriteLine
    BY <1>0, <1>13, Actors DEF WriteLine
  <1>14. CASE WriteNewline
    BY <1>0, <1>14, Actors DEF WriteNewline
  <1>15. CASE StopTasks
    BY <1>0, <1>15, Actors DEF StopTasks
  <1>16. CASE TasksStopped
    BY <1>0, <1>16, Actors DEF TasksStopped
  <1>17. CASE Close
    BY <1>0, <1>17, Actors DEF Close
  <1>18. CASE PrintLine
    BY <1>0, <1>18, Actors DEF PrintLine
  <1>19. CASE NextStage
    BY <1>0, <1>19, Actors DEF NextStage
  <1>20. CASE UNCHANGED vars
    BY <1>0, <1>20, Actors DEF vars
  <1> QED BY <1>1, <1>2, <1>3, <1>4, <1>5, <1>6, <1>7, <1>8, <1>9, <1>10, <1>11,
             <1>12, <1>13, <1>14, <1>15, <1>16, <1>17, <1>18, <1>19, <1>20,
             Zenon
         DEF Next, LockStep, FreeStep, MainStep

\* Whoever makes a call, draws or ticks does it while a display is shown.
LEMMA Active ==
    ASSUME TypeOK, Control, NEW a \in Actor,
           pc[a] \in {"call", "want", "draw", "mark", "wait", "set", "begin", "lines"}
    PROVE  Shown /\ split.mode # "off" /\ stage # "over" /\ pc[Main] \notin {"close", "closed"}
  BY Actors DEF Control, Shown, TypeOK

\* A block that is shown is made of rows of its stage; with a call or a
\* task it is not empty.
LEMMA BlockRows ==
    ASSUME TypeOK, BlockOfStage, Shown
    PROVE  /\ Block(split) \in Seq(StageRow(stage)) /\ Block(split) \in Seq(Row)
           /\ Len(Block(split)) \in Nat
           /\ split.calls # <<>> \/ split.tasks # <<>> => Len(Block(split)) # 0
  <1>1. /\ stage \in Stages
        /\ split.calls \in Seq(StageRow(stage)) /\ split.tasks \in Seq(StageRow(stage))
    BY DEF TypeOK, BlockOfStage
  <1>2. /\ Block(split) \in Seq(StageRow(stage))
        /\ Len(Block(split)) = Len(split.calls) + Len(split.tasks)
             + (IF split.calls # <<>> /\ split.tasks # <<>> THEN 1 ELSE 0)
    BY <1>1, BlockType
  <1>3. Len(split.calls) \in Nat /\ Len(split.tasks) \in Nat /\ Len(Block(split)) \in Nat
    BY <1>1, <1>2, LenProperties
  <1>4. /\ split.calls # <<>> => Len(split.calls) # 0
        /\ split.tasks # <<>> => Len(split.tasks) # 0
    BY <1>1, EmptySeq
  <1>5. split.calls # <<>> \/ split.tasks # <<>> => Len(Block(split)) # 0
    <2> DEFINE m == Len(split.calls)
               n == Len(split.tasks)
               g == IF split.calls # <<>> /\ split.tasks # <<>> THEN 1 ELSE 0
    <2>1. g \in Nat /\ m \in Nat /\ n \in Nat /\ Len(Block(split)) = m + n + g
      BY <1>2, <1>3
    <2>2. split.calls # <<>> \/ split.tasks # <<>> => m # 0 \/ n # 0
      BY <1>4
    <2> HIDE DEF m, n, g
    <2> QED BY <2>1, <2>2
  <1> QED BY <1>2, <1>3, <1>5, StageRows

\* Lines, calls, and what becomes of rows are rows.
LEMMA RowTypes == ASSUME NEW n \in Nat, stage \in Stages
                  PROVE  Line(n) \in Row /\ CallRow(n) \in Row /\ Mixed \in Row /\ Empty \in Row
  BY DEF Line, CallRow, Mixed, Empty, Row, Stages

\* A line printed above the block: the rows above stay, the line is next,
\* and the block follows it whole.
LEMMA WrittenLine ==
    ASSUME DisplayInv, WriteLine
    PROVE  /\ Above \in 0 .. Len(screen) /\ Len(Block(split)) \in Nat
           /\ screen' \in Seq(Row)
           /\ Len(screen') = Above + 1 + Len(Block(split))
           /\ cursor' = Len(screen')
           /\ \A i \in 1 .. Above : screen'[i] = screen[i]
           /\ screen'[Above + 1] = Line(printed + 1)
           /\ \A i \in 1 .. Len(Block(split)) : screen'[Above + 1 + i] = Block(split)[i]
  <1>0. TypeOK /\ Control /\ OneDrawer /\ BlockOfStage /\ Geometry
    BY DEF DisplayInv
  <1>1. /\ pc[Main] = "lines" /\ writer = Free /\ newlines = 0
        /\ Shown /\ split.mode # "off"
    BY <1>0, Actors DEF WriteLine, Control, Calling, Shown
  <1>2. Block(split) \in Seq(Row) /\ Len(Block(split)) \in Nat
    BY <1>0, <1>1, BlockRows
  <1>3. Above \in Nat /\ Above <= Len(screen) /\ Len(screen) \in Nat
    <2>1. Len(screen) = Above + Larger(split.height, 0) /\ Above \in Nat
      BY <1>0, <1>1 DEF Geometry, Depth
    <2>2. Larger(split.height, 0) \in Nat
      BY <1>0 DEF Larger, TypeOK
    <2> QED BY <2>1, <2>2
  <1> DEFINE top == IF split.mode = "drawn" THEN cursor - (split.height - 1) ELSE cursor
             upper == SubSeq(screen, 1, Above)
             line == <<Line(printed + 1)>>
  <1>4. top - 1 = Above
    BY <1>0, <1>1 DEF Above, TypeOK
  <1>5. screen' = upper \o line \o Block(split) /\ cursor' = Len(screen')
    BY <1>4 DEF WriteLine
  <1>6. upper \in Seq(Row) /\ Len(upper) = Above /\ \A i \in 1 .. Above : upper[i] = screen[i]
    <2>1. \A i \in 1 .. Above : screen[i] \in Row
      BY <1>0, <1>3, ElementOfSeq DEF TypeOK
    <2> QED BY <1>3, <2>1, SubSeqProperties
  <1>7. line \in Seq(Row) /\ Len(line) = 1 /\ line[1] = Line(printed + 1)
    <2>1. Line(printed + 1) \in Row
      BY <1>0, RowTypes DEF TypeOK
    <2> QED BY <2>1
  <1> HIDE DEF upper, line
  <1>8. /\ upper \o line \in Seq(Row) /\ Len(upper \o line) = Above + 1
        /\ \A i \in 1 .. Above : (upper \o line)[i] = screen[i]
        /\ (upper \o line)[Above + 1] = Line(printed + 1)
    BY <1>3, <1>6, <1>7, ConcatProperties
  <1>9. /\ screen' \in Seq(Row)
        /\ Len(screen') = Above + 1 + Len(Block(split))
        /\ \A i \in 1 .. Above + 1 + Len(Block(split)) : screen'[i] =
             IF i <= Above + 1 THEN (upper \o line)[i] ELSE Block(split)[i - (Above + 1)]
    BY <1>2, <1>5, <1>8, ConcatProperties
  <1>10. /\ \A i \in 1 .. Above : screen'[i] = screen[i]
         /\ screen'[Above + 1] = Line(printed + 1)
         /\ \A i \in 1 .. Len(Block(split)) : screen'[Above + 1 + i] = Block(split)[i]
    <2> DEFINE A == Above
               B == Len(Block(split))
               above == upper \o line
               below == Block(split)
    <2>1. /\ A \in Nat /\ B \in Nat
          /\ \A i \in 1 .. A + 1 + B :
               screen'[i] = IF i <= A + 1 THEN above[i] ELSE below[i - (A + 1)]
      BY <1>2, <1>3, <1>9
    <2>2. (\A i \in 1 .. A : above[i] = screen[i]) /\ above[A + 1] = Line(printed + 1)
      BY <1>8
    <2> HIDE DEF A, B, above, below
    <2>3. \A i \in 1 .. A + 1 : i \in 1 .. A + 1 + B /\ i <= A + 1
      BY <2>1
    <2>4. \A i \in 1 .. A + 1 : screen'[i] = above[i]
      BY <2>1, <2>3, Zenon
    <2>5. (\A i \in 1 .. A : i \in 1 .. A + 1) /\ A + 1 \in 1 .. A + 1
      BY <2>1
    <2>6. (\A i \in 1 .. A : screen'[i] = screen[i]) /\ screen'[A + 1] = Line(printed + 1)
      BY <2>2, <2>4, <2>5, Zenon
    <2>7. ASSUME NEW i \in 1 .. B
          PROVE  screen'[A + 1 + i] = below[i]
      <3> DEFINE j == A + 1 + i
      <3>1. j \in 1 .. A + 1 + B /\ ~(j <= A + 1) /\ j - (A + 1) = i
        BY <2>1
      <3> HIDE DEF j
      <3>2. screen'[j] = below[j - (A + 1)]
        BY <2>1, <3>1, Zenon
      <3>3. screen'[j] = below[i]
        BY <3>1, <3>2, Zenon
      <3> QED BY <3>3 DEF j
    <2> QED BY <2>6, <2>7 DEF A, B, below
  <1>11. Above \in 0 .. Len(screen)
    BY <1>3
  <1> QED BY <1>2, <1>5, <1>9, <1>10, <1>11, Zenon

\* Every step keeps the variables of the display in their sets.
LEMMA TypeStep == ASSUME DisplayInv, [Next]_vars
                  PROVE  TypeOK'
  <1>0. TypeOK /\ Control /\ OneDrawer /\ BlockOfStage /\ Geometry
    BY DEF DisplayInv
  <1> USE DEF TypeOK, Goto, terminal, tasks
  <1>1. ASSUME NEW a \in Actor, BeginDraw(a)
        PROVE  TypeOK'
    <2>1. Block(split) \in Seq(Row)
      BY <1>0, <1>1, Active, BlockRows DEF BeginDraw
    <2>2. cursor' \in Nat \ {0}
      BY <1>0, <1>1 DEF BeginDraw, Geometry, Above
    <2> QED BY <1>0, <1>1, <2>1, <2>2, Actors DEF BeginDraw
  <1>2. ASSUME NEW a \in Actor, DrawRow(a)
        PROVE  TypeOK'
    <2>1. todo[a] \in Seq(Row) /\ todo[a] # <<>>
      BY <1>0, <1>2 DEF DrawRow
    <2>2. Head(todo[a]) \in Row /\ Tail(todo[a]) \in Seq(Row)
      BY <2>1, HeadTailProperties
    <2>3. screen' \in Seq(Row)
      BY <1>0, <1>2, <2>2, PutRow DEF DrawRow
    <2> QED BY <1>0, <1>2, <2>2, <2>3 DEF DrawRow
  <1>3. ASSUME NEW a \in Actor, EndDraw(a)
        PROVE  TypeOK'
    <2>1. Len(Block(split)) \in Nat
      BY <1>0, <1>3, Active, BlockRows DEF EndDraw
    <2> QED BY <1>0, <1>3, <2>1, Actors DEF EndDraw
  <1>4. ASSUME NEW a \in Actor, a # Ticker, AppendAPI(a)
        PROVE  TypeOK'
    <2>1. TaskOf(a) \in Nat
      BY <1>0, <1>4, Actors DEF TaskOf, Worker
    <2>2. Append(split.calls, CallRow(TaskOf(a))) \in Seq(Row)
      BY <1>0, <2>1, RowTypes, AppendProperties
    <2> QED BY <1>0, <1>4, <2>2 DEF AppendAPI
  <1>5. ASSUME NEW a \in Actor, a # Ticker, MarkDone(a)
        PROVE  TypeOK'
    <2>1. TaskOf(a) \in Tasks("estimate") \cup Tasks("start")
      BY <1>0, <1>5, Actors DEF TaskOf, Tasks
    <2>2. After(a) \in {"off", "begin", "call", "lines"}
      BY DEF After
    <2> QED BY <1>0, <1>5, <2>1, <2>2 DEF MarkDone
  <1>6. ASSUME NEW a \in Actor, a # Ticker, CallFails(a)
        PROVE  TypeOK'
    <2>1. task \in Tasks("estimate")
      BY <1>0 DEF Tasks
    <2>2. pc' \in [Actor -> {"off", "open", "call", "want", "draw", "mark", "begin",
                             "lines", "stop", "stopping", "close", "closed",
                             "wait", "set"}]
      BY <1>0, <1>6 DEF CallFails
    <2>3. marked' \subseteq Tasks("estimate") \cup Tasks("start")
      <3>1. marked' = marked \/ marked' = marked \cup {task}
        BY <1>6 DEF CallFails
      <3>2. marked \subseteq Tasks("estimate") \cup Tasks("start")
        BY <1>0
      <3>3. {task} \subseteq Tasks("estimate") \cup Tasks("start")
        BY <2>1
      <3> QED BY <3>1, <3>2, <3>3
    <2>4. UNCHANGED <<stage, task, frame, done, newlines, writer, split, todo, screen, cursor, printed>>
      BY <1>6 DEF CallFails
    <2> QED BY <1>0, <2>2, <2>3, <2>4
  <1>7. CASE Cached
    BY <1>0, <1>7, Actors DEF Cached
  <1>8. CASE Tick
    <2>1. frame' \in Seq(Row)
      BY <1>0, <1>8, RowsType, StageRows DEF Tick
    <2> QED BY <1>0, <1>8, <2>1, Actors DEF Tick
  <1>9. CASE LastTick
    <2>1. frame' \in Seq(Row)
      BY <1>0, <1>9, RowsType, StageRows DEF LastTick
    <2> QED BY <1>0, <1>9, <2>1, Actors DEF LastTick
  <1>10. CASE SetTaskLines
    <2>1. <<>> \in Seq(Row)
      BY EmptySeq
    <2>2. split' = [split EXCEPT !.tasks = frame] /\ frame' = <<>>
      BY <1>10 DEF SetTaskLines
    <2>3. split' \in [calls : Seq(Row), tasks : Seq(Row), height : Nat,
                      mode : {"off", "live", "drawn"}]
      BY <1>0, <2>2
    <2>4. pc' \in [Actor -> {"off", "open", "call", "want", "draw", "mark", "begin",
                             "lines", "stop", "stopping", "close", "closed",
                             "wait", "set"}]
      BY <1>0, <1>10 DEF SetTaskLines
    <2> QED BY <1>0, <1>10, <2>1, <2>2, <2>3, <2>4, Zenon DEF SetTaskLines
  <1>11. CASE Open
    <2>1. <<>> \in Seq(Row)
      BY EmptySeq
    <2>2. split' = [calls |-> <<>>, tasks |-> <<>>, height |-> 0, mode |-> "live"]
      BY <1>11 DEF Open, NoSplit
    <2>3. split' \in [calls : Seq(Row), tasks : Seq(Row), height : Nat,
                      mode : {"off", "live", "drawn"}]
      BY <2>1, <2>2
    <2>4. pc' \in [Actor -> {"off", "open", "call", "want", "draw", "mark", "begin",
                             "lines", "stop", "stopping", "close", "closed",
                             "wait", "set"}]
      BY <1>0, <1>11 DEF Open
    <2>5. marked' = {} /\ task' \in 0 .. 1 /\ done' = "open" /\ newlines' \in 0 .. 1
      BY <1>11 DEF Open
    <2> QED BY <1>0, <1>11, <2>3, <2>4, <2>5 DEF Open
  <1>12. CASE WorkersBegin
    BY <1>0, <1>12, Actors DEF WorkersBegin
  <1>13. CASE WriteLine
    <2>1. /\ screen' \in Seq(Row) /\ cursor' \in Nat \ {0} /\ Len(Block(split)) \in Nat
      BY <1>13, WrittenLine
    <2>2. printed' \in 0 .. MaxLines
      <3>1. printed < MaxLines /\ printed' = printed + 1
        BY <1>13 DEF WriteLine
      <3> QED BY <1>0, <3>1, LiveDisplayAssumption
    <2> QED BY <1>0, <1>13, <2>1, <2>2 DEF WriteLine
  <1>14. CASE WriteNewline
    <2>1. newlines = 0
      BY <1>0, <1>14 DEF WriteNewline, Control, Calling
    <2> QED BY <1>0, <1>14, <2>1, Actors DEF WriteNewline
  <1>15. CASE StopTasks
    BY <1>0, <1>15, Actors DEF StopTasks
  <1>16. CASE TasksStopped
    BY <1>0, <1>16, Actors DEF TasksStopped
  <1>17. CASE Close
    <2>1. split' = [split EXCEPT !.height = 0, !.mode = "off"]
      BY <1>17 DEF Close
    <2>2. split' \in [calls : Seq(Row), tasks : Seq(Row), height : Nat,
                      mode : {"off", "live", "drawn"}]
      BY <1>0, <2>1
    <2>3. cursor' \in Nat \ {0}
      BY <1>0, <1>17 DEF Close
    <2> QED BY <1>0, <1>17, <2>2, <2>3, Actors DEF Close
  <1>18. CASE PrintLine
    <2>1. Line(printed + 1) \in Row /\ Mixed \in Row
      BY <1>0, RowTypes
    <2>2. screen' \in Seq(Row)
      <3>1. CASE cursor > Len(screen)
        BY <1>0, <1>18, <2>1, <3>1, PutRow DEF PrintLine
      <3>2. CASE ~(cursor > Len(screen))
        BY <1>0, <1>18, <2>1, <3>2, PutRow DEF PrintLine
      <3> QED BY <3>1, <3>2
    <2>3. printed' \in 0 .. MaxLines /\ cursor' \in Nat \ {0}
      BY <1>0, <1>18, LiveDisplayAssumption DEF PrintLine
    <2> QED BY <1>0, <1>18, <2>2, <2>3 DEF PrintLine
  <1>19. CASE NextStage
    <2>1. stage' \in Stages
      BY <1>19 DEF NextStage, Stages
    <2>2. pc' \in [Actor -> {"off", "open", "call", "want", "draw", "mark", "begin",
                             "lines", "stop", "stopping", "close", "closed",
                             "wait", "set"}]
      BY <1>0, <1>19 DEF NextStage
    <2>3. UNCHANGED <<tasks, writer, split, todo, terminal>>
      BY <1>19 DEF NextStage
    <2> QED BY <1>0, <2>1, <2>2, <2>3
  <1>20. CASE UNCHANGED vars
    BY <1>0, <1>20, Actors DEF vars
  <1> QED BY <1>1, <1>2, <1>3, <1>4, <1>5, <1>6, <1>7, <1>8, <1>9, <1>10, <1>11,
             <1>12, <1>13, <1>14, <1>15, <1>16, <1>17, <1>18, <1>19, <1>20,
             Zenon
         DEF Next, LockStep, FreeStep, MainStep

\* Every step keeps OneDrawer.
LEMMA DrawerStep == ASSUME DisplayInv, [Next]_vars
                    PROVE  OneDrawer'
  <1>0. TypeOK /\ Control /\ OneDrawer /\ BlockOfStage
    BY DEF DisplayInv
  <1> USE DEF TypeOK, OneDrawer, Goto, terminal, tasks
  <1>1. ASSUME NEW a \in Actor, BeginDraw(a)
        PROVE  OneDrawer'
    BY <1>0, <1>1, Actors DEF BeginDraw
  <1>2. ASSUME NEW a \in Actor, DrawRow(a)
        PROVE  OneDrawer'
    BY <1>0, <1>2, Actors DEF DrawRow
  <1>3. ASSUME NEW a \in Actor, EndDraw(a)
        PROVE  OneDrawer'
    BY <1>0, <1>3, Actors DEF EndDraw
  <1>4. ASSUME NEW a \in Actor, a # Ticker, AppendAPI(a)
        PROVE  OneDrawer'
    <2>1. TaskOf(a) \in Nat
      BY <1>0, <1>4, Actors DEF TaskOf, Worker
    <2>2. Append(split.calls, CallRow(TaskOf(a))) # <<>>
      <3>1. split.calls \in Seq(Row) /\ CallRow(TaskOf(a)) \in Row
        BY <1>0, <2>1, RowTypes
      <3> QED BY <3>1, AppendProperties, Zenon
    <2>3. split'.calls = Append(split.calls, CallRow(TaskOf(a))) /\ split'.tasks = split.tasks
      BY <1>0, <1>4 DEF AppendAPI
    <2>4. /\ pc' = [pc EXCEPT ![a] = "want"] /\ pc[a] = "call" /\ UNCHANGED <<writer, todo>>
      BY <1>4 DEF AppendAPI
    <2> QED BY <1>0, <1>4, <2>2, <2>3, <2>4
  <1>5. ASSUME NEW a \in Actor, a # Ticker, MarkDone(a)
        PROVE  OneDrawer'
    <2>1. After(a) \notin {"want", "draw"}
      BY DEF After
    <2> QED BY <1>0, <1>5, <2>1 DEF MarkDone
  <1>6. ASSUME NEW a \in Actor, a # Ticker, CallFails(a)
        PROVE  OneDrawer'
    BY <1>0, <1>6, Actors DEF CallFails
  <1>7. CASE Cached
    BY <1>0, <1>7, Actors DEF Cached
  <1>8. CASE Tick
    BY <1>0, <1>8, Actors DEF Tick
  <1>9. CASE LastTick
    BY <1>0, <1>9, Actors DEF LastTick
  <1>10. CASE SetTaskLines
    <2>1. frame # <<>> /\ split'.calls = split.calls /\ split'.tasks = frame
      BY <1>0, <1>10 DEF SetTaskLines, BlockOfStage
    <2>2. /\ pc' = [pc EXCEPT ![Ticker] = "want"] /\ pc[Ticker] = "set"
          /\ UNCHANGED <<writer, todo>>
      BY <1>10 DEF SetTaskLines
    <2> QED BY <1>0, <2>1, <2>2, Actors
  <1>11. CASE Open
    <2>1. \A a \in Actor : pc[a] \in {"open", "off"}
      BY <1>0, <1>11, Actors DEF Open, Control
    <2>2. \A a \in Actor : pc'[a] \notin {"want", "draw"}
      BY <1>0, <1>11, <2>1, Actors DEF Open
    <2>3. UNCHANGED <<writer, todo>>
      BY <1>11 DEF Open
    <2> QED BY <1>0, <2>1, <2>2, <2>3
  <1>12. CASE WorkersBegin
    <2>1. \A w \in Worker : pc[w] = "off"
      BY <1>0, <1>12 DEF WorkersBegin, Control
    <2>2. \A a \in Actor \ {Ticker} : pc'[a] \notin {"want", "draw"} /\ pc[a] # "draw"
      BY <1>0, <1>12, <2>1, Actors DEF WorkersBegin
    <2>3. pc'[Ticker] = pc[Ticker] /\ UNCHANGED <<writer, todo, split>>
      BY <1>12, Actors DEF WorkersBegin
    <2> QED BY <1>0, <2>2, <2>3
  <1>13. CASE WriteLine
    BY <1>0, <1>13, Actors DEF WriteLine
  <1>14. CASE WriteNewline
    BY <1>0, <1>14, Actors DEF WriteNewline
  <1>15. CASE StopTasks
    BY <1>0, <1>15, Actors DEF StopTasks
  <1>16. CASE TasksStopped
    BY <1>0, <1>16, Actors DEF TasksStopped
  <1>17. CASE Close
    BY <1>0, <1>17, Actors DEF Close
  <1>18. CASE PrintLine
    BY <1>0, <1>18, Actors DEF PrintLine
  <1>19. CASE NextStage
    BY <1>0, <1>19, Actors DEF NextStage
  <1>20. CASE UNCHANGED vars
    BY <1>0, <1>20, Actors DEF vars
  <1> QED BY <1>1, <1>2, <1>3, <1>4, <1>5, <1>6, <1>7, <1>8, <1>9, <1>10, <1>11,
             <1>12, <1>13, <1>14, <1>15, <1>16, <1>17, <1>18, <1>19, <1>20,
             Zenon
         DEF Next, LockStep, FreeStep, MainStep

\* The block after a step of the same stage is the one of the new lists.
LEMMA BlockNext ==
    ASSUME UNCHANGED stage
    PROVE  /\ Block(split)' = Block(split')
           /\ split'.calls = split.calls /\ split'.tasks = split.tasks
                => Block(split)' = Block(split)
           /\ split' = split => Block(split)' = Block(split)
  BY DEF Block, Gap

\* A step that leaves the lists and the height alone keeps BlockOfStage.
LEMMA BlockOn ==
    ASSUME BlockOfStage, UNCHANGED <<stage, split, frame>>,
           pc'[Ticker] = "set" <=> pc[Ticker] = "set", Shown' => Shown
    PROVE  BlockOfStage'
  <1>1. Block(split)' = Block(split)
    BY BlockNext
  <1> QED BY <1>1, Zenon DEF BlockOfStage

\* So does one that sets the height, to no more than the block has.
LEMMA BlockAgain ==
    ASSUME BlockOfStage, UNCHANGED <<stage, frame>>,
           split'.calls = split.calls, split'.tasks = split.tasks,
           split'.mode = "drawn" => split'.height <= Len(Block(split)),
           split'.mode # "drawn" => split'.height = 0,
           pc'[Ticker] = "set" <=> pc[Ticker] = "set", Shown' => Shown
    PROVE  BlockOfStage'
  <1>1. Block(split)' = Block(split)
    BY BlockNext
  <1> QED BY <1>1, Zenon DEF BlockOfStage

\* Longer lists make a longer block.
LEMMA BlockGrows ==
    ASSUME stage \in Stages, UNCHANGED stage,
           split.calls \in Seq(StageRow(stage)), split.tasks \in Seq(StageRow(stage)),
           split'.calls \in Seq(StageRow(stage)), split'.tasks \in Seq(StageRow(stage)),
           Len(split.calls) <= Len(split'.calls), Len(split.tasks) <= Len(split'.tasks)
    PROVE  Len(Block(split)) <= Len(Block(split)')
  <1>1. Block(split)' = Block(split')
    BY BlockNext
  <1>2. /\ Len(Block(split)) = Len(split.calls) + Len(split.tasks)
             + (IF split.calls # <<>> /\ split.tasks # <<>> THEN 1 ELSE 0)
        /\ Len(Block(split')) = Len(split'.calls) + Len(split'.tasks)
             + (IF split'.calls # <<>> /\ split'.tasks # <<>> THEN 1 ELSE 0)
    BY BlockType
  <1> DEFINE m == Len(split.calls)
             n == Len(split.tasks)
             p == Len(split'.calls)
             q == Len(split'.tasks)
             g == IF split.calls # <<>> /\ split.tasks # <<>> THEN 1 ELSE 0
             h == IF split'.calls # <<>> /\ split'.tasks # <<>> THEN 1 ELSE 0
  <1>3. m \in Nat /\ n \in Nat /\ p \in Nat /\ q \in Nat /\ g \in {0, 1} /\ h \in {0, 1}
    BY LenProperties
  <1>4. /\ split.calls # <<>> => m # 0
        /\ split.tasks # <<>> => n # 0
        /\ p # 0 => split'.calls # <<>>
        /\ q # 0 => split'.tasks # <<>>
    BY EmptySeq
  <1>5. m <= p /\ n <= q
    OBVIOUS
  <1>6. (g = 1 => m # 0 /\ n # 0) /\ (p # 0 /\ q # 0 => h = 1)
    BY <1>4
  <1> HIDE DEF m, n, p, q, g, h
  <1>7. m + n + g <= p + q + h
    BY <1>3, <1>5, <1>6
  <1> QED BY <1>1, <1>2, <1>7 DEF m, n, p, q, g, h

\* Every step keeps BlockOfStage.
LEMMA BlockStep == ASSUME DisplayInv, [Next]_vars
                   PROVE  BlockOfStage'
  <1>0. TypeOK /\ Control /\ OneDrawer /\ BlockOfStage
    BY DEF DisplayInv
  <1> USE DEF TypeOK, Shown, Goto, terminal, tasks
  <1>1. ASSUME NEW a \in Actor, BeginDraw(a)
        PROVE  BlockOfStage'
    BY <1>0, <1>1, Actors, BlockOn DEF BeginDraw
  <1>2. ASSUME NEW a \in Actor, DrawRow(a)
        PROVE  BlockOfStage'
    BY <1>0, <1>2, Actors, BlockOn DEF DrawRow
  <1>3. ASSUME NEW a \in Actor, EndDraw(a)
        PROVE  BlockOfStage'
    <2>1. split' = [split EXCEPT !.height = Len(Block(split)), !.mode = "drawn"]
      BY <1>3 DEF EndDraw
    <2>2. Len(Block(split)) \in Nat
      BY <1>0, <1>3, Active, BlockRows DEF EndDraw
    <2>3. /\ split'.calls = split.calls /\ split'.tasks = split.tasks
          /\ split'.mode = "drawn" /\ split'.height <= Len(Block(split))
      BY <1>0, <2>1, <2>2
    <2>4. /\ pc'[Ticker] = "set" <=> pc[Ticker] = "set"
          /\ Shown' => Shown
          /\ UNCHANGED <<stage, frame>>
      BY <1>0, <1>3, Actors DEF EndDraw
    <2> QED BY <1>0, <2>3, <2>4, BlockAgain DEF Shown
  <1>4. ASSUME NEW a \in Actor, a # Ticker, AppendAPI(a)
        PROVE  BlockOfStage'
    <2>1. Shown
      BY <1>0, <1>4, Active DEF AppendAPI
    <2>2. TaskOf(a) \in Nat
      BY <1>0, <1>4, Actors DEF TaskOf, Worker
    <2>3. CallRow(TaskOf(a)) \in StageRow(stage)
      BY <1>0, <2>2 DEF CallRow, StageRow, Row
    <2>4. /\ stage \in Stages /\ split.calls \in Seq(StageRow(stage))
          /\ split.tasks \in Seq(StageRow(stage))
      BY <1>0, <2>1 DEF BlockOfStage
    <2>5. /\ Append(split.calls, CallRow(TaskOf(a))) \in Seq(StageRow(stage))
          /\ Len(Append(split.calls, CallRow(TaskOf(a)))) = Len(split.calls) + 1
          /\ Len(split.calls) \in Nat /\ Len(split.tasks) \in Nat
      BY <2>3, <2>4, AppendProperties, LenProperties
    <2>6. /\ split'.calls = Append(split.calls, CallRow(TaskOf(a)))
          /\ split'.tasks = split.tasks /\ split'.mode = split.mode
          /\ split'.height = split.height
      BY <1>0, <1>4 DEF AppendAPI
    <2>7. Len(Block(split)) <= Len(Block(split)')
      <3>1. Len(split.calls) <= Len(split'.calls) /\ Len(split.tasks) <= Len(split'.tasks)
        BY <2>5, <2>6
      <3> QED BY <1>4, <2>4, <2>5, <2>6, <3>1, BlockGrows DEF AppendAPI
    <2>8. split.height <= Len(Block(split)) => split'.height <= Len(Block(split)')
      <3>1. Len(Block(split)) \in Nat /\ split.height \in Nat
        BY <1>0, <2>1, BlockRows
      <3>2. Len(Block(split)') \in Nat
        <4>1. split'.calls \in Seq(StageRow(stage)) /\ split'.tasks \in Seq(StageRow(stage))
          BY <2>4, <2>5, <2>6
        <4>2. Block(split') \in Seq(StageRow(stage)) /\ UNCHANGED stage
          BY <1>4, <2>4, <4>1, BlockType DEF AppendAPI
        <4> QED BY <4>2, BlockNext, LenProperties
      <3> QED BY <2>6, <2>7, <3>1, <3>2
    <2>9. /\ pc'[Ticker] = pc[Ticker] /\ UNCHANGED <<stage, frame>>
      BY <1>0, <1>4, Actors DEF AppendAPI
    <2> QED BY <1>0, <2>1, <2>4, <2>5, <2>6, <2>8, <2>9, Zenon DEF BlockOfStage
  <1>5. ASSUME NEW a \in Actor, a # Ticker, MarkDone(a)
        PROVE  BlockOfStage'
    BY <1>0, <1>5, Actors, BlockOn DEF MarkDone
  <1>6. ASSUME NEW a \in Actor, a # Ticker, CallFails(a)
        PROVE  BlockOfStage'
    BY <1>0, <1>6, Actors, BlockOn DEF CallFails
  <1>7. CASE Cached
    BY <1>0, <1>7, Actors, BlockOn DEF Cached
  <1>8. CASE Tick
    <2>1. /\ Rows(marked, stage) \in Seq(StageRow(stage))
          /\ Len(Rows(marked, stage)) = Cardinality(Tasks(stage))
          /\ Rows(marked, stage) # <<>>
      BY <1>0, RowsType
    <2>2. /\ frame' = Rows(marked, stage) /\ UNCHANGED <<stage, split>>
          /\ pc' = [pc EXCEPT ![Ticker] = "set"] /\ pc'[Ticker] = "set" /\ pc'[Main] = pc[Main]
      BY <1>0, <1>8, Actors DEF Tick
    <2>3. Block(split)' = Block(split)
      BY <2>2, BlockNext
    <2> QED BY <1>0, <2>1, <2>2, <2>3, Zenon DEF BlockOfStage
  <1>9. CASE LastTick
    <2>1. /\ Rows(marked, stage) \in Seq(StageRow(stage))
          /\ Len(Rows(marked, stage)) = Cardinality(Tasks(stage))
          /\ Rows(marked, stage) # <<>>
      BY <1>0, RowsType
    <2>2. /\ frame' = Rows(marked, stage) /\ UNCHANGED <<stage, split>>
          /\ pc' = [pc EXCEPT ![Ticker] = "set"] /\ pc'[Ticker] = "set" /\ pc'[Main] = pc[Main]
      BY <1>0, <1>9, Actors DEF LastTick
    <2>3. Block(split)' = Block(split)
      BY <2>2, BlockNext
    <2> QED BY <1>0, <2>1, <2>2, <2>3, Zenon DEF BlockOfStage
  <1>10. CASE SetTaskLines
    <2>1. Shown
      BY <1>0, <1>10, Actors, Active DEF SetTaskLines
    <2>2. /\ stage \in Stages /\ split.calls \in Seq(StageRow(stage))
          /\ split.tasks \in Seq(StageRow(stage)) /\ frame \in Seq(StageRow(stage))
          /\ frame # <<>> /\ Len(frame) = Cardinality(Tasks(stage))
          /\ split.tasks # <<>> => Len(split.tasks) = Cardinality(Tasks(stage))
      BY <1>0, <1>10, <2>1 DEF SetTaskLines, BlockOfStage
    <2>3. /\ Len(split.calls) \in Nat /\ Len(split.tasks) \in Nat /\ Len(frame) \in Nat
          /\ Len(split.tasks) <= Len(frame)
      <3>1. Len(split.calls) \in Nat /\ Len(split.tasks) \in Nat /\ Len(frame) \in Nat
        BY <2>2, LenProperties
      <3>2. split.tasks = <<>> => Len(split.tasks) = 0
        BY EmptySeq
      <3> QED BY <2>2, <3>1, <3>2
    <2>4. /\ split'.calls = split.calls /\ split'.tasks = frame
          /\ split'.mode = split.mode /\ split'.height = split.height
      BY <1>0, <1>10 DEF SetTaskLines
    <2>5. Len(Block(split)) <= Len(Block(split)')
      <3>1. Len(split.calls) <= Len(split'.calls) /\ Len(split.tasks) <= Len(split'.tasks)
        BY <2>3, <2>4
      <3> QED BY <1>10, <2>2, <2>4, <3>1, BlockGrows DEF SetTaskLines
    <2>6. split.height <= Len(Block(split)) => split'.height <= Len(Block(split)')
      <3>1. Len(Block(split)) \in Nat /\ split.height \in Nat
        BY <1>0, <2>1, BlockRows
      <3>2. Len(Block(split)') \in Nat
        <4>1. split'.calls \in Seq(StageRow(stage)) /\ split'.tasks \in Seq(StageRow(stage))
          BY <2>2, <2>4
        <4>2. Block(split') \in Seq(StageRow(stage)) /\ UNCHANGED stage
          BY <1>10, <2>2, <4>1, BlockType DEF SetTaskLines
        <4> QED BY <4>2, BlockNext, LenProperties
      <3> QED BY <2>4, <2>5, <3>1, <3>2
    <2>7. /\ pc'[Ticker] = "want" /\ frame' = <<>> /\ <<>> \in Seq(StageRow(stage))
          /\ UNCHANGED stage
      BY <1>0, <1>10, Actors, EmptySeq DEF SetTaskLines
    <2> QED BY <1>0, <2>2, <2>4, <2>6, <2>7, Zenon DEF BlockOfStage
  <1>11. CASE Open
    <2>1. split' = [calls |-> <<>>, tasks |-> <<>>, height |-> 0, mode |-> "live"]
      BY <1>11 DEF Open, NoSplit
    <2>2. /\ split'.calls = <<>> /\ split'.tasks = <<>> /\ split'.height = 0
          /\ split'.mode # "drawn" /\ <<>> \in Seq(StageRow(stage))
      BY <2>1, EmptySeq
    <2>3. pc[Ticker] # "set" /\ pc'[Ticker] # "set" /\ UNCHANGED <<stage, frame>>
      BY <1>0, <1>11, Actors DEF Open, Control
    <2>4. frame = <<>>
      BY <1>0, <2>3 DEF BlockOfStage
    <2> QED BY <2>2, <2>3, <2>4, Zenon DEF BlockOfStage
  <1>12. CASE WorkersBegin
    BY <1>0, <1>12, Actors, BlockOn DEF WorkersBegin
  <1>13. CASE WriteLine
    <2>1. split' = [split EXCEPT !.height = Len(Block(split)), !.mode = "drawn"]
      BY <1>13 DEF WriteLine
    <2>2. Len(Block(split)) \in Nat
      BY <1>13, WrittenLine
    <2>3. /\ split'.calls = split.calls /\ split'.tasks = split.tasks
          /\ split'.mode = "drawn" /\ split'.height <= Len(Block(split))
      BY <1>0, <2>1, <2>2
    <2>4. UNCHANGED <<pc, stage, frame>>
      BY <1>13 DEF WriteLine
    <2> QED BY <1>0, <2>3, <2>4, BlockAgain DEF Shown
  <1>14. CASE WriteNewline
    BY <1>0, <1>14, Actors, BlockOn DEF WriteNewline
  <1>15. CASE StopTasks
    BY <1>0, <1>15, Actors, BlockOn DEF StopTasks
  <1>16. CASE TasksStopped
    BY <1>0, <1>16, Actors, BlockOn DEF TasksStopped
  <1>17. CASE Close
    <2>1. split' = [split EXCEPT !.height = 0, !.mode = "off"]
      BY <1>17 DEF Close
    <2>2. /\ split'.calls = split.calls /\ split'.tasks = split.tasks
          /\ split'.mode # "drawn" /\ split'.height = 0
      BY <1>0, <2>1
    <2>3. /\ pc'[Ticker] = pc[Ticker] /\ pc[Main] = "close"
          /\ UNCHANGED <<stage, frame>>
      BY <1>0, <1>17, Actors DEF Close
    <2> QED BY <1>0, <2>2, <2>3, BlockAgain DEF Shown
  <1>18. CASE PrintLine
    BY <1>0, <1>18, Actors, BlockOn DEF PrintLine
  <1>19. CASE NextStage
    <2>1. /\ pc[Ticker] = "off" /\ split.mode = "off"
          /\ pc'[Ticker] = pc[Ticker] /\ ~Shown'
          /\ UNCHANGED <<split, frame>>
      BY <1>0, <1>19, Actors DEF NextStage, Control
    <2>2. frame = <<>> /\ split.height = 0
      BY <1>0, <2>1 DEF BlockOfStage
    <2>3. split'.mode # "drawn" /\ split'.height = 0 /\ frame' = <<>> /\ pc'[Ticker] # "set"
      BY <2>1, <2>2
    <2> QED BY <2>1, <2>3, Zenon DEF BlockOfStage
  <1>20. CASE UNCHANGED vars
    BY <1>0, <1>20, Actors, BlockOn DEF vars
  <1> QED BY <1>1, <1>2, <1>3, <1>4, <1>5, <1>6, <1>7, <1>8, <1>9, <1>10, <1>11,
             <1>12, <1>13, <1>14, <1>15, <1>16, <1>17, <1>18, <1>19, <1>20,
             Zenon
         DEF Next, LockStep, FreeStep, MainStep

\* Positions are numbers, and whoever holds the lock draws a block.
LEMMA Numbers ==
    ASSUME DisplayInv
    PROVE  /\ Above \in Nat /\ Depth \in Nat /\ Len(screen) \in Nat
           /\ split.height \in Nat /\ cursor \in Nat /\ printed \in Nat
           /\ screen \in Seq(Row) /\ DOMAIN screen = 1 .. Len(screen)
           /\ writer # Free =>
                /\ writer \in Actor /\ pc[writer] = "draw" /\ Shown
                /\ split.mode # "off" /\ stage # "over"
                /\ Block(split) \in Seq(StageRow(stage)) /\ Len(Block(split)) \in Nat
                /\ todo[writer] \in Seq(Row) /\ Len(todo[writer]) \in Nat
           /\ writer = Free => \A a \in Actor : pc[a] # "draw" /\ todo[a] = <<>>
  <1>0. TypeOK /\ Control /\ OneDrawer /\ BlockOfStage /\ Geometry
    BY DEF DisplayInv
  <1>1. writer # Free =>
          /\ writer \in Actor /\ pc[writer] = "draw" /\ Shown
          /\ split.mode # "off" /\ stage # "over"
    BY <1>0, Actors, Active DEF OneDrawer, TypeOK
  <1>2. writer # Free =>
          /\ Block(split) \in Seq(StageRow(stage)) /\ Len(Block(split)) \in Nat
          /\ todo[writer] \in Seq(Row) /\ Len(todo[writer]) \in Nat
    BY <1>0, <1>1, BlockRows, LenProperties DEF TypeOK
  <1>3. Depth \in Nat
    BY <1>0, <1>2 DEF Depth, Geometry
  <1>4. screen \in Seq(Row) /\ Len(screen) \in Nat /\ DOMAIN screen = 1 .. Len(screen)
    BY <1>0, LenProperties DEF TypeOK
  <1>5. printed \in Nat
    BY <1>0, LiveDisplayAssumption DEF TypeOK
  <1>6. writer = Free => \A a \in Actor : pc[a] # "draw" /\ todo[a] = <<>>
    BY <1>0, Actors DEF OneDrawer
  <1>7. Above \in Nat /\ split.height \in Nat /\ cursor \in Nat
    BY <1>0 DEF Geometry, TypeOK
  <1> QED BY <1>1, <1>2, <1>3, <1>4, <1>5, <1>6, <1>7, Zenon

\* A step that does not draw, nor change the lists, leaves the block where
\* it is.
LEMMA Undrawn ==
    ASSUME UNCHANGED <<stage, writer, split, todo, cursor>>
    PROVE  Above' = Above /\ Depth' = Depth /\ Block(split)' = Block(split)
  <1>1. Block(split)' = Block(split)
    BY BlockNext
  <1>2. Depth' = Depth
    BY <1>1 DEF Depth
  <1> QED BY <1>1, <1>2 DEF Above

\* A drawing begins at the top of the block, by the height it has.
LEMMA BeginDrawAbove ==
    ASSUME DisplayInv, NEW a \in Actor, BeginDraw(a)
    PROVE  /\ Above' = Above /\ Depth = 0 /\ Depth' = 0 /\ Block(split)' = Block(split)
           /\ writer' = a /\ writer = Free /\ todo'[a] = Block(split)
           /\ UNCHANGED <<split, screen, newlines, stage>>
  <1>0. TypeOK /\ Control /\ OneDrawer /\ BlockOfStage
    BY DEF DisplayInv
  <1>1. /\ pc[a] = "want" /\ writer = Free /\ writer' = a
        /\ todo' = [todo EXCEPT ![a] = Block(split)]
        /\ cursor' = IF split.mode = "drawn" THEN cursor - (split.height - 1) ELSE cursor
        /\ UNCHANGED <<stage, split, screen, newlines>>
    BY DEF BeginDraw, Goto
  <1>2. todo'[a] = Block(split)
    BY <1>0, <1>1 DEF TypeOK
  <1>3. Len(Block(split)) \in Nat /\ Len(Block(split)) # 0
    BY <1>0, <1>1, Active, BlockRows DEF OneDrawer
  <1>4. Block(split) # <<>>
    BY <1>3, EmptySeq
  <1>5. Block(split)' = Block(split)
    BY <1>1, BlockNext
  <1>6. Depth = 0 /\ Depth' = 0
    BY <1>1, <1>2, <1>3, <1>5, Actors DEF Depth
  <1>7. Above' = cursor' - 1
    <2>1. Above' = cursor' - Depth' - 1
      BY <1>1, <1>2, <1>4, Actors DEF Above
    <2>2. cursor' \in Int
      BY <1>0, <1>1 DEF TypeOK
    <2> QED BY <1>6, <2>1, <2>2
  <1>8. Above = IF split.mode = "drawn" THEN cursor - split.height ELSE cursor - 1
    BY <1>1 DEF Above
  <1>9. Above' = Above
    BY <1>0, <1>1, <1>7, <1>8 DEF TypeOK
  <1> QED BY <1>1, <1>2, <1>5, <1>6, <1>9

\* Each row is drawn at its own place.
LEMMA DrawRowAbove ==
    ASSUME DisplayInv, NEW a \in Actor, DrawRow(a)
    PROVE  /\ Above' = Above /\ Depth' = Depth + 1 /\ Block(split)' = Block(split)
           /\ writer = a /\ writer' = a /\ UNCHANGED <<split, newlines, stage, pc>>
           /\ todo[a] # <<>> /\ todo'[a] = Tail(todo[a])
           /\ Depth + 1 \in 1 .. Len(Block(split))
           /\ screen' = Put(screen, Above + Depth + 1, Block(split)[Depth + 1])
  <1>0. TypeOK /\ OneDrawer /\ Geometry
    BY DEF DisplayInv
  <1>1. /\ pc[a] = "draw" /\ todo[a] # <<>>
        /\ screen' = Put(screen, cursor, Head(todo[a]))
        /\ cursor' = IF Len(todo[a]) > 1 THEN cursor + 1 ELSE cursor
        /\ todo' = [todo EXCEPT ![a] = Tail(@)]
        /\ UNCHANGED <<stage, writer, split, newlines, pc>>
    BY DEF DrawRow
  <1>2. writer = a /\ writer # Free
    BY <1>0, <1>1, Actors DEF OneDrawer
  <1>3. /\ todo[a] \in Seq(Row) /\ Len(todo[a]) \in Nat /\ Len(Block(split)) \in Nat
        /\ cursor \in Nat
    BY <1>2, Numbers
  <1>4. todo'[a] = Tail(todo[a])
    BY <1>0, <1>1 DEF TypeOK
  <1>5. /\ Len(Tail(todo[a])) = Len(todo[a]) - 1 /\ Tail(todo[a]) \in Seq(Row)
        /\ Len(todo[a]) # 0
    BY <1>1, <1>3, HeadTailProperties, EmptySeq
  <1>6. Head(todo[a]) = todo[a][1]
    BY <1>1, <1>3
  <1>7. Block(split)' = Block(split)
    BY <1>1, BlockNext
  <1>8. /\ Depth = Len(Block(split)) - Len(todo[a])
        /\ Depth' = Len(Block(split)) - (Len(todo[a]) - 1)
    BY <1>1, <1>2, <1>4, <1>5, <1>7 DEF Depth
  <1>9. Len(todo[a]) <= Len(Block(split)) /\ todo[a][1] = Block(split)[Depth + 1]
    <2>1. 1 \in 1 .. Len(todo[a])
      BY <1>3, <1>5
    <2> QED BY <1>0, <1>2, <2>1 DEF Geometry
  <1>10. Depth' = Depth + 1 /\ Depth + 1 \in 1 .. Len(Block(split))
    BY <1>3, <1>5, <1>8, <1>9
  <1>11. Above = cursor - Depth - 1 /\ cursor = Above + Depth + 1
    BY <1>1, <1>2, <1>3, <1>8 DEF Above
  <1>12. Above' = Above
    <2> DEFINE n == Len(todo[a])
               t == Tail(todo[a])
    <2>1. n \in Nat /\ n # 0 /\ Len(t) = n - 1 /\ (t = <<>> <=> Len(t) = 0)
      BY <1>3, <1>5, EmptySeq
    <2>2. Above' = IF t = <<>> THEN cursor' - Depth' ELSE cursor' - Depth' - 1
      BY <1>1, <1>2, <1>4 DEF Above
    <2>3. /\ cursor \in Nat /\ Depth \in Nat /\ Depth' = Depth + 1
          /\ Above = cursor - Depth - 1
          /\ cursor' = IF n > 1 THEN cursor + 1 ELSE cursor
      BY <1>1, <1>3, <1>10, <1>11, Numbers
    <2> HIDE DEF n, t
    <2>4. t = <<>> <=> ~(n > 1)
      BY <2>1
    <2> QED BY <2>2, <2>3, <2>4
  <1> QED BY <1>1, <1>2, <1>4, <1>6, <1>7, <1>9, <1>10, <1>11, <1>12

\* A drawing ends at the bottom of the block.
LEMMA EndDrawAbove ==
    ASSUME DisplayInv, NEW a \in Actor, EndDraw(a)
    PROVE  /\ Above' = Above /\ Block(split)' = Block(split)
           /\ Depth = Len(Block(split)) /\ Depth' = 0
           /\ split'.height = Len(Block(split)) /\ split'.mode = "drawn"
           /\ split'.calls = split.calls /\ split'.tasks = split.tasks
           /\ writer = a /\ writer' = Free /\ split.mode # "off"
           /\ UNCHANGED <<screen, newlines, stage>>
  <1>0. TypeOK /\ OneDrawer
    BY DEF DisplayInv
  <1>1. /\ pc[a] = "draw" /\ todo[a] = <<>> /\ writer' = Free
        /\ split' = [split EXCEPT !.height = Len(Block(split)), !.mode = "drawn"]
        /\ UNCHANGED <<stage, screen, cursor, newlines>>
    BY DEF EndDraw, Goto, terminal
  <1>2. writer = a /\ writer # Free
    BY <1>0, <1>1, Actors DEF OneDrawer
  <1>3. Len(Block(split)) \in Nat /\ cursor \in Nat /\ split.mode # "off"
    BY <1>2, Numbers
  <1>4. /\ split'.height = Len(Block(split)) /\ split'.mode = "drawn"
        /\ split'.calls = split.calls /\ split'.tasks = split.tasks
    BY <1>0, <1>1 DEF TypeOK
  <1>5. Block(split)' = Block(split)
    BY <1>1, <1>4, BlockNext
  <1>6. Depth = Len(Block(split)) /\ Depth' = 0
    BY <1>1, <1>2, <1>3, EmptySeq DEF Depth
  <1>7. Above = cursor - Len(Block(split)) /\ Above' = cursor - Len(Block(split))
    BY <1>1, <1>2, <1>3, <1>4, <1>6 DEF Above
  <1> QED BY <1>1, <1>2, <1>3, <1>4, <1>5, <1>6, <1>7

\* A block that grows between two drawings begins where it did.
LEMMA GrownAbove ==
    ASSUME DisplayInv, writer = Free, UNCHANGED <<writer, cursor>>,
           split'.mode = "drawn" <=> split.mode = "drawn", split'.height = split.height
    PROVE  Above' = Above /\ Depth = 0 /\ Depth' = 0
  BY DEF Above, Depth

\* Without a display all rows are above, and the cursor is below them.
LEMMA NoDisplayAbove ==
    ASSUME DisplayInv, split.mode = "off"
    PROVE  /\ writer = Free /\ Depth = 0 /\ split.height = 0
           /\ cursor = Above + 1
           /\ pc[Main] \in {"open", "closed"} => Len(screen) = Above
  <1>0. TypeOK /\ BlockOfStage /\ Geometry
    BY DEF DisplayInv
  <1>1. writer = Free
    BY Numbers
  <1>2. Depth = 0 /\ split.height = 0 /\ cursor \in Nat
    BY <1>0, <1>1 DEF Depth, BlockOfStage, TypeOK
  <1>3. Above = cursor - 1
    BY <1>1 DEF Above
  <1> QED BY <1>0, <1>1, <1>2, <1>3 DEF Geometry

\* A display opens below all rows.
LEMMA OpenAbove ==
    ASSUME DisplayInv, Open
    PROVE  /\ Above' = Above /\ Depth' = 0 /\ split'.height = 0 /\ newlines' = 0
           /\ split'.mode = "live" /\ Len(screen) = Above
           /\ writer' = Free /\ UNCHANGED <<screen, stage>>
  <1>0. TypeOK /\ Control
    BY DEF DisplayInv
  <1>1. split' = [calls |-> <<>>, tasks |-> <<>>, height |-> 0, mode |-> "live"]
    BY DEF Open, NoSplit
  <1>2. pc[Main] = "open" /\ UNCHANGED <<screen, stage, cursor, writer>> /\ newlines' = 0
    BY DEF Open
  <1>3. split.mode = "off"
    BY <1>0, <1>2 DEF Control
  <1>4. /\ writer = Free /\ cursor = Above + 1 /\ Len(screen) = Above
        /\ Above \in Nat
    BY <1>2, <1>3, NoDisplayAbove, Numbers
  <1>5. split'.mode = "live" /\ split'.height = 0
    BY <1>1
  <1>6. Above' = cursor - 1 /\ Depth' = 0
    BY <1>2, <1>4, <1>5 DEF Above, Depth
  <1>7. Above' = Above
    BY <1>4, <1>6
  <1> QED BY <1>2, <1>4, <1>5, <1>6, <1>7, Zenon

\* A line moves the block down by one row.
LEMMA WriteLineAbove ==
    ASSUME DisplayInv, WriteLine
    PROVE  /\ Above' = Above + 1 /\ Depth = 0 /\ Depth' = 0
           /\ Block(split)' = Block(split) /\ split'.height = Len(Block(split))
           /\ writer = Free /\ writer' = Free /\ split.mode # "off" /\ newlines = 0
           /\ pc[Main] = "lines" /\ printed' = printed + 1
           /\ UNCHANGED <<stage, pc, newlines>>
  <1>0. TypeOK /\ Control
    BY DEF DisplayInv
  <1>1. /\ pc[Main] = "lines" /\ writer = Free /\ writer' = Free
        /\ split' = [split EXCEPT !.height = Len(Block(split)), !.mode = "drawn"]
        /\ printed' = printed + 1 /\ UNCHANGED <<stage, pc, newlines>>
    BY DEF WriteLine
  <1>2. /\ split'.height = Len(Block(split)) /\ split'.mode = "drawn"
        /\ split'.calls = split.calls /\ split'.tasks = split.tasks
    BY <1>0, <1>1 DEF TypeOK
  <1>3. /\ Block(split)' = Block(split) /\ newlines = 0 /\ split.mode # "off"
    BY <1>0, <1>1, <1>2, BlockNext DEF Control, Calling
  <1>4. Depth = 0 /\ Depth' = 0 /\ Above' = cursor' - Len(Block(split))
    BY <1>1, <1>2 DEF Above, Depth
  <1>5. Above' = Above + 1
    <2> DEFINE n == Len(Block(split))
    <2>1. cursor' = Above + 1 + n /\ n \in Nat /\ Above \in Nat
      BY WrittenLine, Numbers
    <2>2. Above' = cursor' - n
      BY <1>4
    <2> HIDE DEF n
    <2> QED BY <2>1, <2>2
  <1> QED BY <1>1, <1>2, <1>3, <1>4, <1>5

\* So does the newline that takes no lock, even in the middle of a drawing.
LEMMA NewlineAbove ==
    ASSUME DisplayInv, WriteNewline
    PROVE  /\ Above' = Above + 1 /\ Depth' = Depth /\ Block(split)' = Block(split)
           /\ newlines' = 1 /\ newlines = 0 /\ done = "open"
           /\ UNCHANGED <<stage, done, writer, split, todo, screen, printed>>
  <1>0. TypeOK /\ Control
    BY DEF DisplayInv
  <1>1. /\ cursor' = cursor + 1 /\ newlines' = newlines + 1 /\ pc[Main] = "lines"
        /\ UNCHANGED <<stage, done, writer, split, todo, screen, printed>>
    BY DEF WriteNewline, Goto, tasks
  <1>2. Block(split)' = Block(split)
    BY <1>1, BlockNext
  <1>3. Depth' = Depth
    BY <1>1, <1>2 DEF Depth
  <1>4. newlines = 0 /\ done = "open" /\ cursor \in Nat
    BY <1>0, <1>1 DEF Control, Calling, TypeOK
  <1>5. Above' = Above + 1
    <2>1. Depth \in Nat /\ split.height \in Nat
      BY Numbers
    <2> QED BY <1>1, <1>3, <1>4, <2>1 DEF Above
  <1> QED BY <1>1, <1>2, <1>3, <1>4, <1>5

\* A display that is closed has been drawn whole by the last tick, and its
\* rows are above from then on.
LEMMA CloseAbove ==
    ASSUME DisplayInv, Close
    PROVE  /\ Above' = Above + split.height /\ Depth = 0 /\ Depth' = 0
           /\ split'.height = 0 /\ split'.mode = "off" /\ Len(screen) = Above'
           /\ split'.calls = split.calls /\ split'.tasks = split.tasks
           /\ split.height = Len(Block(split)) /\ Matches(split.height)
           /\ split.tasks = Rows(marked, stage)
           /\ writer' = Free /\ Block(split)' = Block(split)
           /\ UNCHANGED <<screen, stage, marked, printed>>
  <1>0. TypeOK /\ Control /\ Geometry /\ LastDrawing
    BY DEF DisplayInv
  <1>1. /\ pc[Main] = "close" /\ writer = Free /\ writer' = Free
        /\ cursor' = IF split.mode = "drawn" THEN cursor + 1 ELSE cursor
        /\ split' = [split EXCEPT !.height = 0, !.mode = "off"]
        /\ UNCHANGED <<screen, stage, marked, printed>>
    BY DEF Close, Goto, tasks
  <1>2. done = "seen" /\ pc[Ticker] = "off"
    BY <1>0, <1>1 DEF Control
  <1>3. /\ split.mode = "drawn" /\ split.height = Len(Block(split))
        /\ Matches(split.height) /\ split.tasks = Rows(marked, stage)
    BY <1>0, <1>1, <1>2 DEF LastDrawing
  <1>4. /\ split'.height = 0 /\ split'.mode = "off"
        /\ split'.calls = split.calls /\ split'.tasks = split.tasks
    BY <1>0, <1>1 DEF TypeOK
  <1>5. Depth = 0 /\ Depth' = 0
    BY <1>1 DEF Depth
  <1>6. Above = cursor - split.height /\ Above' = cursor' - 1
    BY <1>1, <1>3, <1>4 DEF Above
  <1>7. cursor \in Nat /\ split.height \in Nat /\ Len(screen) \in Nat
    BY Numbers
  <1>8. Above' = Above + split.height
    BY <1>1, <1>3, <1>6, <1>7
  <1>9. Len(screen) = Above + split.height
    <2>1. split.height # 0
      <3>1. stage \in Stages /\ Shown /\ BlockOfStage
        BY <1>1 DEF DisplayInv, TypeOK, Shown
      <3>2. split.tasks # <<>>
        BY <1>3, <3>1, RowsType
      <3> QED BY <1>0, <1>3, <3>1, <3>2, BlockRows
    <2>2. split.height \in 1 .. split.height
      BY <1>7, <2>1
    <2>3. Len(screen) <= Above + Larger(split.height, 0) /\ Above + split.height <= Len(screen)
      BY <1>0, <1>3, <1>5, <2>2 DEF Geometry, Matches
    <2>4. Larger(split.height, 0) = split.height /\ Above \in Nat
      BY <1>7, Numbers DEF Larger
    <2> QED BY <1>7, <2>3, <2>4
  <1>10. Block(split)' = Block(split)
    BY <1>1, <1>4, BlockNext
  <1> QED BY <1>1, <1>3, <1>4, <1>5, <1>8, <1>9, <1>10

\* A line without a display goes below all rows.
LEMMA PrintLineAbove ==
    ASSUME DisplayInv, PrintLine
    PROVE  /\ Above' = Above + 1 /\ Depth' = 0 /\ split.mode = "off" /\ split.height = 0
           /\ Len(screen) = Above /\ writer = Free /\ writer' = Free
           /\ screen' = Put(screen, Above + 1, Line(printed + 1)) /\ printed' = printed + 1
           /\ pc[Main] = "closed" /\ UNCHANGED <<split, stage, pc, newlines, marked, done>>
  <1>0. TypeOK /\ Control
    BY DEF DisplayInv
  <1>1. /\ pc[Main] = "closed" /\ cursor' = cursor + 1 /\ printed' = printed + 1
        /\ screen' = Put(screen, cursor, IF cursor > Len(screen) THEN Line(printed + 1) ELSE Mixed)
        /\ UNCHANGED <<split, stage, pc, newlines, writer, marked, done>>
    BY DEF PrintLine, tasks
  <1>2. split.mode = "off"
    BY <1>0, <1>1 DEF Control
  <1>3. /\ writer = Free /\ split.height = 0 /\ cursor = Above + 1 /\ Len(screen) = Above
        /\ Above \in Nat
    BY <1>1, <1>2, NoDisplayAbove, Numbers
  <1>4. Above' = cursor' - 1 /\ Depth' = 0
    BY <1>1, <1>2, <1>3 DEF Above, Depth
  <1>5. cursor > Len(screen) /\ Above' = Above + 1
    BY <1>1, <1>3, <1>4
  <1> QED BY <1>1, <1>2, <1>3, <1>4, <1>5

\* The next stage begins below all rows.
LEMMA NextStageAbove ==
    ASSUME DisplayInv, NextStage
    PROVE  /\ Above' = Above /\ Depth' = 0 /\ split.mode = "off" /\ split.height = 0
           /\ Len(screen) = Above /\ writer = Free /\ writer' = Free
           /\ pc[Main] = "closed" /\ pc'[Main] \in {"open", "off"}
           /\ UNCHANGED <<split, screen, printed>>
  <1>0. TypeOK /\ Control
    BY DEF DisplayInv
  <1>1. /\ pc[Main] = "closed" /\ pc'[Main] \in {"open", "off"}
        /\ UNCHANGED <<split, screen, cursor, printed, writer>>
    BY <1>0, Actors DEF NextStage, Goto, terminal, TypeOK
  <1>2. split.mode = "off"
    BY <1>0, <1>1 DEF Control
  <1>3. /\ writer = Free /\ split.height = 0 /\ cursor = Above + 1 /\ Len(screen) = Above
        /\ Above \in Nat
    BY <1>1, <1>2, NoDisplayAbove, Numbers
  <1>4. Above' = cursor - 1 /\ Depth' = 0
    BY <1>1, <1>2, <1>3 DEF Above, Depth
  <1> QED BY <1>1, <1>2, <1>3, <1>4

\* A step that does not draw keeps Geometry.
LEMMA GeometryKept ==
    ASSUME DisplayInv, UNCHANGED <<stage, writer, split, todo, cursor, screen, newlines>>,
           pc'[Main] \in {"open", "closed"} => pc[Main] \in {"open", "closed"}
    PROVE  Geometry'
  <1>1. Geometry /\ Above' = Above /\ Depth' = Depth /\ Block(split)' = Block(split)
    BY Undrawn DEF DisplayInv
  <1> QED BY <1>1, Zenon DEF Geometry

\* So does one that only makes the block grow.
LEMMA GeometryGrown ==
    ASSUME DisplayInv, writer = Free, UNCHANGED <<writer, cursor, screen, newlines>>,
           split'.mode = split.mode, split'.height = split.height,
           pc'[Main] \in {"open", "closed"} => pc[Main] \in {"open", "closed"}
    PROVE  Geometry'
  <1>1. Geometry /\ Above' = Above /\ Depth' = Depth
    BY GrownAbove DEF DisplayInv
  <1> QED BY <1>1, Zenon DEF Geometry

\* Every step keeps Geometry.
LEMMA GeometryStep == ASSUME DisplayInv, [Next]_vars
                      PROVE  Geometry'
  <1>0. TypeOK /\ Control /\ OneDrawer /\ BlockOfStage /\ Geometry
    BY DEF DisplayInv
  <1> USE DEF TypeOK, Goto, terminal, tasks
  <1>1. ASSUME NEW a \in Actor, BeginDraw(a)
        PROVE  Geometry'
    <2>1. /\ Above' = Above /\ Depth = 0 /\ Depth' = 0 /\ Block(split)' = Block(split)
          /\ writer' = a /\ todo'[a] = Block(split) /\ UNCHANGED <<split, screen, newlines>>
      BY <1>1, BeginDrawAbove
    <2>2. Len(Block(split)) \in Nat
      BY <1>0, <1>1, Active, BlockRows DEF BeginDraw
    <2>3. /\ Len(todo'[a]) <= Len(Block(split))
          /\ \A i \in 1 .. Len(todo'[a]) : todo'[a][i] = Block(split)[0 + i]
      BY <2>1, <2>2
    <2>4. pc'[Main] \in {"open", "closed"} => pc[Main] \in {"open", "closed"}
      BY <1>0, <1>1, Actors DEF BeginDraw
    <2>5. /\ Len(todo'[writer']) <= Len(Block(split)')
          /\ \A i \in 1 .. Len(todo'[writer']) : todo'[writer'][i] = Block(split)'[Depth' + i]
      BY <2>1, <2>3, Zenon
    <2>6. /\ Above' \in Nat
          /\ Len(screen') <= Above' + Larger(split'.height, Depth')
          /\ split'.mode # "off" /\ newlines' = 0 =>
               Len(screen') = Above' + Larger(split'.height, Depth')
      BY <1>0, <2>1, Zenon DEF Geometry
    <2>7. pc'[Main] \notin {"open", "closed"}
      BY <1>0, <1>1, <2>4, Actors, Active DEF BeginDraw, Control
    <2> QED BY <2>5, <2>6, <2>7, Zenon DEF Geometry
  <1>2. ASSUME NEW a \in Actor, DrawRow(a)
        PROVE  Geometry'
    <2> DEFINE b == Block(split)
               t == todo[a]
               r == todo'[a]
               d == Depth
               d1 == Depth'
    <2>1. /\ Above' = Above /\ d1 = d + 1 /\ Block(split)' = b
          /\ writer = a /\ writer' = a /\ UNCHANGED <<split, newlines, pc>>
          /\ t # <<>> /\ r = Tail(t) /\ d + 1 \in 1 .. Len(b)
          /\ screen' = Put(screen, Above + d + 1, b[d + 1])
      BY <1>2, DrawRowAbove
    <2>2. /\ Above \in Nat /\ d \in Nat /\ Len(screen) \in Nat /\ screen \in Seq(Row)
          /\ b \in Seq(StageRow(stage)) /\ Len(b) \in Nat
          /\ t \in Seq(Row) /\ Len(t) \in Nat /\ split.height \in Nat
          /\ split.mode # "off"
      BY <2>1, Numbers, Actors
    <2>3. Len(screen') = Larger(Len(screen), Above + d + 1)
      <3>1. b[d + 1] \in Row /\ Above + d + 1 \in Nat \ {0}
        BY <2>1, <2>2, StageRows
      <3> QED BY <2>1, <2>2, <3>1, PutRow
    <2>4. /\ Len(screen) <= Above + Larger(split.height, d)
          /\ newlines = 0 => Len(screen) = Above + Larger(split.height, d)
          /\ Len(t) <= Len(b)
          /\ \A i \in 1 .. Len(t) : t[i] = b[d + i]
      BY <1>0, <2>1, <2>2, Actors DEF Geometry
    <2>5. Len(r) = Len(t) - 1 /\ \A i \in 1 .. Len(r) : r[i] = t[i + 1]
      BY <2>1, <2>2, HeadTailProperties
    <2> HIDE DEF b, t, r, d, d1
    <2>6. /\ Len(screen') <= Above' + Larger(split'.height, d1)
          /\ newlines' = 0 => Len(screen') = Above' + Larger(split'.height, d1)
      BY <2>1, <2>2, <2>3, <2>4 DEF Larger
    <2>7. Len(r) <= Len(b)
      BY <2>2, <2>4, <2>5
    <2>8. ASSUME NEW i \in 1 .. Len(r)
          PROVE  r[i] = b[d1 + i]
      <3> DEFINE j == i + 1
      <3>1. j \in 1 .. Len(t) /\ d1 + i = d + j
        BY <2>1, <2>2, <2>5
      <3>2. r[i] = t[j] /\ t[j] = b[d + j]
        BY <2>4, <2>5, <3>1, Zenon
      <3> HIDE DEF j
      <3> QED BY <3>1, <3>2, Zenon
    <2>9. ~(pc[Main] \in {"open", "closed"})
      BY <1>0, <2>2, Actors DEF Control
    <2> QED BY <2>1, <2>2, <2>6, <2>7, <2>8, <2>9, Zenon DEF Geometry, b, r, d1
  <1>3. ASSUME NEW a \in Actor, EndDraw(a)
        PROVE  Geometry'
    <2> DEFINE n == Len(Block(split))
    <2>1. /\ Above' = Above /\ Depth = n /\ Depth' = 0 /\ split'.height = n
          /\ split'.mode = "drawn" /\ split.mode # "off"
          /\ writer = a /\ writer' = Free /\ UNCHANGED <<screen, newlines>>
      BY <1>3, EndDrawAbove
    <2>2. n \in Nat /\ split.height \in Nat /\ split.height <= n /\ Above \in Nat
      BY <1>0, <2>1, Numbers, Actors DEF BlockOfStage
    <2>3. /\ Len(screen) <= Above + Larger(split.height, n)
          /\ newlines = 0 => Len(screen) = Above + Larger(split.height, n)
      BY <1>0, <2>1 DEF Geometry
    <2> HIDE DEF n
    <2>4. Larger(split.height, n) = n /\ Larger(n, 0) = n
      BY <2>2 DEF Larger
    <2>5. pc[Main] \notin {"open", "closed"} /\ pc'[Main] \notin {"open", "closed"}
      BY <1>0, <1>3, Actors, Active DEF EndDraw, Control
    <2> QED BY <2>1, <2>2, <2>3, <2>4, <2>5, Zenon DEF Geometry
  <1>4. ASSUME NEW a \in Actor, a # Ticker, AppendAPI(a)
        PROVE  Geometry'
    <2>2. split'.mode = split.mode /\ split'.height = split.height
      BY <1>0, <1>4 DEF AppendAPI
    <2> QED BY <1>0, <1>4, <2>2, Actors, GeometryGrown DEF AppendAPI
  <1>5. ASSUME NEW a \in Actor, a # Ticker, MarkDone(a)
        PROVE  Geometry'
    <2>1. After(a) \in {"off", "begin", "call", "lines"}
      BY DEF After
    <2> QED BY <1>0, <1>5, <2>1, Actors, GeometryKept DEF MarkDone
  <1>6. ASSUME NEW a \in Actor, a # Ticker, CallFails(a)
        PROVE  Geometry'
    BY <1>0, <1>6, Actors, GeometryKept DEF CallFails
  <1>7. CASE Cached
    BY <1>0, <1>7, Actors, GeometryKept DEF Cached
  <1>8. CASE Tick
    BY <1>0, <1>8, Actors, GeometryKept DEF Tick
  <1>9. CASE LastTick
    BY <1>0, <1>9, Actors, GeometryKept DEF LastTick
  <1>10. CASE SetTaskLines
    <2>1. split' = [split EXCEPT !.tasks = frame]
      BY <1>10 DEF SetTaskLines
    <2>2. split'.mode = split.mode /\ split'.height = split.height
      BY <1>0, <2>1
    <2> QED BY <1>0, <1>10, <2>2, Actors, GeometryGrown DEF SetTaskLines
  <1>11. CASE Open
    <2>1. /\ Above' = Above /\ Depth' = 0 /\ split'.height = 0 /\ Len(screen) = Above
          /\ writer' = Free /\ UNCHANGED screen /\ Above \in Nat /\ Len(screen) \in Nat
      BY <1>11, OpenAbove, Numbers
    <2>2. Larger(0, 0) = 0
      BY DEF Larger
    <2>3. Len(screen) = Above + 0 /\ Len(screen) <= Above + 0
      BY <2>1
    <2> QED BY <2>1, <2>2, <2>3, Zenon DEF Geometry
  <1>12. CASE WorkersBegin
    BY <1>0, <1>12, Actors, GeometryKept DEF WorkersBegin
  <1>13. CASE WriteLine
    <2> DEFINE n == Len(Block(split))
    <2>1. /\ Above' = Above + 1 /\ Depth' = 0 /\ split'.height = n /\ writer' = Free
          /\ pc[Main] = "lines" /\ UNCHANGED pc
      BY <1>13, WriteLineAbove
    <2>2. n \in Nat /\ Above \in Nat /\ Len(screen') = Above + 1 + n
      BY <1>13, WrittenLine, Numbers
    <2> HIDE DEF n
    <2>3. Larger(n, 0) = n
      BY <2>2 DEF Larger
    <2>4. /\ Above' \in Nat /\ Len(screen') = Above' + Larger(split'.height, Depth')
          /\ Len(screen') <= Above' + Larger(split'.height, Depth')
      BY <2>1, <2>2, <2>3
    <2> QED BY <2>1, <2>4, Zenon DEF Geometry
  <1>14. CASE WriteNewline
    <2>1. /\ Above' = Above + 1 /\ Depth' = Depth /\ Block(split)' = Block(split)
          /\ newlines' = 1 /\ UNCHANGED <<writer, split, todo, screen>>
      BY <1>14, NewlineAbove
    <2>2. pc'[Main] = "stop"
      BY <1>0, <1>14, Actors DEF WriteNewline
    <2>3. /\ Above \in Nat /\ Depth \in Nat /\ split.height \in Nat /\ Len(screen) \in Nat
      BY Numbers
    <2>4. Above' \in Nat /\ Len(screen') <= Above' + Larger(split'.height, Depth')
      BY <1>0, <2>1, <2>3 DEF Geometry, Larger
    <2> QED BY <1>0, <2>1, <2>2, <2>4 DEF Geometry
  <1>15. CASE StopTasks
    BY <1>0, <1>15, Actors, GeometryKept DEF StopTasks
  <1>16. CASE TasksStopped
    BY <1>0, <1>16, Actors, GeometryKept DEF TasksStopped
  <1>17. CASE Close
    <2>1. /\ Above' = Above + split.height /\ Depth' = 0 /\ split'.height = 0
          /\ split'.mode = "off" /\ Len(screen) = Above' /\ writer' = Free /\ UNCHANGED screen
      BY <1>17, CloseAbove
    <2>2. Above' \in Nat /\ Larger(0, 0) = 0 /\ Len(screen) <= Above' + 0
      BY <2>1, Numbers DEF Larger
    <2> QED BY <2>1, <2>2, Zenon DEF Geometry
  <1>18. CASE PrintLine
    <2>1. /\ Above' = Above + 1 /\ Depth' = 0 /\ split.height = 0 /\ split.mode = "off"
          /\ Len(screen) = Above /\ writer' = Free /\ UNCHANGED split
          /\ screen' = Put(screen, Above + 1, Line(printed + 1))
      BY <1>18, PrintLineAbove
    <2>2. screen \in Seq(Row) /\ Above \in Nat /\ Line(printed + 1) \in Row
      BY <1>0, Numbers, RowTypes
    <2>3. Len(screen') = Larger(Len(screen), Above + 1)
      BY <2>1, <2>2, PutRow
    <2>4. Above' \in Nat /\ Len(screen') = Above' /\ Larger(0, 0) = 0 /\ Len(screen') <= Above' + 0
      BY <2>1, <2>2, <2>3 DEF Larger
    <2> QED BY <2>1, <2>4, Zenon DEF Geometry
  <1>19. CASE NextStage
    <2>1. /\ Above' = Above /\ Depth' = 0 /\ split.mode = "off" /\ split.height = 0
          /\ Len(screen) = Above /\ writer' = Free /\ UNCHANGED <<split, screen>>
      BY <1>19, NextStageAbove
    <2>2. Above \in Nat /\ Larger(0, 0) = 0 /\ Len(screen) <= Above + 0
      BY <2>1, Numbers DEF Larger
    <2> QED BY <2>1, <2>2, Zenon DEF Geometry
  <1>20. CASE UNCHANGED vars
    BY <1>0, <1>20, Actors, GeometryKept DEF vars
  <1> QED BY <1>1, <1>2, <1>3, <1>4, <1>5, <1>6, <1>7, <1>8, <1>9, <1>10, <1>11,
             <1>12, <1>13, <1>14, <1>15, <1>16, <1>17, <1>18, <1>19, <1>20,
             Zenon
         DEF Next, LockStep, FreeStep, MainStep

\* A terminal with the same lines at the same places has the same lines.
LEMMA LinesSame ==
    ASSUME NEW old, NEW new, NEW n, LinesIn(old, n),
           LineRows(new) = LineRows(old),
           \A i \in LineRows(old) : new[i] = old[i],
           \A i \in DOMAIN new : new[i].kind # "mixed"
    PROVE  LinesIn(new, n)
  <1> HIDE DEF LineRows
  <1>1. {new[i] : i \in LineRows(new)} = {old[i] : i \in LineRows(old)}
    OBVIOUS
  <1>2. ASSUME NEW i \in LineRows(new), NEW j \in LineRows(new), i < j
        PROVE  new[i].of < new[j].of
    <2>1. i \in LineRows(old) /\ j \in LineRows(old)
      BY <1>2, Zenon
    <2>2. new[i] = old[i] /\ new[j] = old[j] /\ old[i].of < old[j].of
      BY <1>2, <2>1, Zenon DEF LinesIn
    <2> QED BY <2>2
  <1> QED BY <1>1, <1>2, Zenon DEF LinesIn

\* One that has the next line below all others has one line more.
LEMMA LinesOneMore ==
    ASSUME NEW old, NEW new, NEW n \in Nat, NEW k \in Nat, LinesIn(old, n),
           LineRows(old) \subseteq 1 .. (k - 1),
           LineRows(new) = LineRows(old) \cup {k},
           \A i \in LineRows(old) : new[i] = old[i],
           new[k] = Line(n + 1),
           \A i \in DOMAIN new : new[i].kind # "mixed"
    PROVE  LinesIn(new, n + 1)
  <1> HIDE DEF LineRows
  <1>1. {new[i] : i \in LineRows(new)} = {old[i] : i \in LineRows(old)} \cup {Line(n + 1)}
    <2>1. \A i \in LineRows(old) : new[i] \in {old[j] : j \in LineRows(old)}
      BY Zenon
    <2>2. \A i \in LineRows(old) : old[i] \in {new[j] : j \in LineRows(new)}
      BY Zenon
    <2>3. Line(n + 1) \in {new[j] : j \in LineRows(new)}
      BY Zenon
    <2>4. ASSUME NEW i \in LineRows(new)
          PROVE  new[i] \in {old[j] : j \in LineRows(old)} \cup {Line(n + 1)}
      BY <2>1, Zenon
    <2>5. ASSUME NEW r \in {old[j] : j \in LineRows(old)} \cup {Line(n + 1)}
          PROVE  r \in {new[j] : j \in LineRows(new)}
      BY <2>2, <2>3, Zenon
    <2> QED BY <2>4, <2>5
  <1>2. {Line(m) : m \in 1 .. n + 1} = {Line(m) : m \in 1 .. n} \cup {Line(n + 1)}
    <2>1. 1 .. n + 1 = (1 .. n) \cup {n + 1}
      OBVIOUS
    <2> QED BY <2>1, Zenon
  <1>3. \A i \in LineRows(old) : old[i].of < n + 1 /\ i < k
    <2> TAKE i \in LineRows(old)
    <2>1. old[i] \in {Line(m) : m \in 1 .. n}
      BY Zenon DEF LinesIn
    <2>2. PICK m \in 1 .. n : old[i] = Line(m)
      BY <2>1
    <2> QED BY <2>2 DEF Line
  <1>4. ASSUME NEW i \in LineRows(new), NEW j \in LineRows(new), i < j
        PROVE  new[i].of < new[j].of
    <2>1. CASE i \in LineRows(old) /\ j \in LineRows(old)
      BY <1>4, <2>1, Zenon DEF LinesIn
    <2>2. CASE j = k /\ i \in LineRows(old)
      BY <1>3, <2>2 DEF Line
    <2>3. CASE i = k
      <3>1. j \in LineRows(old) \/ j = k
        OBVIOUS
      <3>2. ~(k < j)
        BY <1>3, <3>1
      <3> QED BY <1>4, <2>3, <3>2
    <2> QED BY <2>1, <2>2, <2>3
  <1> QED BY <1>1, <1>2, <1>4, Zenon DEF LinesIn

\* A step that writes nothing, and moves the block down at most, keeps the
\* lines.
LEMMA LinesKept ==
    ASSUME DisplayInv, UNCHANGED <<screen, printed>>, Above' \in Nat, Above <= Above'
    PROVE  LinesStay' /\ LinesAbove'
  <1>1. LinesStay /\ LinesAbove /\ Above \in Nat /\ DOMAIN screen = 1 .. Len(screen)
    BY Numbers DEF DisplayInv
  <1>2. LinesStay'
    BY <1>1 DEF LinesStay, Line
  <1>3. LinesAbove'
    BY <1>1 DEF LinesAbove
  <1> QED BY <1>2, <1>3

\* LinesStay in terms of LinesIn.
LEMMA LinesInIsLinesStay ==
    /\ LinesStay <=> LinesIn(screen, printed)
    /\ LinesStay' <=> LinesIn(screen', printed')
  BY DEF LinesStay, LinesIn, LineRows, Line

\* Drawing a row overwrites no line, and is no line.
LEMMA DrawnRowLines ==
    ASSUME DisplayInv, NEW a \in Actor, DrawRow(a)
    PROVE  LinesStay' /\ LinesAbove'
  <1> DEFINE k == Above + Depth + 1
             row == Block(split)[Depth + 1]
  <1>0. LinesIn(screen, printed) /\ LinesAbove
    BY LinesInIsLinesStay DEF DisplayInv
  <1>1. /\ Above' = Above /\ screen' = Put(screen, k, row) /\ writer = a
        /\ Depth + 1 \in 1 .. Len(Block(split))
    BY DrawRowAbove
  <1>2. /\ Above \in Nat /\ Depth \in Nat /\ screen \in Seq(Row) /\ Len(screen) \in Nat
        /\ DOMAIN screen = 1 .. Len(screen)
        /\ Block(split) \in Seq(StageRow(stage))
    BY <1>1, Numbers, Actors
  <1>3. row \in Row /\ row.kind \notin {"line", "mixed"}
    BY <1>1, <1>2, StageRows
  <1>4. k \in Nat \ {0} /\ k > Above
    BY <1>2
  <1> HIDE DEF k, row
  <1>5. /\ DOMAIN screen' = 1 .. Larger(Len(screen), k) /\ screen'[k] = row
        /\ \A n \in 1 .. Larger(Len(screen), k) : n # k =>
             screen'[n] = IF n <= Len(screen) THEN screen[n] ELSE Empty
    <2>1. /\ DOMAIN Put(screen, k, row) = 1 .. Larger(Len(screen), k)
          /\ Put(screen, k, row)[k] = row
          /\ \A n \in 1 .. Larger(Len(screen), k) : n # k =>
               Put(screen, k, row)[n] = IF n <= Len(screen) THEN screen[n] ELSE Empty
      BY <1>2, <1>3, <1>4, PutRow, Zenon
    <2> QED BY <1>1, <2>1
  <1>6. \A i \in LineRows(screen) : i \in 1 .. Len(screen) /\ i # k
    BY <1>0, <1>2, <1>4 DEF LinesAbove, LineRows
  <1>7. \A i \in LineRows(screen) : screen'[i] = screen[i] /\ i \in DOMAIN screen'
    <2> TAKE i \in LineRows(screen)
    <2>1. i \in 1 .. Larger(Len(screen), k) /\ i <= Len(screen) /\ i # k
      BY <1>2, <1>4, <1>6 DEF Larger
    <2> QED BY <1>5, <2>1, Zenon
  <1>8. \A i \in DOMAIN screen' : i # k =>
          \/ i \in DOMAIN screen /\ screen'[i] = screen[i]
          \/ screen'[i] = Empty
    BY <1>2, <1>4, <1>5 DEF Larger
  <1>9. Empty.kind = "empty"
    BY DEF Empty
  <1>10. LineRows(screen') = LineRows(screen)
    BY <1>3, <1>5, <1>7, <1>8, <1>9 DEF LineRows
  <1>11. \A i \in DOMAIN screen' : screen'[i].kind # "mixed"
    BY <1>0, <1>3, <1>5, <1>8, <1>9 DEF LinesIn
  <1>12. printed' = printed
    BY DEF DrawRow
  <1>13. LinesIn(screen', printed')
    BY <1>0, <1>7, <1>10, <1>11, <1>12, LinesSame
  <1>14. LinesAbove'
    BY <1>0, <1>1, <1>7, <1>10 DEF LinesAbove, LineRows
  <1> QED BY <1>13, <1>14, LinesInIsLinesStay

\* A line written just above the block is the next one.
LEMMA AddedLine ==
    ASSUME LinesIn(screen, printed), LinesAbove, printed \in Nat, NEW k \in Nat,
           screen \in Seq(Row), \A i \in LineRows(screen) : i < k,
           Above' = k, printed' = printed + 1,
           k \in DOMAIN screen', screen'[k] = Line(printed + 1),
           \A i \in DOMAIN screen : i < k => i \in DOMAIN screen' /\ screen'[i] = screen[i],
           \A i \in DOMAIN screen' :
              \/ i = k
              \/ i < k /\ i \in DOMAIN screen
              \/ screen'[i].kind \notin {"line", "mixed"}
    PROVE  LinesStay' /\ LinesAbove'
  <1>1. \A i \in LineRows(screen) : i \in DOMAIN screen
    BY DEF LineRows
  <1>2. \A i \in LineRows(screen) : i \in 1 .. k - 1
    <2> TAKE i \in LineRows(screen)
    <2>1. i \in 1 .. Len(screen) /\ i < k /\ Len(screen) \in Nat
      BY <1>1
    <2> QED BY <2>1
  <1>3. \A i \in LineRows(screen) : i \in LineRows(screen') /\ screen'[i] = screen[i]
    BY <1>1 DEF LineRows
  <1>4. k \in LineRows(screen')
    BY DEF LineRows, Line
  <1>5. \A i \in LineRows(screen') : i = k \/ i \in LineRows(screen)
    BY DEF LineRows
  <1>6. LineRows(screen') = LineRows(screen) \cup {k}
    BY <1>3, <1>4, <1>5
  <1>7. \A i \in DOMAIN screen' : screen'[i].kind # "mixed"
    BY DEF LinesIn, Line
  <1>8. LinesIn(screen', printed')
    BY <1>2, <1>3, <1>6, <1>7, LinesOneMore
  <1>9. LinesAbove'
    <2>1. \A i \in LineRows(screen') : i <= k
      BY <1>2, <1>5
    <2> QED BY <2>1 DEF LinesAbove, LineRows
  <1> QED BY <1>8, <1>9, LinesInIsLinesStay

\* A line printed without a display leaves the rows above it.
LEMMA PrintedLine ==
    ASSUME DisplayInv, PrintLine
    PROVE  /\ DOMAIN screen' = 1 .. Above + 1 /\ DOMAIN screen = 1 .. Above
           /\ screen'[Above + 1] = Line(printed + 1)
           /\ \A i \in 1 .. Above : screen'[i] = screen[i]
  <1> DEFINE k == Above + 1
             l == Line(printed + 1)
  <1>1. Len(screen) = Above /\ screen' = Put(screen, k, l)
    BY PrintLineAbove
  <1>2. /\ screen \in Seq(Row) /\ Len(screen) \in Nat /\ DOMAIN screen = 1 .. Len(screen)
    BY <1>1, Numbers
  <1>3. l \in Row
    <2>1. printed \in Nat /\ stage \in Stages
      BY Numbers DEF DisplayInv, TypeOK
    <2> QED BY <2>1, RowTypes
  <1>4. k \in Nat \ {0}
    BY Numbers
  <1>5. k = Len(screen) + 1 /\ Larger(Len(screen), k) = k
    BY <1>1, <1>2 DEF Larger
  <1> HIDE DEF k, l
  <1>6. /\ DOMAIN Put(screen, k, l) = 1 .. Larger(Len(screen), k)
        /\ Put(screen, k, l)[k] = l
        /\ \A n \in 1 .. Larger(Len(screen), k) : n # k =>
             Put(screen, k, l)[n] = IF n <= Len(screen) THEN screen[n] ELSE Empty
    BY <1>2, <1>3, <1>4, PutRow, Zenon
  <1>7. DOMAIN screen' = 1 .. k /\ screen'[k] = l
    BY <1>1, <1>6, <1>5
  <1>8. \A i \in 1 .. Above : i \in 1 .. k /\ i # k /\ i <= Len(screen)
    BY <1>1, <1>2, <1>5 DEF k
  <1>9. \A i \in 1 .. Above : screen'[i] = screen[i]
    BY <1>1, <1>6, <1>8, <1>5, Zenon
  <1> QED BY <1>1, <1>2, <1>7, <1>9 DEF k, l

\* Every step keeps the lines, above the block.
LEMMA LinesStep == ASSUME DisplayInv, [Next]_vars
                   PROVE  LinesStay' /\ LinesAbove'
  <1>0. /\ DisplayInv /\ TypeOK /\ LinesIn(screen, printed) /\ LinesAbove
        /\ Above \in Nat /\ Above <= Above
    BY Numbers, LinesInIsLinesStay DEF DisplayInv
  <1> USE DEF terminal, tasks
  <1>1. ASSUME NEW a \in Actor, BeginDraw(a)
        PROVE  LinesStay' /\ LinesAbove'
    <2>1. Above' = Above /\ UNCHANGED <<screen, printed>>
      BY <1>1, BeginDrawAbove DEF BeginDraw
    <2> QED BY <1>0, <2>1, LinesKept
  <1>2. ASSUME NEW a \in Actor, DrawRow(a)
        PROVE  LinesStay' /\ LinesAbove'
    BY <1>2, DrawnRowLines
  <1>3. ASSUME NEW a \in Actor, EndDraw(a)
        PROVE  LinesStay' /\ LinesAbove'
    <2>1. Above' = Above /\ UNCHANGED <<screen, printed>>
      BY <1>3, EndDrawAbove DEF EndDraw
    <2> QED BY <1>0, <2>1, LinesKept
  <1>4. ASSUME NEW a \in Actor, a # Ticker, AppendAPI(a)
        PROVE  LinesStay' /\ LinesAbove'
    <2>1. split'.mode = split.mode /\ split'.height = split.height
      BY <1>0, <1>4 DEF AppendAPI
    <2> QED BY <1>0, <1>4, <2>1, GrownAbove, LinesKept DEF AppendAPI
  <1>5. ASSUME NEW a \in Actor, a # Ticker, MarkDone(a)
        PROVE  LinesStay' /\ LinesAbove'
    BY <1>0, <1>5, Undrawn, LinesKept DEF MarkDone
  <1>6. ASSUME NEW a \in Actor, a # Ticker, CallFails(a)
        PROVE  LinesStay' /\ LinesAbove'
    BY <1>0, <1>6, Undrawn, LinesKept DEF CallFails
  <1>7. CASE Cached
    BY <1>0, <1>7, Undrawn, LinesKept DEF Cached
  <1>8. CASE Tick
    BY <1>0, <1>8, Undrawn, LinesKept DEF Tick
  <1>9. CASE LastTick
    BY <1>0, <1>9, Undrawn, LinesKept DEF LastTick
  <1>10. CASE SetTaskLines
    <2>1. split'.mode = split.mode /\ split'.height = split.height
      BY <1>0, <1>10 DEF SetTaskLines
    <2> QED BY <1>0, <1>10, <2>1, GrownAbove, LinesKept DEF SetTaskLines
  <1>11. CASE Open
    <2>1. Above' = Above /\ UNCHANGED <<screen, printed>>
      BY <1>11, OpenAbove DEF Open
    <2> QED BY <1>0, <2>1, LinesKept
  <1>12. CASE WorkersBegin
    BY <1>0, <1>12, Undrawn, LinesKept DEF WorkersBegin
  <1>13. CASE WriteLine
    <2> DEFINE k == Above + 1
               n == Len(Block(split))
    <2>1. Above' = k /\ printed' = printed + 1 /\ stage \in Stages
      BY <1>0, <1>13, WriteLineAbove DEF TypeOK
    <2>2. /\ Above \in 0 .. Len(screen) /\ n \in Nat /\ screen' \in Seq(Row)
          /\ Len(screen') = k + n /\ screen'[k] = Line(printed + 1)
          /\ \A i \in 1 .. Above : screen'[i] = screen[i]
          /\ \A i \in 1 .. n : screen'[k + i] = Block(split)[i]
      BY <1>13, WrittenLine
    <2>3. /\ screen \in Seq(Row) /\ Len(screen) \in Nat /\ printed \in Nat
          /\ DOMAIN screen = 1 .. Len(screen)
      BY Numbers
    <2>4. DOMAIN screen' = 1 .. k + n
      BY <2>2
    <2>5. \A i \in 1 .. n : Block(split)[i].kind \notin {"line", "mixed"}
      <3>1. Block(split) \in Seq(StageRow(stage))
        BY <1>0, <1>13, Actors, Active, BlockRows DEF WriteLine, DisplayInv
      <3> QED BY <3>1, StageRows
    <2> HIDE DEF n
    <2>6. ASSUME NEW i \in DOMAIN screen'
          PROVE  \/ i = k
                 \/ i < k /\ i \in DOMAIN screen
                 \/ screen'[i].kind \notin {"line", "mixed"}
      <3>1. CASE i > k
        <4>1. i - k \in 1 .. n /\ k + (i - k) = i
          BY <2>2, <2>4, <3>1
        <4>2. screen'[k + (i - k)] = Block(split)[i - k]
          BY <2>2, <4>1, Zenon
        <4>3. Block(split)[i - k].kind \notin {"line", "mixed"}
          BY <2>5, <4>1, Zenon
        <4> QED BY <4>1, <4>2, <4>3, Zenon
      <3>2. CASE i < k
        BY <2>2, <2>3, <2>4, <3>2
      <3>3. i < k \/ i = k \/ i > k
        BY <2>2, <2>4
      <3> QED BY <3>1, <3>2, <3>3, Zenon
    <2>7. k \in Nat /\ k \in DOMAIN screen'
      BY <2>2, <2>4
    <2>8. \A i \in DOMAIN screen : i < k => i \in DOMAIN screen' /\ screen'[i] = screen[i]
      <3> TAKE i \in DOMAIN screen
      <3> HAVE i < k
      <3>1. i \in 1 .. Above /\ i \in 1 .. k + n
        BY <2>2, <2>3
      <3> QED BY <2>2, <2>4, <3>1, Zenon
    <2>9. \A i \in LineRows(screen) : i < k
      BY <1>0, <2>2, <2>3 DEF LinesAbove, LineRows
    <2> HIDE DEF k
    <2> QED BY <1>0, <2>1, <2>2, <2>3, <2>6, <2>7, <2>8, <2>9, AddedLine
  <1>14. CASE WriteNewline
    <2>1. Above' = Above + 1 /\ UNCHANGED <<screen, printed>>
      BY <1>14, NewlineAbove
    <2> QED BY <1>0, <2>1, LinesKept
  <1>15. CASE StopTasks
    BY <1>0, <1>15, Undrawn, LinesKept DEF StopTasks
  <1>16. CASE TasksStopped
    BY <1>0, <1>16, Undrawn, LinesKept DEF TasksStopped
  <1>17. CASE Close
    <2>1. Above' = Above + split.height /\ UNCHANGED <<screen, printed>>
      BY <1>17, CloseAbove
    <2>2. split.height \in Nat
      BY Numbers
    <2> QED BY <1>0, <2>1, <2>2, LinesKept
  <1>18. CASE PrintLine
    <2> DEFINE k == Above + 1
    <2>1. /\ Above' = k /\ printed' = printed + 1 /\ printed \in Nat /\ screen \in Seq(Row)
          /\ Above \in Nat
      BY <1>18, PrintLineAbove, Numbers
    <2>2. /\ DOMAIN screen' = 1 .. k /\ DOMAIN screen = 1 .. Above
          /\ screen'[k] = Line(printed + 1)
          /\ \A i \in 1 .. Above : screen'[i] = screen[i]
      BY <1>18, PrintedLine
    <2>3. k \in Nat /\ k \in DOMAIN screen' /\ \A i \in 1 .. Above : i \in 1 .. k /\ i < k
      BY <2>1, <2>2
    <2>4. \A i \in 1 .. k : i = k \/ i \in 1 .. Above
      BY <2>1
    <2>5. \A i \in LineRows(screen) : i \in DOMAIN screen
      BY DEF LineRows
    <2> HIDE DEF k
    <2> QED BY <1>0, <2>1, <2>2, <2>3, <2>4, <2>5, AddedLine
  <1>19. CASE NextStage
    <2>1. Above' = Above /\ UNCHANGED <<screen, printed>>
      BY <1>19, NextStageAbove DEF NextStage
    <2> QED BY <1>0, <2>1, LinesKept
  <1>20. CASE UNCHANGED vars
    BY <1>0, <1>20, Undrawn, LinesKept DEF vars
  <1> QED BY <1>1, <1>2, <1>3, <1>4, <1>5, <1>6, <1>7, <1>8, <1>9, <1>10, <1>11,
             <1>12, <1>13, <1>14, <1>15, <1>16, <1>17, <1>18, <1>19, <1>20,
             Zenon
         DEF Next, LockStep, FreeStep, MainStep

\* A step that leaves the terminal and the block alone keeps RowsBelow.
LEMMA RowsKept ==
    ASSUME RowsBelow, UNCHANGED <<stage, screen>>,
           split'.mode # "off" /\ newlines' = 0 =>
             Above' = Above /\ split.mode # "off" /\ newlines = 0,
           pc'[Main] = "open" => pc[Main] = "open"
    PROVE  RowsBelow'
  BY Zenon DEF RowsBelow

\* A row that is drawn is one of the stage, at or below the first of the block.
LEMMA DrawnRowRows ==
    ASSUME DisplayInv, NEW a \in Actor, DrawRow(a)
    PROVE  RowsBelow'
  <1> DEFINE k == Above + Depth + 1
             row == Block(split)[Depth + 1]
  <1>0. TypeOK /\ Control /\ RowsBelow /\ Geometry
    BY DEF DisplayInv
  <1>1. /\ Above' = Above /\ screen' = Put(screen, k, row) /\ writer = a
        /\ Depth + 1 \in 1 .. Len(Block(split))
        /\ UNCHANGED <<split, newlines, stage, pc>>
    BY DrawRowAbove
  <1>2. /\ Above \in Nat /\ Depth \in Nat /\ screen \in Seq(Row) /\ Len(screen) \in Nat
        /\ DOMAIN screen = 1 .. Len(screen) /\ split.height \in Nat
        /\ Block(split) \in Seq(StageRow(stage)) /\ split.mode # "off" /\ stage # "over"
    BY <1>1, Numbers, Actors
  <1>3. row \in Row /\ row.at = stage
    BY <1>1, <1>2, StageRows
  <1>4. k \in Nat \ {0} /\ k > Above
    BY <1>2
  <1>5. newlines = 0 => k <= Len(screen) + 1
    <2>1. newlines = 0 => Len(screen) = Above + Larger(split.height, Depth)
      BY <1>0, <1>2 DEF Geometry
    <2> DEFINE high == split.height
               d == Depth
               len == Len(screen)
    <2>2. /\ newlines = 0 => len = Above + Larger(high, d)
          /\ high \in Nat /\ d \in Nat /\ len \in Nat /\ Above \in Nat
      BY <1>2, <2>1
    <2> HIDE DEF high, d, len
    <2>3. newlines = 0 => Above + d <= len
      BY <2>2 DEF Larger
    <2>4. newlines = 0 => Above + d + 1 <= len + 1
      BY <2>2, <2>3
    <2> QED BY <2>4 DEF d, len
  <1> HIDE DEF k, row
  <1>6. /\ DOMAIN screen' = 1 .. Larger(Len(screen), k) /\ screen'[k] = row
        /\ \A n \in 1 .. Larger(Len(screen), k) : n # k =>
             screen'[n] = IF n <= Len(screen) THEN screen[n] ELSE Empty
    <2>1. /\ DOMAIN Put(screen, k, row) = 1 .. Larger(Len(screen), k)
          /\ Put(screen, k, row)[k] = row
          /\ \A n \in 1 .. Larger(Len(screen), k) : n # k =>
               Put(screen, k, row)[n] = IF n <= Len(screen) THEN screen[n] ELSE Empty
      BY <1>2, <1>3, <1>4, PutRow, Zenon
    <2> QED BY <1>1, <2>1
  <1>7. \A i \in DOMAIN screen' : i # k =>
          \/ i \in DOMAIN screen /\ screen'[i] = screen[i]
          \/ newlines # 0 /\ screen'[i] = Empty
    BY <1>2, <1>4, <1>5, <1>6 DEF Larger
  <1>8. Empty.at = "over"
    BY DEF Empty
  <1>9. ASSUME newlines = 0, NEW i \in DOMAIN screen'
        PROVE  screen'[i].at = stage <=> i > Above
    <2>1. CASE i = k
      BY <1>3, <1>4, <1>6, <2>1
    <2>2. CASE i # k
      <3>1. i \in DOMAIN screen /\ screen'[i] = screen[i]
        BY <1>7, <1>9, <2>2
      <3> QED BY <1>0, <1>2, <1>9, <3>1 DEF RowsBelow
    <2> QED BY <2>1, <2>2
  <1>10. ASSUME stage = "estimate", NEW i \in DOMAIN screen'
         PROVE  screen'[i].at # "start"
    <2>1. CASE i = k
      BY <1>3, <1>6, <1>10, <2>1
    <2>2. CASE i # k
      BY <1>0, <1>7, <1>8, <1>10, <2>2 DEF RowsBelow
    <2> QED BY <2>1, <2>2
  <1>11. pc[Main] # "open"
    BY <1>0, <1>2 DEF Control
  <1> QED BY <1>1, <1>9, <1>10, <1>11, Zenon DEF RowsBelow

\* Every step keeps RowsBelow.
LEMMA RowsStep == ASSUME DisplayInv, [Next]_vars
                  PROVE  RowsBelow'
  <1>0. TypeOK /\ Control /\ RowsBelow
    BY DEF DisplayInv
  <1> USE DEF TypeOK, Goto, terminal, tasks
  <1>1. ASSUME NEW a \in Actor, BeginDraw(a)
        PROVE  RowsBelow'
    <2>1. Above' = Above /\ UNCHANGED <<split, screen, newlines, stage>>
      BY <1>1, BeginDrawAbove
    <2>2. pc'[Main] = "open" => pc[Main] = "open"
      BY <1>0, <1>1, Actors DEF BeginDraw
    <2> QED BY <1>0, <2>1, <2>2, RowsKept
  <1>2. ASSUME NEW a \in Actor, DrawRow(a)
        PROVE  RowsBelow'
    BY <1>2, DrawnRowRows
  <1>3. ASSUME NEW a \in Actor, EndDraw(a)
        PROVE  RowsBelow'
    <2>1. Above' = Above /\ split.mode # "off" /\ UNCHANGED <<screen, newlines, stage>>
      BY <1>3, EndDrawAbove
    <2>2. pc'[Main] = "open" => pc[Main] = "open"
      BY <1>0, <1>3, Actors DEF EndDraw
    <2> QED BY <1>0, <2>1, <2>2, RowsKept
  <1>4. ASSUME NEW a \in Actor, a # Ticker, AppendAPI(a)
        PROVE  RowsBelow'
    <2>1. split'.mode = split.mode /\ split'.height = split.height
      BY <1>0, <1>4 DEF AppendAPI
    <2>2. Above' = Above
      BY <1>0, <1>4, <2>1, GrownAbove DEF AppendAPI
    <2> QED BY <1>0, <1>4, <2>1, <2>2, Actors, RowsKept DEF AppendAPI
  <1>5. ASSUME NEW a \in Actor, a # Ticker, MarkDone(a)
        PROVE  RowsBelow'
    <2>1. After(a) # "open"
      BY DEF After
    <2> QED BY <1>0, <1>5, <2>1, Undrawn, Actors, RowsKept DEF MarkDone
  <1>6. ASSUME NEW a \in Actor, a # Ticker, CallFails(a)
        PROVE  RowsBelow'
    BY <1>0, <1>6, Undrawn, Actors, RowsKept DEF CallFails
  <1>7. CASE Cached
    BY <1>0, <1>7, Undrawn, Actors, RowsKept DEF Cached
  <1>8. CASE Tick
    BY <1>0, <1>8, Undrawn, Actors, RowsKept DEF Tick
  <1>9. CASE LastTick
    BY <1>0, <1>9, Undrawn, Actors, RowsKept DEF LastTick
  <1>10. CASE SetTaskLines
    <2>1. split'.mode = split.mode /\ split'.height = split.height
      BY <1>0, <1>10 DEF SetTaskLines
    <2>2. Above' = Above
      BY <1>0, <1>10, <2>1, GrownAbove DEF SetTaskLines
    <2> QED BY <1>0, <1>10, <2>1, <2>2, Actors, RowsKept DEF SetTaskLines
  <1>11. CASE Open
    <2>1. /\ Above' = Above /\ Len(screen) = Above /\ UNCHANGED <<screen, stage>>
      BY <1>11, OpenAbove
    <2>2. DOMAIN screen = 1 .. Above /\ Above \in Nat
      BY <2>1, Numbers
    <2>3. \A i \in DOMAIN screen : screen[i].at # stage
      BY <1>0, <1>11 DEF RowsBelow, Open
    <2>4. pc'[Main] # "open"
      BY <1>0, <1>11, Actors DEF Open
    <2>5. \A i \in DOMAIN screen : ~(i > Above)
      BY <2>2
    <2> QED BY <1>0, <2>1, <2>3, <2>4, <2>5, Zenon DEF RowsBelow
  <1>12. CASE WorkersBegin
    BY <1>0, <1>12, Undrawn, Actors, RowsKept DEF WorkersBegin
  <1>13. CASE WriteLine
    <2> DEFINE k == Above + 1
               n == Len(Block(split))
    <2>1. /\ Above' = k /\ split.mode # "off" /\ newlines = 0 /\ pc[Main] = "lines"
          /\ UNCHANGED <<stage, pc, newlines>>
      BY <1>13, WriteLineAbove
    <2>2. /\ Above \in 0 .. Len(screen) /\ n \in Nat /\ screen' \in Seq(Row)
          /\ Len(screen') = k + n /\ screen'[k] = Line(printed + 1)
          /\ \A i \in 1 .. Above : screen'[i] = screen[i]
          /\ \A i \in 1 .. n : screen'[k + i] = Block(split)[i]
      BY <1>13, WrittenLine
    <2>3. /\ Above \in Nat /\ Len(screen) \in Nat /\ DOMAIN screen = 1 .. Len(screen)
      BY Numbers
    <2>4. DOMAIN screen' = 1 .. k + n
      BY <2>2
    <2>5. stage # "over" /\ Shown
      BY <1>0, <2>1 DEF Control, Shown
    <2>6. \A i \in 1 .. n : Block(split)[i].at = stage
      <3>1. Block(split) \in Seq(StageRow(stage))
        BY <1>0, <2>5, BlockRows DEF DisplayInv
      <3> QED BY <3>1, StageRows
    <2>7. Line(printed + 1).at = "over"
      BY DEF Line
    <2> HIDE DEF n
    <2>8. ASSUME NEW i \in DOMAIN screen'
          PROVE  /\ screen'[i].at = stage <=> i > k
                 /\ stage = "estimate" => screen'[i].at # "start"
      <3>1. CASE i > k
        <4>1. i - k \in 1 .. n /\ k + (i - k) = i
          BY <2>2, <2>4, <3>1
        <4>2. screen'[k + (i - k)] = Block(split)[i - k]
          BY <2>2, <4>1, Zenon
        <4>3. Block(split)[i - k].at = stage
          BY <2>6, <4>1, Zenon
        <4>4. screen'[i].at = stage
          BY <4>1, <4>2, <4>3, Zenon
        <4> QED BY <3>1, <4>4
      <3>2. CASE i < k
        <4>1. i \in 1 .. Above /\ i \in DOMAIN screen /\ ~(i > Above) /\ ~(i > k)
          BY <2>2, <2>3, <2>4, <3>2
        <4>2. screen'[i] = screen[i]
          BY <2>2, <4>1, Zenon
        <4> QED BY <1>0, <2>1, <4>1, <4>2, Zenon DEF RowsBelow
      <3>3. CASE i = k
        <4>1. screen'[i].at = "over" /\ ~(i > k)
          BY <2>2, <2>3, <2>7, <3>3
        <4> QED BY <2>5, <4>1
      <3>4. i < k \/ i = k \/ i > k
        BY <2>2, <2>4
      <3> QED BY <3>1, <3>2, <3>3, <3>4, Zenon
    <2> HIDE DEF k
    <2>9. \A i \in DOMAIN screen' : screen'[i].at = stage' <=> i > Above'
      BY <2>1, <2>8, Zenon
    <2>10. stage' = "estimate" => \A i \in DOMAIN screen' : screen'[i].at # "start"
      BY <2>1, <2>8, Zenon
    <2>11. pc'[Main] # "open"
      BY <2>1
    <2> QED BY <2>9, <2>10, <2>11, Zenon DEF RowsBelow
  <1>14. CASE WriteNewline
    <2>1. newlines' = 1 /\ UNCHANGED <<stage, screen>>
      BY <1>14, NewlineAbove
    <2>2. pc'[Main] # "open"
      BY <1>0, <1>14, Actors DEF WriteNewline
    <2> QED BY <1>0, <2>1, <2>2, RowsKept
  <1>15. CASE StopTasks
    BY <1>0, <1>15, Undrawn, Actors, RowsKept DEF StopTasks
  <1>16. CASE TasksStopped
    BY <1>0, <1>16, Undrawn, Actors, RowsKept DEF TasksStopped
  <1>17. CASE Close
    <2>1. split'.mode = "off" /\ UNCHANGED <<stage, screen>>
      BY <1>17, CloseAbove
    <2>2. pc'[Main] # "open"
      BY <1>0, <1>17, Actors DEF Close
    <2> QED BY <1>0, <2>1, <2>2, RowsKept
  <1>18. CASE PrintLine
    <2> DEFINE k == Above + 1
    <2>1. split.mode = "off" /\ pc[Main] = "closed" /\ UNCHANGED <<split, stage, pc>>
      BY <1>18, PrintLineAbove
    <2>2. /\ DOMAIN screen' = 1 .. k /\ DOMAIN screen = 1 .. Above
          /\ screen'[k] = Line(printed + 1) /\ Above \in Nat
          /\ \A i \in 1 .. Above : screen'[i] = screen[i]
      BY <1>18, PrintedLine, Numbers
    <2>3. \A i \in 1 .. k : i = k \/ i \in 1 .. Above
      BY <2>2
    <2>4. Line(printed + 1).at = "over"
      BY DEF Line
    <2> HIDE DEF k
    <2>5. stage' = "estimate" => \A i \in DOMAIN screen' : screen'[i].at # "start"
      BY <1>0, <2>1, <2>2, <2>3, <2>4 DEF RowsBelow
    <2>6. split'.mode = "off" /\ pc'[Main] # "open"
      BY <2>1
    <2> QED BY <2>5, <2>6, Zenon DEF RowsBelow
  <1>19. CASE NextStage
    <2>1. split.mode = "off" /\ UNCHANGED <<split, screen>>
      BY <1>19, NextStageAbove
    <2>2. \/ stage = "estimate" /\ stage' = "start"
          \/ stage' = "over" /\ pc'[Main] = "off"
      BY <1>0, <1>19, Actors DEF NextStage
    <2>3. split'.mode = "off" /\ stage' # "estimate"
      BY <2>1, <2>2
    <2>4. pc'[Main] = "open" => \A i \in DOMAIN screen' : screen'[i].at # stage'
      BY <1>0, <2>1, <2>2 DEF RowsBelow
    <2> QED BY <2>3, <2>4, Zenon DEF RowsBelow
  <1>20. CASE UNCHANGED vars
    BY <1>0, <1>20, Undrawn, Actors, RowsKept DEF vars
  <1> QED BY <1>1, <1>2, <1>3, <1>4, <1>5, <1>6, <1>7, <1>8, <1>9, <1>10, <1>11,
             <1>12, <1>13, <1>14, <1>15, <1>16, <1>17, <1>18, <1>19, <1>20,
             Zenon
         DEF Next, LockStep, FreeStep, MainStep

\* When the ticker has seen that the list is stopped nobody makes a call,
\* and the command waits for the ticker or has gone on.
LEMMA WorkIsOver ==
    ASSUME TypeOK, Control, done = "seen"
    PROVE  /\ pc[Main] \in {"open", "stopping", "close", "closed", "off"}
           /\ \A a \in Actor : a # Ticker => pc[a] \notin {"call", "want", "draw", "mark"}
           /\ pc[Ticker] # "off" => pc[Main] = "stopping"
  BY Actors DEF TypeOK, Control, Calling

\* The last drawing brings one row after the other up to date.
LEMMA DrawnRowLast ==
    ASSUME DisplayInv, DrawRow(Ticker), Matches(Depth)
    PROVE  Matches(Depth)'
  <1> DEFINE b == Block(split)
             d == Depth
             k == Above + d + 1
  <1>0. Ticker \in Actor
    BY Actors
  <1>1. /\ Above' = Above /\ Depth' = d + 1 /\ Block(split)' = b
        /\ writer = Ticker /\ d + 1 \in 1 .. Len(b)
        /\ screen' = Put(screen, k, b[d + 1])
    BY <1>0, DrawRowAbove
  <1>2. /\ Above \in Nat /\ d \in Nat /\ screen \in Seq(Row) /\ Len(screen) \in Nat
        /\ b \in Seq(StageRow(stage))
    BY <1>0, <1>1, Numbers, Actors
  <1>3. b[d + 1] \in Row
    BY <1>1, <1>2, StageRows
  <1>4. k \in Nat \ {0}
    BY <1>2
  <1>5. \A i \in 1 .. d : Above + i <= Len(screen) /\ screen[Above + i] = b[i]
    BY DEF Matches
  <1>6. \A i \in 1 .. d : Above + i # k /\ Above + i \in Nat \ {0} /\ i # d + 1
    BY <1>2
  <1> DEFINE row == b[d + 1]
             len == Larger(Len(screen), k)
  <1> HIDE DEF b, d, k, row
  <1>7. /\ Put(screen, k, row) \in Seq(Row) /\ Len(Put(screen, k, row)) = len
        /\ Put(screen, k, row)[k] = row
        /\ \A n \in 1 .. len : n # k =>
             Put(screen, k, row)[n] = IF n <= Len(screen) THEN screen[n] ELSE Empty
    <2>1. row \in Row
      BY <1>3 DEF row
    <2> QED BY <1>2, <1>4, <2>1, PutRow, Zenon
  <1>8. Len(screen') = len /\ screen'[k] = row
        /\ \A n \in 1 .. len : n # k => screen'[n] = IF n <= Len(screen) THEN screen[n] ELSE Empty
    BY <1>1, <1>7 DEF row
  <1>9. len \in Nat /\ k <= len /\ Len(screen) <= len
    BY <1>2, <1>4 DEF Larger
  <1> HIDE DEF len
  <1>10. ASSUME NEW i \in 1 .. d
         PROVE  Above + i <= Len(screen') /\ screen'[Above + i] = b[i]
    <2> DEFINE n == Above + i
    <2>1. n <= Len(screen) /\ screen[n] = b[i] /\ n # k /\ n \in Nat \ {0}
      BY <1>5, <1>6
    <2> HIDE DEF n
    <2>2. n \in 1 .. len /\ n <= len
      BY <1>2, <1>9, <2>1
    <2>3. screen'[n] = screen[n]
      BY <1>8, <2>1, <2>2, Zenon
    <2> QED BY <1>8, <2>1, <2>2, <2>3 DEF n
  <1>11. Above + (d + 1) = k
    BY <1>2 DEF k
  <1>12. \A i \in 1 .. d + 1 : i \in 1 .. d \/ i = d + 1
    BY <1>2
  <1>13. \A i \in 1 .. d + 1 : Above + i <= Len(screen') /\ screen'[Above + i] = b[i]
    <2>1. Above + (d + 1) <= Len(screen') /\ screen'[Above + (d + 1)] = b[d + 1]
      BY <1>8, <1>9, <1>11 DEF row
    <2> QED BY <1>10, <1>12, <2>1, Zenon
  <1> QED BY <1>1, <1>13, Zenon DEF Matches

\* Every step keeps LastDrawing: once the ticker has seen the end, nothing is
\* marked any more, and it draws what it has rendered since.
LEMMA LastStep == ASSUME DisplayInv, [Next]_vars
                  PROVE  LastDrawing'
  <1>0. TypeOK /\ Control /\ LastDrawing
    BY DEF DisplayInv
  <1> USE DEF TypeOK, Goto, terminal, tasks
  <1>1. ASSUME NEW a \in Actor, BeginDraw(a)
        PROVE  LastDrawing'
    <2>1. Depth' = 0 /\ UNCHANGED <<split, stage, marked, done>>
      BY <1>1, BeginDrawAbove DEF BeginDraw
    <2>2. done = "seen" => a = Ticker
      BY <1>0, <1>1, WorkIsOver DEF BeginDraw
    <2>3. a = Ticker => pc[Ticker] = "want" /\ pc'[Ticker] = "draw"
      BY <1>0, <1>1, Actors DEF BeginDraw
    <2>4. Matches(Depth)'
      BY <2>1 DEF Matches
    <2> QED BY <1>0, <2>1, <2>2, <2>3, <2>4 DEF LastDrawing
  <1>2. ASSUME NEW a \in Actor, DrawRow(a)
        PROVE  LastDrawing'
    <2>1. done = "seen" => a = Ticker
      BY <1>0, <1>2, WorkIsOver DEF DrawRow
    <2>2. pc[a] = "draw" /\ UNCHANGED <<pc, split, stage, marked, done>>
      BY <1>2 DEF DrawRow
    <2>3. done = "seen" => Matches(Depth)'
      BY <1>0, <1>2, <2>1, <2>2, DrawnRowLast DEF LastDrawing
    <2> QED BY <1>0, <2>1, <2>2, <2>3 DEF LastDrawing
  <1>3. ASSUME NEW a \in Actor, EndDraw(a)
        PROVE  LastDrawing'
    <2>1. done = "seen" => a = Ticker
      BY <1>0, <1>3, WorkIsOver DEF EndDraw
    <2>2. /\ Above' = Above /\ Block(split)' = Block(split) /\ Depth = Len(Block(split))
          /\ split'.height = Len(Block(split)) /\ split'.mode = "drawn"
          /\ split'.tasks = split.tasks /\ UNCHANGED <<screen, stage, marked, done>>
      BY <1>3, EndDrawAbove DEF EndDraw
    <2>3. a = Ticker /\ done = "seen" => pc[Ticker] = "draw" /\ pc'[Ticker] = "off"
      BY <1>0, <1>3, Actors DEF EndDraw
    <2>4. done = "seen" => split.tasks = Rows(marked, stage) /\ Matches(Depth)
      BY <1>0, <2>1, <2>3 DEF LastDrawing
    <2>5. done = "seen" => Matches(split.height)'
      BY <2>2, <2>4 DEF Matches
    <2>6. split'.height = Len(Block(split)')
      BY <2>2
    <2> QED BY <2>1, <2>2, <2>3, <2>4, <2>5, <2>6, Zenon DEF LastDrawing
  <1>4. ASSUME NEW a \in Actor, a # Ticker, AppendAPI(a)
        PROVE  LastDrawing'
    <2>1. done' # "seen"
      BY <1>0, <1>4, WorkIsOver DEF AppendAPI
    <2> QED BY <2>1 DEF LastDrawing
  <1>5. ASSUME NEW a \in Actor, a # Ticker, MarkDone(a)
        PROVE  LastDrawing'
    <2>1. done' # "seen"
      BY <1>0, <1>5, WorkIsOver DEF MarkDone
    <2> QED BY <2>1 DEF LastDrawing
  <1>6. ASSUME NEW a \in Actor, a # Ticker, CallFails(a)
        PROVE  LastDrawing'
    <2>1. done' # "seen"
      BY <1>0, <1>6, WorkIsOver DEF CallFails
    <2> QED BY <2>1 DEF LastDrawing
  <1>7. CASE Cached
    <2>1. done' # "seen"
      BY <1>0, <1>7, WorkIsOver DEF Cached, Control, Calling
    <2> QED BY <2>1 DEF LastDrawing
  <1>8. CASE Tick
    <2>1. /\ pc'[Ticker] = "set" /\ frame' = Rows(marked, stage)
          /\ UNCHANGED <<marked, done, stage>>
      BY <1>0, <1>8, Actors DEF Tick
    <2> QED BY <1>0, <2>1 DEF LastDrawing
  <1>9. CASE LastTick
    <2>1. /\ pc'[Ticker] = "set" /\ frame' = Rows(marked, stage)
          /\ UNCHANGED <<marked, stage>>
      BY <1>0, <1>9, Actors DEF LastTick
    <2> QED BY <1>0, <2>1 DEF LastDrawing
  <1>10. CASE SetTaskLines
    <2>1. /\ pc[Ticker] = "set" /\ pc'[Ticker] = "want" /\ split'.tasks = frame
          /\ UNCHANGED <<marked, done, stage>>
      BY <1>0, <1>10, Actors DEF SetTaskLines
    <2> QED BY <1>0, <2>1 DEF LastDrawing
  <1>11. CASE Open
    <2>1. done' # "seen"
      BY <1>11 DEF Open
    <2> QED BY <2>1 DEF LastDrawing
  <1>12. CASE WorkersBegin
    <2>1. done' # "seen"
      BY <1>0, <1>12, WorkIsOver DEF WorkersBegin
    <2> QED BY <2>1 DEF LastDrawing
  <1>13. CASE WriteLine
    <2>1. done' # "seen"
      BY <1>0, <1>13 DEF WriteLine, Control, Calling
    <2> QED BY <2>1 DEF LastDrawing
  <1>14. CASE WriteNewline
    <2>1. done' # "seen"
      BY <1>14, NewlineAbove
    <2> QED BY <2>1 DEF LastDrawing
  <1>15. CASE StopTasks
    <2>1. done' # "seen"
      BY <1>15 DEF StopTasks
    <2> QED BY <2>1 DEF LastDrawing
  <1>16. CASE TasksStopped
    <2>1. /\ Above' = Above /\ Block(split)' = Block(split)
          /\ pc[Main] = "stopping" /\ pc[Ticker] = "off" /\ pc'[Ticker] = "off"
          /\ UNCHANGED <<split, screen, stage, marked, done>>
      BY <1>0, <1>16, Undrawn, Actors DEF TasksStopped
    <2>2. Matches(split.height) => Matches(split.height)'
      BY <2>1, Zenon DEF Matches
    <2> QED BY <1>0, <2>1, <2>2 DEF LastDrawing
  <1>17. CASE Close
    <2>1. split'.tasks = Rows(marked, stage) /\ UNCHANGED <<stage, marked>>
      BY <1>17, CloseAbove
    <2>2. pc'[Main] = "closed" /\ pc'[Ticker] = "off"
      BY <1>0, <1>17, Actors DEF Close, Control
    <2> QED BY <2>1, <2>2 DEF LastDrawing
  <1>18. CASE PrintLine
    <2>1. pc[Main] = "closed" /\ UNCHANGED <<split, stage, pc, marked, done>>
      BY <1>18, PrintLineAbove
    <2>2. pc[Ticker] = "off"
      BY <1>0, <2>1 DEF Control
    <2> QED BY <1>0, <2>1, <2>2 DEF LastDrawing
  <1>19. CASE NextStage
    <2>1. pc'[Main] \in {"open", "off"}
      BY <1>19, NextStageAbove
    <2>2. pc'[Ticker] = "off"
      BY <1>0, <1>19, Actors DEF NextStage, Control
    <2> QED BY <2>1, <2>2 DEF LastDrawing
  <1>20. CASE UNCHANGED vars
    <2>1. /\ Above' = Above /\ Depth' = Depth /\ Block(split)' = Block(split)
          /\ UNCHANGED <<split, screen, stage, marked, done, pc, frame>>
      BY <1>20, Undrawn DEF vars
    <2>2. /\ Matches(split.height) => Matches(split.height)'
          /\ Matches(Depth) => Matches(Depth)'
      BY <2>1, Zenon DEF Matches
    <2> QED BY <1>0, <2>1, <2>2 DEF LastDrawing
  <1> QED BY <1>1, <1>2, <1>3, <1>4, <1>5, <1>6, <1>7, <1>8, <1>9, <1>10, <1>11,
             <1>12, <1>13, <1>14, <1>15, <1>16, <1>17, <1>18, <1>19, <1>20,
             Zenon
         DEF Next, LockStep, FreeStep, MainStep

\* LastFrameIsLatest in terms of the block that is shown ...
LEMMA LastFrame ==
    ASSUME TypeOK, pc[Main] = "closed" => split.tasks = Rows(marked, stage)
    PROVE  LastFrameIsLatest
             <=> (pc[Main] = "closed" => FrameShown(Block(split), screen, stage))
  <1>1. pc[Main] = "closed" => [split EXCEPT !.tasks = Rows(marked, stage)] = split
    BY DEF TypeOK
  <1> QED BY <1>1, Zenon DEF LastFrameIsLatest, FrameShown

\* ... and after a step.
LEMMA NextLastFrame ==
    ASSUME TypeOK', pc'[Main] = "closed" => split'.tasks = Rows(marked', stage')
    PROVE  LastFrameIsLatest'
             <=> (pc'[Main] = "closed" => FrameShown(Block(split)', screen', stage'))
  <1>1. pc'[Main] = "closed" => [split' EXCEPT !.tasks = Rows(marked', stage')] = split'
    BY DEF TypeOK
  <1> QED BY <1>1, Zenon DEF LastFrameIsLatest, FrameShown, Block, Gap

\* Only closing it makes a display closed; after that only lines are printed.
LEMMA ClosedBy == ASSUME DisplayInv, [Next]_vars
                  PROVE  pc'[Main] = "closed" => Close \/ PrintLine \/ UNCHANGED vars
  <1>0. TypeOK /\ Control
    BY DEF DisplayInv
  <1> USE DEF TypeOK, Goto
  <1>1. ASSUME NEW a \in Actor, BeginDraw(a)
        PROVE  pc'[Main] = "closed" => Close \/ PrintLine \/ UNCHANGED vars
    BY <1>0, <1>1, Actors DEF BeginDraw, Control
  <1>2. ASSUME NEW a \in Actor, DrawRow(a)
        PROVE  pc'[Main] = "closed" => Close \/ PrintLine \/ UNCHANGED vars
    BY <1>0, <1>2, Actors DEF DrawRow, Control
  <1>3. ASSUME NEW a \in Actor, EndDraw(a)
        PROVE  pc'[Main] = "closed" => Close \/ PrintLine \/ UNCHANGED vars
    BY <1>0, <1>3, Actors DEF EndDraw, Control
  <1>4. ASSUME NEW a \in Actor, a # Ticker, AppendAPI(a)
        PROVE  pc'[Main] = "closed" => Close \/ PrintLine \/ UNCHANGED vars
    BY <1>0, <1>4, Actors DEF AppendAPI, Control
  <1>5. ASSUME NEW a \in Actor, a # Ticker, MarkDone(a)
        PROVE  pc'[Main] = "closed" => Close \/ PrintLine \/ UNCHANGED vars
    <2>1. After(a) # "closed" /\ pc'[a] = After(a)
      BY <1>0, <1>5 DEF After, MarkDone
    <2> QED BY <1>0, <1>5, <2>1, Actors DEF MarkDone, Control
  <1>6. ASSUME NEW a \in Actor, a # Ticker, CallFails(a)
        PROVE  pc'[Main] = "closed" => Close \/ PrintLine \/ UNCHANGED vars
    BY <1>0, <1>6, Actors DEF CallFails, Control
  <1>7. CASE Cached
    BY <1>0, <1>7, Actors DEF Cached, Control
  <1>8. CASE Tick
    BY <1>0, <1>8, Actors DEF Tick, Control
  <1>9. CASE LastTick
    BY <1>0, <1>9, Actors DEF LastTick, Control
  <1>10. CASE SetTaskLines
    BY <1>0, <1>10, Actors DEF SetTaskLines, Control
  <1>11. CASE Open
    BY <1>0, <1>11, Actors DEF Open, Control
  <1>12. CASE WorkersBegin
    BY <1>0, <1>12, Actors DEF WorkersBegin, Control
  <1>13. CASE WriteLine
    BY <1>0, <1>13, Actors DEF WriteLine, Control
  <1>14. CASE WriteNewline
    BY <1>0, <1>14, Actors DEF WriteNewline, Control
  <1>15. CASE StopTasks
    BY <1>0, <1>15, Actors DEF StopTasks, Control
  <1>16. CASE TasksStopped
    BY <1>0, <1>16, Actors DEF TasksStopped, Control
  <1>17. CASE Close
    BY <1>17
  <1>18. CASE PrintLine
    BY <1>18
  <1>19. CASE NextStage
    BY <1>0, <1>19, Actors DEF NextStage, Control
  <1>20. CASE UNCHANGED vars
    BY <1>20
  <1> QED BY <1>1, <1>2, <1>3, <1>4, <1>5, <1>6, <1>7, <1>8, <1>9, <1>10, <1>11,
             <1>12, <1>13, <1>14, <1>15, <1>16, <1>17, <1>18, <1>19, <1>20,
             Zenon
         DEF Next, LockStep, FreeStep, MainStep

\* Every step keeps LastFrameIsLatest.
LEMMA FrameStep ==
    ASSUME DisplayInv, [Next]_vars, TypeOK', Control', LastDrawing'
    PROVE  LastFrameIsLatest'
  <1>0. TypeOK /\ Control /\ LastDrawing /\ LastFrameIsLatest /\ Geometry
    BY DEF DisplayInv
  <1>1. /\ pc[Main] = "closed" => split.tasks = Rows(marked, stage)
        /\ pc'[Main] = "closed" => split'.tasks = Rows(marked', stage')
    BY <1>0 DEF Control, LastDrawing
  <1> SUFFICES ASSUME pc'[Main] = "closed"
               PROVE  FrameShown(Block(split)', screen', stage')
    BY <1>0, <1>1, NextLastFrame
  <1>2. CASE Close
    <2> DEFINE b == Block(split)
               n == Len(Block(split))
    <2>1. /\ Len(screen) = Above + n /\ Matches(n)
          /\ Block(split)' = b /\ UNCHANGED <<screen, stage>>
      BY <1>2, CloseAbove
    <2>2. Shown /\ BlockOfStage
      BY <1>2 DEF DisplayInv, Close, Goto, Shown
    <2>3. b \in Seq(StageRow(stage)) /\ n \in Nat /\ Above \in Nat /\ DOMAIN b = 1 .. n
          /\ DOMAIN screen = 1 .. Len(screen)
      BY <1>0, <2>2, BlockRows, Numbers
    <2>4. \A i \in DOMAIN b : screen[Above + i] = b[i]
      BY <2>1, <2>3 DEF Matches
    <2> HIDE DEF n
    <2>5. Above \in 0 .. Len(screen) - n /\ \A i \in DOMAIN screen : ~(i > Above + n)
      BY <2>1, <2>3
    <2> QED BY <2>1, <2>4, <2>5, Zenon DEF FrameShown, n
  <1>3. CASE PrintLine
    <2> DEFINE b == Block(split)
    <2>1. /\ pc[Main] = "closed" /\ Block(split)' = b /\ UNCHANGED <<split, stage>>
      BY <1>3, PrintLineAbove, BlockNext
    <2>2. /\ DOMAIN screen' = 1 .. Above + 1 /\ DOMAIN screen = 1 .. Above
          /\ screen'[Above + 1] = Line(printed + 1) /\ Len(screen) = Above
          /\ \A i \in 1 .. Above : screen'[i] = screen[i]
      BY <1>3, PrintedLine, PrintLineAbove
    <2>3. FrameShown(b, screen, stage)
      BY <1>0, <1>1, <2>1, LastFrame
    <2>4. /\ Above \in Nat /\ screen' \in Seq(Row) /\ stage # "over"
      BY <1>0, <2>1, Numbers DEF Control, TypeOK
    <2>5. Len(screen') = Above + 1
      <3>1. Len(screen') \in Nat /\ DOMAIN screen' = 1 .. Len(screen')
        BY <2>4, LenProperties
      <3> QED BY <2>2, <2>4, <3>1
    <2>6. Shown /\ BlockOfStage
      BY <2>1 DEF DisplayInv, Shown
    <2>7. Len(b) \in Nat /\ DOMAIN b = 1 .. Len(b)
      BY <1>0, <2>6, BlockRows
    <2>8. PICK k \in 0 .. Above - Len(b) :
            /\ \A i \in DOMAIN b : screen[k + i] = b[i]
            /\ \A i \in 1 .. Above : i > k + Len(b) => screen[i].at # stage
      BY <2>2, <2>3, Zenon DEF FrameShown
    <2>9. Line(printed + 1).at = "over"
      BY DEF Line
    <2> DEFINE n == Len(b)
    <2>10. n \in Nat
      BY <2>7
    <2>11. \A i \in DOMAIN b : k + i \in 1 .. Above
      BY <2>4, <2>7, <2>8, <2>10
    <2>12. \A i \in DOMAIN b : screen'[k + i] = b[i]
      BY <2>2, <2>8, <2>11, Zenon
    <2> HIDE DEF b, n
    <2>13. k \in 0 .. Len(screen') - n
      BY <2>4, <2>5, <2>8, <2>10 DEF n
    <2>14. ASSUME NEW i \in DOMAIN screen', i > k + n
           PROVE  screen'[i].at # stage
      <3>1. CASE i \in 1 .. Above
        BY <2>2, <2>8, <2>14, <3>1 DEF n
      <3>2. CASE i = Above + 1
        BY <2>2, <2>4, <2>9, <3>2
      <3> QED BY <2>2, <2>4, <3>1, <3>2
    <2> QED BY <2>1, <2>12, <2>13, <2>14, Zenon DEF FrameShown, b, n
  <1>4. CASE UNCHANGED vars
    <2>1. Block(split)' = Block(split) /\ UNCHANGED <<screen, stage, pc>>
      BY <1>4, BlockNext DEF vars
    <2> QED BY <1>0, <1>1, <2>1, LastFrame
  <1> QED BY <1>2, <1>3, <1>4, ClosedBy

\* The invariant holds before anything is shown.
LEMMA Initially == Init => DisplayInv
  <1> SUFFICES ASSUME Init PROVE DisplayInv
    OBVIOUS
  <1>1. /\ stage \in {"estimate", "start"} /\ pc = [a \in Actor |-> IF a = Main THEN "open" ELSE "off"]
        /\ task = 0 /\ marked = {} /\ frame = <<>> /\ done = "open" /\ newlines = 0
        /\ writer = Free /\ todo = [a \in Actor |-> <<>>]
        /\ screen = <<>> /\ cursor = 1 /\ printed = 0
    BY DEF Init
  <1>2. split = [calls |-> <<>>, tasks |-> <<>>, height |-> 0, mode |-> "off"]
    BY DEF Init, NoSplit
  <1>3. /\ split.calls = <<>> /\ split.tasks = <<>> /\ split.height = 0 /\ split.mode = "off"
    BY <1>2
  <1>4. /\ <<>> \in Seq(Row) /\ Len(<<>>) = 0 /\ DOMAIN <<>> = {}
    BY EmptySeq
  <1>5. TypeOK
    <2>1. split \in [calls : Seq(Row), tasks : Seq(Row), height : Nat,
                     mode : {"off", "live", "drawn"}]
      BY <1>2, <1>4
    <2>2. printed \in 0 .. MaxLines
      BY <1>1, LiveDisplayAssumption
    <2>3. pc \in [Actor -> {"off", "open", "call", "want", "draw", "mark", "begin",
                            "lines", "stop", "stopping", "close", "closed",
                            "wait", "set"}]
      BY <1>1
    <2> QED BY <1>1, <1>4, <2>1, <2>2, <2>3 DEF TypeOK, Stages
  <1>6. Control
    BY <1>1, <1>3, Actors DEF Control, Calling
  <1>7. OneDrawer
    BY <1>1, Actors DEF OneDrawer
  <1>8. pc[Ticker] = "off" /\ pc[Main] = "open"
    BY <1>1, Actors
  <1>9. BlockOfStage
    BY <1>1, <1>3, <1>8 DEF BlockOfStage, Shown
  <1>10. Above = 0 /\ Depth = 0
    BY <1>1, <1>3 DEF Above, Depth
  <1>11. Geometry
    BY <1>1, <1>3, <1>4, <1>10 DEF Geometry, Larger
  <1>12. LinesStay
    <2>1. LineRows(screen) = {} /\ {screen[i] : i \in LineRows(screen)} = {}
      BY <1>1, <1>4 DEF LineRows
    <2>2. {Line(m) : m \in 1 .. printed} = {}
      BY <1>1
    <2>3. LinesIn(screen, printed)
      BY <1>1, <1>4, <2>1, <2>2 DEF LinesIn
    <2> QED BY <2>3, LinesInIsLinesStay
  <1>13. LinesAbove /\ RowsBelow
    BY <1>1, <1>4, <1>3 DEF LinesAbove, RowsBelow
  <1>14. LastDrawing /\ LastFrameIsLatest
    BY <1>1, <1>8 DEF LastDrawing, LastFrameIsLatest
  <1> QED BY <1>5, <1>6, <1>7, <1>9, <1>11, <1>12, <1>13, <1>14 DEF DisplayInv

\* When nobody draws, the block ends where the terminal does.
LEMMA NoRowBehind == ASSUME DisplayInv
                     PROVE  NoRowLeftBehind
  <1> SUFFICES ASSUME writer = Free, split.mode = "drawn", newlines = 0
               PROVE  /\ cursor = Len(screen)
                      /\ \A i \in DOMAIN screen :
                           screen[i].at = stage <=> i > cursor - split.height
    BY DEF NoRowLeftBehind
  <1>1. Geometry /\ RowsBelow
    BY DEF DisplayInv
  <1>2. Above = cursor - split.height /\ Depth = 0
    BY DEF Above, Depth
  <1>3. Above \in Nat /\ split.height \in Nat /\ cursor \in Nat /\ Larger(split.height, 0) = split.height
    BY Numbers DEF Larger
  <1>4. Len(screen) = Above + split.height
    BY <1>1, <1>2, <1>3 DEF Geometry
  <1>5. cursor = Len(screen)
    BY <1>2, <1>3, <1>4
  <1>6. \A i \in DOMAIN screen : screen[i].at = stage <=> i > Above
    BY <1>1 DEF RowsBelow
  <1> QED BY <1>2, <1>5, <1>6, Zenon

(***************************************************************************)
(* The theorems                                                            *)
(***************************************************************************)

\* Whatever the goroutines, the ticker and the command do, and in whichever
\* order they get the mutexes, the display stays consistent.
THEOREM DisplayConsistent == Spec => []DisplayInv
  <1>1. Init => DisplayInv
    BY Initially
  <1>2. DisplayInv /\ [Next]_vars => DisplayInv'
    <2> SUFFICES ASSUME DisplayInv, [Next]_vars
                 PROVE  DisplayInv'
      OBVIOUS
    <2>1. TypeOK' /\ Control' /\ OneDrawer' /\ BlockOfStage'
      BY TypeStep, ControlStep, DrawerStep, BlockStep
    <2>2. Geometry' /\ LinesStay' /\ LinesAbove' /\ RowsBelow' /\ LastDrawing'
      BY GeometryStep, LinesStep, RowsStep, LastStep
    <2>3. LastFrameIsLatest'
      BY <2>1, <2>2, FrameStep
    <2> QED BY <2>1, <2>2, <2>3 DEF DisplayInv
  <1> QED BY <1>1, <1>2, PTL DEF Spec

\* The variables of the display keep their types: the cursor stays on the
\* terminal, and what is drawn is made of rows.
THEOREM DisplayTypeCorrect == Spec => []TypeOK
  <1>1. DisplayInv => TypeOK
    BY DEF DisplayInv
  <1> QED BY <1>1, DisplayConsistent, PTL

\* No drawing writes over a printed line, for any number of workers and
\* however far the block has grown since it was last drawn.
THEOREM LinesAlwaysStay == Spec => []LinesStay
  <1>1. DisplayInv => LinesStay
    BY DEF DisplayInv
  <1> QED BY <1>1, DisplayConsistent, PTL

\* Between two drawings the block is on the terminal once, whole and last.
THEOREM NoRowEverLeftBehind == Spec => []NoRowLeftBehind
  <1>1. DisplayInv => NoRowLeftBehind
    BY NoRowBehind
  <1> QED BY <1>1, DisplayConsistent, PTL

\* The frame that stays when the display is taken down is the latest one:
\* the drawing of the last tick comes after every mark.
THEOREM LastFrameAlwaysLatest == Spec => []LastFrameIsLatest
  <1>1. DisplayInv => LastFrameIsLatest
    BY DEF DisplayInv
  <1> QED BY <1>1, DisplayConsistent, PTL
===============================================================================
