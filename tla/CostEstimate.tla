----------------------------- MODULE CostEstimate -----------------------------
(***************************************************************************)
(* "gpunow create --estimate-cost" (internal/pricing): the price of each   *)
(* part of an instance is looked up in pricing-cache.json or, when one is  *)
(* missing or --refresh is given, resolved from Google's catalogue of      *)
(* SKUs, and the cache is saved.  Several commands run at the same time    *)
(* while the catalogue changes.                                            *)
(*                                                                         *)
(* Region, machine, GPU and disk type are one value each: they are part of *)
(* every key and of every match.  A SKU that does not match a part's       *)
(* tokens, region or resource group is no offer for it.  Quantities and    *)
(* currencies (the command always asks for USD) are left out.              *)
(*                                                                         *)
(* All commands save through one temporary file, pricing-cache.json.tmp:   *)
(* one may truncate or rename it under the hands of another.               *)
(***************************************************************************)
EXTENDS Naturals, FiniteSets

CONSTANTS
    Command,       \* commands running at the same time
    Sku,           \* the SKUs that match the tokens of some part
    Listings,      \* the orders in which the catalogue lists them
    FirstPrices,   \* bound: their prices at first, 0 for none
    MaxPrice,      \* bound: prices
    OddPrice,      \* those given in a unit that cannot be made hourly
    MaxChanges     \* bound: changes of the catalogue

Part == {"core", "disk"}

\* Category.UsageType; a SKU may have none.
UsageType == {"Spot", "Preemptible", "OnDemand", "none"}

\* The catalogue lists every SKU, and none of them twice.  A description
\* that names the region ("running in us-east1") is worth 2 points.
ASSUME CostEstimateAssumption ==
    /\ MaxPrice \in Nat \ {0} /\ MaxChanges \in Nat /\ OddPrice \subseteq 1 .. MaxPrice
    /\ IsFiniteSet(Sku)
    /\ Sku \subseteq [id : Nat, part : Part, usage : UsageType, regionBonus : {0, 2}]
    /\ \A s, t \in Sku : s.id = t.id => s = t
    /\ FirstPrices \subseteq [Sku -> 0 .. MaxPrice]
    /\ \A l \in Listings :
         /\ l \in [1 .. Cardinality(Sku) -> Sku]
         /\ \A s \in Sku : \E i \in DOMAIN l : l[i] = s
         /\ \A i, j \in DOMAIN l : l[i] = l[j] => i = j

VARIABLES
    catalogue,     \* Cloud Billing: the price of each SKU, 0 for none
    changes,       \* bound: changes so far
    cache, tmp,    \* pricing-cache.json, pricing-cache.json.tmp
    fd,            \* what the file that a command has open for writing is
    at, request,   \* each command, and what it has been asked
    data, quote,   \* the cache as it has it, and its estimate
    offered,       \* history: prices that were right at some time ...
    since          \* history: ... since the command began, with --refresh

estimateVars ==
    <<catalogue, changes, cache, tmp, fd, at, request, data, quote, offered, since>>

Price == 1 .. MaxPrice
None  == 0

\* usageFromProvisioningModel
Usage == {"spot", "ondemand"}

\* buildSelectors: the key of a part, and the usage it is matched against.
SelectorUsage(part, usage) == IF part = "disk" THEN "any" ELSE usage

Key(part, usage) == <<part, SelectorUsage(part, usage)>>
Keys == {Key(p, u) : p \in Part, u \in Usage}

Cache   == [Keys -> {None} \cup Price]

\* What is in a file that is empty, and in one that is torn: neither parses.
EmptyFile == [k \in Keys |-> MaxPrice + 1]
TornFile  == [k \in Keys |-> MaxPrice + 2]
File  == Cache \cup {EmptyFile, TornFile}

Request == [usage : Usage, refresh : BOOLEAN]

EstimateTypeOK ==
    /\ catalogue \in [Sku -> {None} \cup Price]
    /\ changes \in 0 .. MaxChanges
    /\ cache \in File /\ tmp \in File
    /\ fd \in [Command -> {"none", "tmp", "cache", "gone"}]
    /\ at \in [Command -> {"idle", "load", "look", "save", "write", "rename",
                           "price", "done"}]
    /\ request \in [Command -> Request]
    /\ data \in [Command -> Cache]
    /\ quote \in [Command -> [Part -> {None} \cup (Price \ OddPrice)]]
    /\ offered \in [Keys -> SUBSET Price]
    /\ since \in [Command -> [Keys -> SUBSET Price]]

-----------------------------------------------------------------------------
(***************************************************************************)
(* resolveSelector                                                         *)
(***************************************************************************)

UsageMatchScore(actual, expected) ==
    CASE expected = "spot" /\ actual = "Spot"         -> 3
      [] expected = "spot" /\ actual = "Preemptible"  -> 2
      [] expected = "ondemand" /\ actual = "OnDemand" -> 3
      [] expected = "any" /\ actual = "none"          -> 1
      [] expected = "any" /\ actual # "none"          -> 2
      [] OTHER                                        -> 0

Suits(s, prices, key) ==
    s.part = key[1] /\ UsageMatchScore(s.usage, key[2]) > 0 /\ prices[s] # None

\* The point for the resource group is the same for all candidates: one of
\* another group is none.
Score(s, key) == s.regionBonus + UsageMatchScore(s.usage, key[2])

\* The candidates, by their places in the listing.
Candidates(listing, prices, key) ==
    {n \in DOMAIN listing : Suits(listing[n], prices, key)}

\* The order of the candidates: by score, and then by SKU.
Before(s, t, key) ==
    \/ Score(s, key) > Score(t, key)
    \/ Score(s, key) = Score(t, key) /\ s.id < t.id

\* What sorting may make of them: all of them, none after one it precedes.
Sorted(listing, places, key) ==
    {q \in [1 .. Cardinality(places) -> places] :
        /\ \A n \in places : \E i \in DOMAIN q : q[i] = n
        /\ \A i, j \in DOMAIN q : i < j =>
             q[i] # q[j] /\ ~Before(listing[q[j]], listing[q[i]], key)}

\* Mutant: the first SKU that matches is taken.
ResolveFirst(listing, prices, key) ==
    {prices[listing[n]] : n \in {m \in Candidates(listing, prices, key) :
        \A k \in Candidates(listing, prices, key) : m <= k}}

\* The best candidate's price.  It is an error, and there is no outcome, if
\* there is no candidate, or if the second one shares the best score.
Resolve(listing, prices, key) ==
    LET places == Candidates(listing, prices, key)
        ambiguous(q) ==
            /\ Cardinality(places) > 1
            /\ Score(listing[q[2]], key) = Score(listing[q[1]], key)
            /\ listing[q[2]].id # listing[q[1]].id
    IN  {prices[listing[q[1]]] : q \in {r \in Sorted(listing, places, key) :
                                          places # {} /\ ~ambiguous(r)}}

\* What it is for: the price of the one SKU that scores more than any other.
Best(s, prices, key) ==
    /\ Suits(s, prices, key)
    /\ \A t \in Sku \ {s} : Suits(t, prices, key) => Score(t, key) < Score(s, key)

RightPrice(prices, key) == {prices[s] : s \in {t \in Sku : Best(t, prices, key)}}

-----------------------------------------------------------------------------
NoRequest == [usage |-> "spot", refresh |-> FALSE]
NoQuote == [p \in Part |-> None]
NoData  == [k \in Keys |-> None]      \* also: no such file

EstimateInit ==
    /\ catalogue \in FirstPrices
    /\ changes = 0
    /\ cache = NoData /\ tmp = NoData
    /\ fd = [c \in Command |-> "none"]
    /\ at = [c \in Command |-> "idle"]
    /\ request = [c \in Command |-> NoRequest]
    /\ data = [c \in Command |-> NoData]
    /\ quote = [c \in Command |-> NoQuote]
    /\ offered = [k \in Keys |-> RightPrice(catalogue, k)]
    /\ since = [c \in Command |-> [k \in Keys |-> {}]]

world == <<catalogue, changes, offered>>
files == <<cache, tmp, fd>>

Moves(c, from, to) ==
    /\ at[c] = from
    /\ at' = [at EXCEPT ![c] = to]

BeginEstimate(c) ==
    /\ Moves(c, "idle", "load")
    /\ \E r \in Request : request' = [request EXCEPT ![c] = r]
    /\ since' = [since EXCEPT ![c] = [k \in Keys |->
                    IF request'[c].refresh THEN RightPrice(catalogue, k) ELSE {}]]
    /\ UNCHANGED <<world, files, data, quote>>

\* CacheStore.Load: a file that does not parse ends the command.
LoadCache(c) ==
    /\ Moves(c, "load", "look")
    /\ cache \notin {EmptyFile, TornFile}
    /\ data' = [data EXCEPT ![c] = cache]
    /\ UNCHANGED <<world, files, request, quote, since>>

KeyOf(c, p) == Key(p, request[c].usage)

\* Mutant: --refresh only fills in what is missing.
ToResolveMissing(c) == {KeyOf(c, p) : p \in {q \in Part : data[c][KeyOf(c, q)] = None}}

\* validCacheEntry; --refresh looks everything up.
ToResolve(c) ==
    {KeyOf(c, p) : p \in {q \in Part : request[c].refresh \/ data[c][KeyOf(c, q)] = None}}

AllCached(c) ==
    /\ ToResolve(c) = {}
    /\ Moves(c, "look", "price")
    /\ UNCHANGED <<world, files, request, data, quote, since>>

\* The catalogue is listed in some order; one part that cannot be resolved
\* fails the estimate.
Fetch(c) ==
    /\ ToResolve(c) # {}
    /\ Moves(c, "look", "save")
    /\ \E listing \in Listings, resolved \in [ToResolve(c) -> Price] :
          /\ \A k \in ToResolve(c) : resolved[k] \in Resolve(listing, catalogue, k)
          /\ data' = [data EXCEPT ![c] =
                        [k \in Keys |-> IF k \in ToResolve(c) THEN resolved[k] ELSE @[k]]]
    /\ UNCHANGED <<world, files, request, quote, since>>

(***************************************************************************)
(* CacheStore.Save                                                         *)
(***************************************************************************)

\* os.WriteFile creates the temporary file, or truncates it.
SaveOpens(c) ==
    /\ Moves(c, "save", "write")
    /\ tmp' = EmptyFile
    /\ fd' = [fd EXCEPT ![c] = "tmp"]
    /\ UNCHANGED <<world, cache, request, data, quote, since>>

\* The file the command has open holds this from now on.
Holds(c, content) ==
    /\ tmp' = IF fd[c] = "tmp" THEN content ELSE tmp
    /\ cache' = IF fd[c] = "cache" THEN content ELSE cache

\* Of something longer that another command has written there the end stays.
SaveWrites(c) ==
    /\ Moves(c, "write", "rename")
    /\ \/ Holds(c, data[c])
       \/ /\ \/ fd[c] = "tmp" /\ tmp # EmptyFile
             \/ fd[c] = "cache" /\ cache # EmptyFile
          /\ Holds(c, TornFile)
    /\ fd' = [fd EXCEPT ![c] = "none"]
    /\ UNCHANGED <<world, request, data, quote, since>>

\* What is renamed is what is there: another command may have truncated or
\* written it, or have renamed it before.  A command that still has it open
\* writes to pricing-cache.json itself.
SaveRenames(c) ==
    /\ Moves(c, "rename", "price")
    /\ tmp # NoData
    /\ cache' = tmp /\ tmp' = NoData
    /\ fd' = [d \in Command |-> CASE fd[d] = "tmp"   -> "cache"
                                 [] fd[d] = "cache" -> "gone"
                                 [] OTHER           -> fd[d]]
    /\ UNCHANGED <<world, request, data, quote, since>>

\* hourlyMultiplierForUsageUnit must know the unit of every price.
Compute(c) ==
    /\ Moves(c, "price", "done")
    /\ \A p \in Part : data[c][KeyOf(c, p)] \notin OddPrice
    /\ quote' = [quote EXCEPT ![c] = [p \in Part |-> data[c][KeyOf(c, p)]]]
    /\ UNCHANGED <<world, files, request, data, since>>

\* The command ends: after its estimate, with an error, or killed, maybe in
\* the middle of a write.
EstimateReturns(c) ==
    /\ at[c] # "idle" /\ at' = [at EXCEPT ![c] = "idle"]
    /\ data' = [data EXCEPT ![c] = NoData]
    /\ quote' = [quote EXCEPT ![c] = NoQuote]
    /\ since' = [since EXCEPT ![c] = [k \in Keys |-> {}]]
    /\ request' = [request EXCEPT ![c] = NoRequest]
    /\ UNCHANGED <<cache, tmp>> \/ (at[c] = "write" /\ Holds(c, TornFile))
    /\ fd' = [fd EXCEPT ![c] = "none"]
    /\ UNCHANGED world

\* Google changes a price.
Change ==
    /\ changes < MaxChanges /\ changes' = changes + 1
    /\ \E s \in Sku, p \in {None} \cup Price : catalogue' = [catalogue EXCEPT ![s] = p]
    /\ LET right == [k \in Keys |-> RightPrice(catalogue', k)]
       IN  /\ offered' = [k \in Keys |-> offered[k] \cup right[k]]
           /\ since' = [c \in Command |-> IF ~request[c].refresh THEN since[c]
                            ELSE [k \in Keys |-> since[c][k] \cup right[k]]]
    /\ UNCHANGED <<files, at, request, data, quote>>

-----------------------------------------------------------------------------
EstimateNext ==
    \/ Change
    \/ \E c \in Command :
         \/ BeginEstimate(c) \/ LoadCache(c) \/ AllCached(c) \/ Fetch(c)
         \/ SaveOpens(c) \/ SaveWrites(c) \/ SaveRenames(c)
         \/ Compute(c) \/ EstimateReturns(c)

EstimateSpec == EstimateInit /\ [][EstimateNext]_estimateVars

-----------------------------------------------------------------------------
(***************************************************************************)
(* Properties                                                              *)
(***************************************************************************)

\* An estimate names, for every part, a price that was at some time that of
\* the one SKU which the ranking puts above every other that suits: never
\* one that depends on the order of the listing or is one of several as
\* good, never that of a SKU of a usage that does not suit at all, and never
\* what a half-done or a concurrent save left in the cache.  (The ranking
\* may prefer a Preemptible SKU that names the region to a Spot one.)
QuoteIsGenuine ==
    \A c \in Command : at[c] = "done" =>
        \A p \in Part : quote[c][p] \in offered[KeyOf(c, p)]

\* "Use --refresh with --estimate-cost to force re-download of pricing
\* data" (README): every price of such an estimate was right while the
\* command ran, whatever was cached before or by others.
RefreshIsCurrent ==
    \A c \in Command : at[c] = "done" /\ request[c].refresh =>
        \A p \in Part : quote[c][p] \in since[c][KeyOf(c, p)]
==============================================================================
