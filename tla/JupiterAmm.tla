----------------------------- MODULE JupiterAmm -----------------------------
(***************************************************************************)
(* The Jupiter adapter's cache (taper-jupiter/src/lib.rs): the pool, its   *)
(* config and the bin arrays around the active bin, kept between update    *)
(* and quote while the pool goes on trading.  A router asks which accounts *)
(* the adapter wants (get_accounts_to_update), fetches them, and hands it  *)
(* those that changed (update); then it quotes, and sends a transaction    *)
(* that names the arrays the adapter lists.                                *)
(*                                                                         *)
(* An array's contents are its version; the pool is its active bin's array *)
(* and its bitmap.  The router is not in the repository.                   *)
(***************************************************************************)
EXTENDS Integers, Functions

CONSTANTS
  MinIndex, MaxIndex,  \* the arrays of the bitmap
  SwapReach,           \* REACH: arrays a swap names
  MaxArraysWalked,     \* arrays MAX_BINS_PER_SWAP bins can touch
  ParseMayFail,        \* whether an account may arrive that does not parse
  MaxChanges           \* bound on transactions that change the pool

ASSUME AmmAssumption ==
  /\ MinIndex \in Int /\ MaxIndex \in Int /\ MinIndex <= MaxIndex
  /\ SwapReach \in Nat \ {0} /\ MaxArraysWalked \in Nat
  /\ ParseMayFail \in BOOLEAN /\ MaxChanges \in Nat

Indexes == MinIndex .. MaxIndex
Gap(a, b) == IF a <= b THEN b - a ELSE a - b
Between(i, a, b) == (a <= i /\ i <= b) \/ (b <= i /\ i <= a)

VARIABLES
  home,      \* on chain: the array of the active bin
  occupied,  \* on chain: Pool.bin_array_bitmap
  version,   \* on chain: version[i] of array i's contents
  changes,   \* transactions so far
  pool,      \* TaperAmm.pool: [home, occupied]
  hasConfig, \* TaperAmm.config is Some
  arrays,    \* TaperAmm.arrays: from cached indexes to versions
  sent,      \* the router: the version of each array it last delivered
  updated,   \* how the last update ended: none, ok or failed
  failed     \* history: an update has failed before

onChain == <<home, occupied, version, changes>>
cache == <<pool, hasConfig, arrays>>
ammVars == <<onChain, cache, sent, updated, failed>>

NotSent == -1
NoArrays == [i \in {} |-> 0]

-----------------------------------------------------------------------------
(* arrays_to_fetch: the occupied arrays less than REACH from the active.  *)
ArraysToFetch(p) == {i \in Indexes : Gap(i, p.home) < SwapReach /\ i \in p.occupied}

(* The first n indexes from the active array in a swap's direction, up to  *)
(* the first the given ones miss.                                          *)
Run(from, forY, present, n) ==
  {i \in Indexes :
     /\ IF forY THEN i <= from ELSE i >= from
     /\ Gap(i, from) < n
     /\ \A j \in Indexes : Between(j, i, from) => j \in present}

(* swap_arrays: what the transaction names.                                *)
Named(forY) == Run(pool.home, forY, DOMAIN arrays, SwapReach)

(* walk_ladder over the cached arrays.                                     *)
Walked(forY) == Run(pool.home, forY, DOMAIN arrays, MaxArraysWalked)

ChainPool == [home |-> home, occupied |-> occupied]

-----------------------------------------------------------------------------
(* from_keyed_account: the pool as it was then, and nothing else.          *)
AmmInit ==
  /\ home \in Indexes
  /\ occupied \in SUBSET Indexes
  /\ version = [i \in Indexes |-> 0]
  /\ changes = 0
  /\ pool = ChainPool
  /\ hasConfig = FALSE
  /\ arrays = NoArrays
  /\ sent = [i \in Indexes |-> NotSent]
  /\ updated = "none" /\ failed = FALSE

(* A swap moves the active bin's array to `to` and writes every array on   *)
(* its way.  One that emptied the last bin before a missing array leaves   *)
(* the active bin inside the gap.                                          *)
TradeTo(to) ==
  /\ changes < MaxChanges
  /\ home \in occupied
  /\ Gap(to, home) < MaxArraysWalked
  /\ \A i \in Indexes \ {to} : Between(i, home, to) => i \in occupied
  /\ home' = to
  /\ version' = [i \in Indexes |->
                   IF i \in occupied /\ Between(i, home, to)
                   THEN version[i] + 1 ELSE version[i]]
  /\ changes' = changes + 1
  /\ UNCHANGED <<occupied, cache, sent, updated, failed>>

(* A deposit or a withdrawal in array i sets or clears its bit.            *)
Modify(i) ==
  /\ changes < MaxChanges
  /\ occupied' \in {occupied \cup {i}, occupied \ {i}}
  /\ version' = [version EXCEPT ![i] = @ + 1]
  /\ changes' = changes + 1
  /\ UNCHANGED <<home, cache, sent, updated, failed>>

-----------------------------------------------------------------------------
(* What the router delivers of what the adapter asked for: every array it  *)
(* has not delivered in this version, and one it was not asked for last    *)
(* time (forgotten) counts as not delivered.                               *)
Requested == ArraysToFetch(pool)
Delivered == {i \in Requested : sent[i] # version[i]}

Remember(delivered) ==
  sent' = [i \in Indexes |->
             IF i \in delivered THEN version[i]
             ELSE IF i \in Requested THEN sent[i] ELSE NotSent]

(* Mutant: the arrays already held win over the ones delivered.            *)
KeepHeld(delivered, p) ==
  [i \in ArraysToFetch(p) \cap (delivered \cup DOMAIN arrays) |->
     IF i \in DOMAIN arrays THEN arrays[i] ELSE version[i]]

(* Mutant: an array is only refreshed, never added.                        *)
RefreshedOnly(delivered, p) ==
  [i \in ArraysToFetch(p) \cap DOMAIN arrays |->
     IF i \in delivered THEN version[i] ELSE arrays[i]]

(* Mutant: merged into what is held, and nothing dropped.                  *)
Merged(delivered, p) ==
  [i \in (ArraysToFetch(p) \cap delivered) \cup DOMAIN arrays |->
     IF i \in delivered THEN version[i] ELSE arrays[i]]

(* The new map: every array in reach of the new pool that was delivered,   *)
(* or is still held.                                                       *)
Rebuilt(delivered, p) ==
  [i \in ArraysToFetch(p) \cap (delivered \cup DOMAIN arrays) |->
     IF i \in delivered THEN version[i] ELSE arrays[i]]

Update ==
  /\ pool' = ChainPool
  /\ hasConfig' = TRUE
  /\ arrays' = Rebuilt(Delivered, ChainPool)
  /\ Remember(Delivered)
  /\ updated' = "ok"
  /\ UNCHANGED <<onChain, failed>>

(* The pool does not parse: nothing of what was delivered is taken.        *)
UpdateFailsOnPool ==
  /\ ParseMayFail
  /\ Remember(Delivered)
  /\ updated' = "failed" /\ failed' = TRUE
  /\ UNCHANGED <<onChain, cache>>

(* The config does not parse: the pool has been assigned already.          *)
UpdateFailsOnConfig ==
  /\ ParseMayFail
  /\ pool' = ChainPool
  /\ Remember(Delivered)
  /\ updated' = "failed" /\ failed' = TRUE
  /\ UNCHANGED <<onChain, hasConfig, arrays>>

(* Array i does not parse: the arrays before it that were still held have  *)
(* been moved to the map that is now dropped.                              *)
UpdateFailsOnArray(i) ==
  /\ ParseMayFail
  /\ i \in Delivered \cap ArraysToFetch(ChainPool)
  /\ pool' = ChainPool
  /\ hasConfig' = TRUE
  /\ arrays' = Restrict(arrays,
       {j \in DOMAIN arrays : j < i => j \in Delivered \/ j \notin ArraysToFetch(ChainPool)})
  /\ Remember(Delivered)
  /\ updated' = "failed" /\ failed' = TRUE
  /\ UNCHANGED onChain

AmmNext ==
  \/ \E i \in Indexes : TradeTo(i) \/ Modify(i) \/ UpdateFailsOnArray(i)
  \/ Update
  \/ UpdateFailsOnPool
  \/ UpdateFailsOnConfig

AmmSpec == AmmInit /\ [][AmmNext]_ammVars

(* A router keeps refreshing.                                              *)
FairAmmSpec == AmmSpec /\ WF_ammVars(Update)

-----------------------------------------------------------------------------
(***************************************************************************)
(* Properties.                                                             *)
(***************************************************************************)

(* Every variable keeps its type.                                          *)
AmmTypeOK ==
  /\ home \in Indexes /\ occupied \subseteq Indexes
  /\ version \in [Indexes -> Nat] /\ changes \in 0 .. MaxChanges
  /\ pool \in [home : Indexes, occupied : SUBSET Indexes]
  /\ hasConfig \in BOOLEAN
  /\ DOMAIN arrays \subseteq Indexes /\ \A i \in DOMAIN arrays : arrays[i] \in Nat
  /\ sent \in [Indexes -> Nat \cup {NotSent}]
  /\ updated \in {"none", "ok", "failed"} /\ failed \in BOOLEAN

(* A quote never walks an array the transaction built from it does not     *)
(* name: what the comment in update promises of an array out of reach.     *)
WalksWithinNamed == hasConfig => \A forY \in BOOLEAN : Walked(forY) \subseteq Named(forY)

(* One update that succeeds is enough for that, whatever failed before it  *)
(* and left old arrays beside a new pool.                                  *)
ReachRestored == updated = "ok" => WalksWithinNamed

(* While none has failed, an update leaves no array older than the pool    *)
(* beside it: what it kept from before had not changed.  (After a failure  *)
(* it may: the router will not deliver again what the adapter threw away.) *)
FreshAfterUpdate ==
  [][updated' = "ok" /\ ~failed /\ UNCHANGED onChain =>
       \A i \in DOMAIN arrays' : arrays'[i] = version[i]]_ammVars

(* Once the pool rests, the cache comes to hold exactly what there is in   *)
(* reach, though each update can only ask for what the last one knew.      *)
CaughtUp ==
  /\ pool = ChainPool
  /\ DOMAIN arrays = ArraysToFetch(ChainPool)
  /\ \A i \in DOMAIN arrays : arrays[i] = version[i]
CatchesUp == []~failed => <>[]CaughtUp
=============================================================================
